-------------------------- MODULE ChangeLogProofs --------------------------
(***************************************************************************)
(* For any instances, definitions and threads, and with every hazard: the  *)
(* variables of ChangeLog keep their types, no definition goes unrecorded  *)
(* without a message, no commit takes another definition along, and a      *)
(* configure without a warning has recorded what nobody wrote to.          *)
(***************************************************************************)
EXTENDS ChangeLog, TLAPS

Job == [pc : Labels, inst : Instances \cup {None}, value : Values \cup {None}]

RepoOK ==
  /\ file \in [Instances -> Contents] /\ index \in [Instances -> Contents]
  /\ head \in [Instances -> Contents]
JobOK == job \in [Procs -> Job]
HistoryOK == noted \in [Instances -> BOOLEAN] /\ warned \in BOOLEAN /\ touched \subseteq Instances

\* A thread at one of these labels has yet to make the commit of its instance
\* or to fail with a message.
Busy == {"write", "rm", "removing", "add", "adding", "commit", "committing"}

\* A thread works on its instance, and outside a request on none.
JobsNamed ==
  /\ \A w \in Threads : job[w].pc \in Busy \cup {"probe"} => job[w].inst \in Instances
  /\ \A w \in Threads : job[w].pc \in {"idle", "list"} => job[w] = Idle
  /\ \A w \in Threads : job[w].pc = "write" => job[w].value \in Values

\* What a definition still waits for: nothing any more (an error is noted), a
\* thread that has not finished, or, staged as it is, the commit a probe will
\* find missing, unless the last commit has it.
Waits(i) ==
  \/ noted[i]
  \/ \E w \in Threads : job[w].pc \in Busy /\ job[w].inst = i
  \/ /\ index[i] = file[i]
     /\ head[i] = file[i] \/ \E w \in Threads : job[w].pc = "probe" /\ job[w].inst = i

\* A put has yet to stage the file.
Puts == {"write", "add", "adding"}

\* A file git does not track has a put to stage it, or an error.
Tracked(i) ==
  \/ noted[i] \/ file[i] = None \/ index[i] # None
  \/ \E w \in Threads : job[w].pc \in Puts /\ job[w].inst = i

Accounted(i) == Waits(i) /\ Tracked(i)

IInv == TypeOK /\ JobsNamed /\ \A i \in Instances : Accounted(i)

USE ChangeLogAssumption DEF ChangeLogAssumption

-----------------------------------------------------------------------------
(* Every step changes at most one job, or all of them in a crash.          *)

LEMMA GotoJob ==
  ASSUME IInv, NEW p \in Procs, NEW l \in Labels, Goto(p, l)
  PROVE  /\ job' \in [Procs -> Job]
         /\ \A q \in Procs \ {p} : job'[q] = job[q]
         /\ job'[p].pc = l
         /\ l = "idle" => job'[p] = Idle
         /\ l # "idle" => job'[p].inst = job[p].inst /\ job'[p].value = job[p].value
<1>1. job \in [Procs -> Job] /\ job[p] \in Job
  BY DEF IInv, TypeOK, Job
<1>2. Idle \in Job
  BY DEF Idle, Job, Labels
<1>3. CASE l = "idle"
  BY <1>1, <1>2, <1>3 DEF Goto, Idle
<1>4. CASE l # "idle"
  <2>1. [job[p] EXCEPT !.pc = l] \in Job
    BY <1>1 DEF Job
  <2>2. job' = [job EXCEPT ![p] = [job[p] EXCEPT !.pc = l]]
    BY <1>4 DEF Goto
  <2> QED BY <1>1, <1>4, <2>1, <2>2 DEF Job
<1> QED BY <1>3, <1>4

\* A thread that goes on with, or ends, what it is at keeps its instance.
LEMMA NamedAfterGoto ==
  ASSUME IInv, NEW p \in Procs, NEW l \in Labels \ {"write"}, Goto(p, l),
         p \in Threads => l = "idle" \/ (l \in Busy \cup {"probe"} /\ job[p].pc \in Busy \cup {"probe"})
  PROVE  JobsNamed'
<1>1. /\ \A q \in Procs \ {p} : job'[q] = job[q]
      /\ job'[p].pc = l
      /\ l = "idle" => job'[p] = Idle
      /\ l # "idle" => job'[p].inst = job[p].inst
  BY GotoJob
<1>2. \A w \in Threads : w \in Procs
  BY DEF Procs
<1>3. ASSUME NEW w \in Threads, w # p PROVE job'[w] = job[w]
  BY <1>1, <1>2, <1>3
<1>4. ASSUME NEW w \in Threads, w = p
      PROVE  /\ job'[w].pc \in Busy \cup {"probe"} => job'[w].inst \in Instances
             /\ job'[w].pc \in {"idle", "list"} => job'[w] = Idle
             /\ job'[w].pc # "write"
  BY <1>1, <1>4 DEF IInv, JobsNamed, Busy
<1> QED BY <1>3, <1>4 DEF IInv, JobsNamed

\* A definition other than the one a thread works on is as accounted for as
\* before its step.
LEMMA OthersAccounted ==
  ASSUME IInv, NEW w \in Threads, NEW i \in Instances, i # job[w].inst,
         \A q \in Threads \ {w} : job'[q] = job[q],
         noted'[i] = noted[i], file'[i] = file[i], index'[i] = index[i], head'[i] = head[i]
  PROVE  Accounted(i)'
<1>1. ASSUME NEW v \in Threads, job[v].inst = i PROVE job'[v] = job[v]
  BY <1>1
<1>2. Waits(i)'
  <2>1. CASE noted[i]
    BY <2>1 DEF Waits
  <2>2. CASE \E v \in Threads : job[v].pc \in Busy /\ job[v].inst = i
    BY <1>1, <2>2 DEF Waits
  <2>3. CASE index[i] = file[i] /\ head[i] = file[i]
    BY <2>3 DEF Waits
  <2>4. CASE index[i] = file[i] /\ \E v \in Threads : job[v].pc = "probe" /\ job[v].inst = i
    BY <1>1, <2>4 DEF Waits
  <2> QED BY <2>1, <2>2, <2>3, <2>4 DEF IInv, Accounted, Waits
<1>3. Tracked(i)'
  <2>1. CASE \E v \in Threads : job[v].pc \in Puts /\ job[v].inst = i
    BY <1>1, <2>1 DEF Tracked
  <2>2. CASE noted[i] \/ file[i] = None \/ index[i] # None
    BY <2>2 DEF Tracked
  <2> QED BY <2>1, <2>2 DEF IInv, Accounted, Tracked
<1> QED BY <1>2, <1>3 DEF Accounted

\* A step that leaves the threads, the notes and the repository alone.
LEMMA AllAccounted ==
  ASSUME IInv, \A w \in Threads : job'[w] = job[w], UNCHANGED <<repo, noted>>
  PROVE  \A i \in Instances : Accounted(i)'
BY DEF IInv, Accounted, Waits, Tracked, repo

LEMMA PostinstApart ==
  ASSUME IInv, NEW l \in Labels, Goto(Postinst, l)
  PROVE  \A w \in Threads : job'[w] = job[w]
BY GotoJob DEF Procs

-----------------------------------------------------------------------------
(* git commands that fail, or that get the lock.                           *)

LEMMA FailInv ==
  ASSUME IInv, NEW p \in Procs, NEW l \in Labels, Fail(p, l), UNCHANGED <<repo, broken>>,
         p \in Threads => l = "idle" /\ job[p].pc \in Busy,
         p = Postinst => l # "write",
         lock' \in Procs \cup {None}
  PROVE  IInv'
<1>1. Goto(p, l) /\ l # "write"
  BY DEF Fail, Procs
<1>2. JobOK' /\ JobsNamed'
  BY <1>1, GotoJob, NamedAfterGoto DEF JobOK
<1>3. CASE p = Postinst
  <2>1. \A i \in Instances : Accounted(i)'
    BY <1>1, <1>3, PostinstApart, AllAccounted DEF Fail
  <2> QED BY <1>2, <1>3, <2>1 DEF IInv, TypeOK, JobOK, Job, repo, Fail
<1>4. CASE p \in Threads
  <2> DEFINE j == job[p].inst
  <2>1. j \in Instances /\ noted' = [noted EXCEPT ![j] = TRUE] /\ UNCHANGED <<warned, touched>>
    BY <1>4 DEF Fail, IInv, JobsNamed, Inst, Procs
  <2>2. noted \in [Instances -> BOOLEAN]
    BY DEF IInv, TypeOK
  <2>3. ASSUME NEW i \in Instances PROVE Accounted(i)'
    <3>1. CASE i = j
      BY <2>1, <2>2, <3>1 DEF Accounted, Waits, Tracked
    <3>2. CASE i # j
      <4>1. \A q \in Threads \ {p} : job'[q] = job[q]
        BY <1>1, GotoJob DEF Procs
      <4> QED BY <1>4, <2>1, <2>2, <3>2, <4>1, OthersAccounted DEF repo
    <3> QED BY <3>1, <3>2
  <2> HIDE DEF j
  <2>4. noted' \in [Instances -> BOOLEAN]
    BY <2>1, <2>2
  <2> QED BY <1>2, <2>1, <2>3, <2>4 DEF IInv, TypeOK, JobOK, Job, repo
<1> QED BY <1>3, <1>4 DEF Procs

LEMMA LockInv ==
  ASSUME IInv, NEW p \in Procs, NEW l \in Busy, NEW l2 \in Busy \ {"write"},
         NEW failed \in {"idle", "probe"}, l \in Puts => l2 \in Puts, p \in Threads => failed = "idle",
         Lock(p, l, l2, failed)
  PROVE  IInv'
<1>0. l2 \in Labels /\ failed \in Labels /\ job[p].pc = l
  BY DEF Busy, Labels, Lock, At
<1>1. CASE Fail(p, failed) /\ UNCHANGED lock
  BY <1>0, <1>1, FailInv DEF Lock, IInv, TypeOK
<1>2. CASE lock' = p /\ Goto(p, l2) /\ UNCHANGED history
  <2>1. JobOK' /\ JobsNamed'
    BY <1>0, <1>2, GotoJob, NamedAfterGoto DEF JobOK
  <2>2. \A i \in Instances : Accounted(i)'
    <3>1. CASE p = Postinst
      BY <1>0, <1>2, <3>1, PostinstApart, AllAccounted DEF Lock, history
    <3>2. CASE p \in Threads
      <4>1. /\ \A q \in Threads \ {p} : job'[q] = job[q]
            /\ job'[p].pc \in Busy /\ job'[p].inst = job[p].inst
        BY <1>0, <1>2, GotoJob DEF Procs, Busy
      <4>2. UNCHANGED <<file, index, head, noted>>
        BY <1>2 DEF Lock, repo, history
      <4>3. ASSUME NEW i \in Instances, i = job[p].inst PROVE Accounted(i)'
        <5>1. Waits(i)'
          BY <3>2, <4>1, <4>3 DEF Waits
        <5>2. CASE l \in Puts
          BY <1>0, <1>2, <3>2, <4>1, <4>3, <5>1, <5>2, GotoJob DEF Accounted, Tracked
        <5>3. CASE l \notin Puts
          <6>1. ASSUME NEW v \in Threads, job[v].pc \in Puts PROVE job'[v] = job[v]
            BY <1>0, <4>1, <5>3, <6>1
          <6>2. Tracked(i)'
            BY <4>2, <6>1 DEF IInv, Accounted, Tracked
          <6> QED BY <5>1, <6>2 DEF Accounted
        <5> QED BY <5>2, <5>3
      <4>4. ASSUME NEW i \in Instances, i # job[p].inst PROVE Accounted(i)'
        BY <3>2, <4>1, <4>2, <4>4, OthersAccounted
      <4> QED BY <4>3, <4>4
    <3> QED BY <3>1, <3>2 DEF Procs
  <2> QED BY <1>2, <2>1, <2>2 DEF IInv, TypeOK, JobOK, Job, Lock, repo, history
<1> QED BY <1>1, <1>2 DEF Lock

-----------------------------------------------------------------------------
(* The steps of a thread.                                                  *)

\* What is left to show of a thread's step: the types, and its own instance.
LEMMA ThreadStep ==
  ASSUME IInv, NEW w \in Threads, NEW l \in Labels \ {"write"}, Goto(w, l),
         job[w].pc \in Busy \cup {"probe"}, l = "idle" \/ l \in Busy \cup {"probe"},
         NEW j \in Instances, j = job[w].inst, Accounted(j)',
         RepoOK', HistoryOK', lock' \in Procs \cup {None}, broken' \in BOOLEAN,
         \A i \in Instances \ {j} :
           noted'[i] = noted[i] /\ file'[i] = file[i] /\ index'[i] = index[i] /\ head'[i] = head[i]
  PROVE  IInv'
<1>1. w \in Procs
  BY DEF Procs
<1>2. JobOK' /\ JobsNamed' /\ \A q \in Threads \ {w} : job'[q] = job[q]
  BY <1>1, GotoJob, NamedAfterGoto DEF JobOK, Procs
<1>3. ASSUME NEW i \in Instances PROVE Accounted(i)'
  <2>1. CASE i = j
    BY <2>1
  <2>2. CASE i # j
    BY <1>2, <2>2, OthersAccounted
  <2> QED BY <2>1, <2>2
<1> QED BY <1>2, <1>3 DEF IInv, TypeOK, RepoOK, JobOK, HistoryOK, Job

LEMMA OpenInv ==
  ASSUME IInv, NEW w \in Threads, Open(w) PROVE IInv'
<1>1. PICK i \in Instances, v \in Values :
        /\ file' = [file EXCEPT ![i] = Torn]
        /\ job' = [job EXCEPT ![w] = [pc |-> "write", inst |-> i, value |-> v]]
        /\ Written(i)
  BY DEF Open
<1>2. job[w] = Idle /\ w \in Procs /\ UNCHANGED <<index, head, lock, broken, warned>>
  BY DEF Open, At, IInv, JobsNamed, Procs
<1>3. TypeOK'
  BY <1>1, <1>2 DEF IInv, TypeOK, Written, Contents, Labels
<1>4. job'[w] = [pc |-> "write", inst |-> i, value |-> v] /\ \A q \in Threads \ {w} : job'[q] = job[q]
  BY <1>1, <1>2 DEF IInv, TypeOK, Procs
<1>5. JobsNamed'
  BY <1>4 DEF IInv, JobsNamed
<1>6. ASSUME NEW j \in Instances PROVE Accounted(j)'
  <2>1. CASE j = i
    BY <1>4, <2>1 DEF Accounted, Waits, Tracked, Busy, Puts
  <2>2. CASE j # i
    <3>1. file'[j] = file[j] /\ noted'[j] = noted[j] /\ j # job[w].inst
      BY <1>1, <1>2, <2>2 DEF IInv, TypeOK, Written, Idle
    <3> QED BY <1>2, <1>4, <3>1, OthersAccounted
  <2> QED BY <2>1, <2>2
<1> QED BY <1>3, <1>5, <1>6 DEF IInv

LEMMA DeleteInv ==
  ASSUME IInv, NEW w \in Threads, Delete(w) PROVE IInv'
<1>1. PICK i \in Instances :
        /\ file' = [file EXCEPT ![i] = None]
        /\ job' = [job EXCEPT ![w] = [pc |-> "rm", inst |-> i, value |-> None]]
        /\ Written(i)
  BY DEF Delete
<1>2. job[w] = Idle /\ w \in Procs /\ UNCHANGED <<index, head, lock, broken, warned>>
  BY DEF Delete, At, IInv, JobsNamed, Procs
<1>3. TypeOK'
  BY <1>1, <1>2 DEF IInv, TypeOK, Written, Contents, Labels
<1>4. job'[w] = [pc |-> "rm", inst |-> i, value |-> None] /\ \A q \in Threads \ {w} : job'[q] = job[q]
  BY <1>1, <1>2 DEF IInv, TypeOK, Procs
<1>5. JobsNamed'
  BY <1>4 DEF IInv, JobsNamed
<1>6. ASSUME NEW j \in Instances PROVE Accounted(j)'
  <2>1. CASE j = i
    <3>1. file'[j] = None
      BY <1>1, <2>1 DEF IInv, TypeOK
    <3> QED BY <1>4, <2>1, <3>1 DEF Accounted, Waits, Tracked, Busy
  <2>2. CASE j # i
    <3>1. file'[j] = file[j] /\ noted'[j] = noted[j] /\ j # job[w].inst
      BY <1>1, <1>2, <2>2 DEF IInv, TypeOK, Written, Idle
    <3> QED BY <1>2, <1>4, <3>1, OthersAccounted
  <2> QED BY <2>1, <2>2
<1> QED BY <1>3, <1>5, <1>6 DEF IInv

\* The instance of a thread that has one.
LEMMA Own ==
  ASSUME IInv, NEW w \in Threads, job[w].pc \in Busy \cup {"probe"}
  PROVE  job[w].inst \in Instances /\ w \in Procs /\ RepoOK /\ HistoryOK
         /\ lock \in Procs \cup {None} /\ broken \in BOOLEAN
BY DEF IInv, JobsNamed, TypeOK, RepoOK, HistoryOK, Procs

\* A thread at a busy label accounts for its instance.
LEMMA BusyAccounts ==
  ASSUME IInv, NEW w \in Threads, NEW l \in Busy, job[w].pc \in Busy \cup {"probe"}, Goto(w, l),
         NEW j, j = job[w].inst
  PROVE  Waits(j)' /\ (l \in Puts => Tracked(j)')
<1>1. job'[w].pc = l /\ job'[w].inst = j
  BY GotoJob DEF Procs, Busy, Labels
<1> QED BY <1>1 DEF Waits, Tracked

LEMMA WriteInv ==
  ASSUME IInv, NEW w \in Threads, Write(w) PROVE IInv'
<1>0. PICK i : i = job[w].inst
  OBVIOUS
<1>1. /\ job[w].pc = "write" /\ Goto(w, "add") /\ Written(i)
      /\ file' = [file EXCEPT ![i] = IF @ = None THEN None ELSE job[w].value]
      /\ UNCHANGED <<index, head, lock, broken, warned>>
  BY <1>0 DEF Write, At, Inst
<1>2. i \in Instances /\ RepoOK /\ HistoryOK /\ lock \in Procs \cup {None} /\ broken \in BOOLEAN
  BY <1>0, <1>1, Own DEF Busy
<1>3. job[w].value \in Contents
  BY <1>1 DEF IInv, JobsNamed, Contents
<1>4. Accounted(i)'
  BY <1>0, <1>1, BusyAccounts DEF Busy, Puts, Accounted
<1>5. RepoOK'
  BY <1>1, <1>2, <1>3 DEF RepoOK, Contents
<1>6. HistoryOK'
  BY <1>1, <1>2 DEF HistoryOK, Written
<1>7. \A j \in Instances \ {i} :
        noted'[j] = noted[j] /\ file'[j] = file[j] /\ index'[j] = index[j] /\ head'[j] = head[j]
  BY <1>1, <1>2 DEF Written, RepoOK, HistoryOK
<1> QED BY <1>0, <1>1, <1>2, <1>4, <1>5, <1>6, <1>7, ThreadStep DEF Busy, Labels

LEMMA AddInv ==
  ASSUME IInv, NEW w \in Threads, Add(w) PROVE IInv'
<1>0. PICK i : i = job[w].inst
  OBVIOUS
<1>1. CASE Lock(w, "add", "adding", "idle")
  BY <1>1, LockInv DEF Procs, Busy, Puts
<1>2. ASSUME At(w, "adding"), UNCHANGED broken, lock' = None, Fail(w, "idle"), UNCHANGED repo
      PROVE  IInv'
  BY <1>2, FailInv DEF At, Busy, Labels, Procs
<1>3. ASSUME At(w, "adding"), UNCHANGED broken, lock' = None, Goto(w, "probe"),
             index' = [index EXCEPT ![i] = file[i]], UNCHANGED <<file, head, history>>
      PROVE  IInv'
  <2>1. /\ i \in Instances /\ w \in Procs /\ RepoOK /\ HistoryOK /\ broken \in BOOLEAN
        /\ job[w].pc = "adding"
    BY <1>0, <1>3, Own DEF At, Busy
  <2>2. job'[w].pc = "probe" /\ job'[w].inst = i
    BY <1>0, <1>3, <2>1, GotoJob DEF Labels
  <2>3. index'[i] = file[i] /\ RepoOK'
    BY <1>3, <2>1 DEF RepoOK
  <2>4. Waits(i)' /\ Tracked(i)'
    BY <1>3, <2>2, <2>3 DEF Waits, Tracked
  <2>5. HistoryOK'
    BY <1>3, <2>1 DEF HistoryOK, history
  <2>6. \A j \in Instances \ {i} :
          noted'[j] = noted[j] /\ file'[j] = file[j] /\ index'[j] = index[j] /\ head'[j] = head[j]
    BY <1>3, <2>1 DEF RepoOK, history
  <2> QED BY <1>0, <1>3, <2>1, <2>3, <2>4, <2>5, <2>6, ThreadStep DEF Accounted, Labels, Busy
<1> QED BY <1>0, <1>1, <1>2, <1>3 DEF Add, Inst

LEMMA RmInv ==
  ASSUME IInv, NEW w \in Threads, Rm(w) PROVE IInv'
<1>0. PICK i : i = job[w].inst
  OBVIOUS
<1>1. CASE Lock(w, "rm", "removing", "idle")
  BY <1>1, LockInv DEF Procs, Busy, Puts
<1>2. ASSUME At(w, "removing"), UNCHANGED broken, lock' = None, Fail(w, "idle"), UNCHANGED repo
      PROVE  IInv'
  BY <1>2, FailInv DEF At, Busy, Labels, Procs
<1>3. ASSUME At(w, "removing"), UNCHANGED broken, lock' = None, Goto(w, "probe"),
             index' = [index EXCEPT ![i] = None],
             file' = IF index[i] # None /\ file[i] # None THEN [file EXCEPT ![i] = None] ELSE file,
             UNCHANGED <<head, history>>
      PROVE  IInv'
  <2>1. /\ i \in Instances /\ w \in Procs /\ RepoOK /\ HistoryOK /\ broken \in BOOLEAN
        /\ job[w].pc = "removing"
    BY <1>0, <1>3, Own DEF At, Busy
  <2>2. /\ job'[w].pc = "probe" /\ job'[w].inst = i
        /\ \A v \in Threads \ {w} : job'[v] = job[v]
    BY <1>0, <1>3, <2>1, GotoJob DEF Labels, Procs
  <2>3. index'[i] = None /\ index' \in [Instances -> Contents]
    BY <1>3, <2>1 DEF RepoOK, Contents
  <2>4. file' \in [Instances -> Contents] /\ \A j \in Instances \ {i} : file'[j] = file[j]
    BY <1>3, <2>1 DEF RepoOK, Contents
  <2>5. file'[i] = None \/ (file'[i] = file[i] /\ index[i] = None)
    BY <1>3, <2>1 DEF RepoOK
  <2>6. ASSUME file'[i] = None PROVE Accounted(i)'
    BY <2>2, <2>3, <2>6 DEF Waits, Tracked, Accounted
  <2>7. ASSUME file'[i] # None PROVE Accounted(i)'
    <3>1. noted[i] \/ \E v \in Threads : job[v].pc \in Puts /\ job[v].inst = i
      BY <2>1, <2>5, <2>7 DEF IInv, Accounted, Tracked
    <3>2. CASE noted[i]
      BY <1>3, <3>2 DEF Waits, Tracked, Accounted, history
    <3>3. CASE \E v \in Threads : job[v].pc \in Puts /\ job[v].inst = i
      <4>1. PICK v \in Threads : job[v].pc \in Puts /\ job[v].inst = i
        BY <3>3
      <4>2. job'[v] = job[v]
        BY <2>1, <2>2, <4>1 DEF Puts
      <4> QED BY <4>1, <4>2 DEF Waits, Tracked, Accounted, Puts, Busy
    <3> QED BY <3>1, <3>2, <3>3
  <2>8. HistoryOK' /\ RepoOK'
    BY <1>3, <2>1, <2>3, <2>4 DEF HistoryOK, RepoOK, history
  <2>9. \A j \in Instances \ {i} :
          noted'[j] = noted[j] /\ file'[j] = file[j] /\ index'[j] = index[j] /\ head'[j] = head[j]
    BY <1>3, <2>1, <2>4 DEF RepoOK, history
  <2> QED BY <1>0, <1>3, <2>1, <2>6, <2>7, <2>8, <2>9, ThreadStep DEF Labels, Busy
<1> QED BY <1>0, <1>1, <1>2, <1>3 DEF Rm, Inst

LEMMA ProbeInv ==
  ASSUME IInv, NEW w \in Threads, Probe(w) PROVE IInv'
<1>0. PICK i : i = job[w].inst
  OBVIOUS
<1>1. /\ job[w].pc = "probe" /\ UNCHANGED <<repo, lock, broken, history>>
      /\ Goto(w, IF ~broken /\ index[i] = head[i] THEN "idle" ELSE "commit")
  BY <1>0 DEF Probe, At, Inst
<1>2. /\ i \in Instances /\ w \in Procs /\ RepoOK /\ HistoryOK /\ broken \in BOOLEAN
      /\ lock \in Procs \cup {None}
  BY <1>0, <1>1, Own
<1>3. RepoOK' /\ HistoryOK' /\ lock' \in Procs \cup {None} /\ broken' \in BOOLEAN
  BY <1>1, <1>2 DEF RepoOK, HistoryOK, repo, history
<1>4. \A j \in Instances :
        noted'[j] = noted[j] /\ file'[j] = file[j] /\ index'[j] = index[j] /\ head'[j] = head[j]
  BY <1>1 DEF repo, history
<1>5. ASSUME NEW l \in {"idle", "commit"}, Goto(w, l) PROVE Tracked(i)'
  <2>1. \A v \in Threads \ {w} : job'[v] = job[v]
    BY <1>2, <1>5, GotoJob DEF Labels, Procs
  <2>2. ASSUME NEW v \in Threads, job[v].pc \in Puts PROVE job'[v] = job[v]
    BY <1>1, <2>1, <2>2 DEF Puts
  <2> QED BY <1>2, <1>4, <2>2 DEF IInv, Accounted, Tracked
<1>6. CASE ~broken /\ index[i] = head[i]
  <2>1. Goto(w, "idle")
    BY <1>1, <1>6
  <2>2. \A v \in Threads \ {w} : job'[v] = job[v]
    BY <1>2, <2>1, GotoJob DEF Labels, Procs
  <2>3. ASSUME NEW v \in Threads, job[v].pc \in Busy PROVE job'[v] = job[v]
    BY <1>1, <2>2, <2>3 DEF Busy
  <2>4. Waits(i)'
    BY <1>2, <1>4, <1>6, <2>3 DEF IInv, Accounted, Waits
  <2> QED BY <1>0, <1>1, <1>2, <1>3, <1>4, <1>5, <2>1, <2>4, ThreadStep DEF Accounted, Labels
<1>7. CASE ~(~broken /\ index[i] = head[i])
  <2>1. Goto(w, "commit")
    BY <1>1, <1>7
  <2>2. Waits(i)'
    BY <1>0, <1>1, <2>1, BusyAccounts DEF Busy
  <2> QED BY <1>0, <1>1, <1>2, <1>3, <1>4, <1>5, <2>1, <2>2, ThreadStep DEF Accounted, Labels, Busy
<1> QED BY <1>6, <1>7

LEMMA CommitInv ==
  ASSUME IInv, NEW w \in Threads, Commit(w) PROVE IInv'
<1>0. PICK i : i = job[w].inst
  OBVIOUS
<1>1. CASE Lock(w, "commit", "committing", "idle")
  BY <1>1, LockInv DEF Procs, Busy, Puts
<1>2. ASSUME At(w, "committing"), UNCHANGED broken, lock' = None, Fail(w, "idle"), UNCHANGED repo
      PROVE  IInv'
  BY <1>2, FailInv DEF At, Busy, Labels, Procs
<1>3. ASSUME At(w, "committing"), UNCHANGED broken, lock' = None, Goto(w, "idle"),
             head' = [head EXCEPT ![i] = file[i]], index' = [index EXCEPT ![i] = file[i]],
             UNCHANGED <<file, history>>
      PROVE  IInv'
  <2>1. /\ i \in Instances /\ w \in Procs /\ RepoOK /\ HistoryOK /\ broken \in BOOLEAN
        /\ job[w].pc = "committing"
    BY <1>0, <1>3, Own DEF At, Busy
  <2>2. index'[i] = file[i] /\ head'[i] = file[i] /\ RepoOK'
    BY <1>3, <2>1 DEF RepoOK
  <2>3. Waits(i)' /\ Tracked(i)'
    BY <1>3, <2>2 DEF Waits, Tracked
  <2>4. HistoryOK'
    BY <1>3, <2>1 DEF HistoryOK, history
  <2>5. \A j \in Instances \ {i} :
          noted'[j] = noted[j] /\ file'[j] = file[j] /\ index'[j] = index[j] /\ head'[j] = head[j]
    BY <1>3, <2>1 DEF RepoOK, history
  <2> QED BY <1>0, <1>3, <2>1, <2>2, <2>3, <2>4, <2>5, ThreadStep DEF Accounted, Labels, Busy
<1> QED BY <1>0, <1>1, <1>2, <1>3 DEF Commit, Inst

-----------------------------------------------------------------------------
(* The package's configure.                                                *)

\* A step of the configure that adds all, commits all, or only looks.
LEMMA PackageStep ==
  ASSUME IInv, NEW l \in Labels \ {"write"}, Goto(Postinst, l),
         RepoOK', HistoryOK', lock' \in Procs \cup {None}, broken' \in BOOLEAN,
         noted' = noted, file' = file,
         \/ index' = file /\ head' = head
         \/ index' = index /\ head' = index
         \/ index' = index /\ head' = head
  PROVE  IInv'
<1>1. JobOK' /\ JobsNamed' /\ \A w \in Threads : job'[w] = job[w]
  BY GotoJob, NamedAfterGoto DEF JobOK, Procs
<1>2. ASSUME NEW i \in Instances PROVE Accounted(i)'
  <2>1. Waits(i) /\ Tracked(i)
    BY DEF IInv, Accounted
  <2>2. index'[i] = file[i] \/ index'[i] = index[i]
    OBVIOUS
  <2>3. index[i] = file[i] => head'[i] = file[i] \/ head'[i] = head[i]
    OBVIOUS
  <2>4. index[i] = file[i] => index'[i] = file[i]
    OBVIOUS
  <2>5. Waits(i)'
    BY <1>1, <2>1, <2>3, <2>4 DEF Waits
  <2>6. Tracked(i)'
    BY <1>1, <2>1, <2>2 DEF Tracked
  <2> QED BY <2>5, <2>6 DEF Accounted
<1> QED BY <1>1, <1>2 DEF IInv, TypeOK, RepoOK, JobOK, HistoryOK, Job

LEMMA PackageInv ==
  ASSUME IInv, Package PROVE IInv'
<1>0. /\ Postinst \in Procs /\ Postinst \notin Threads /\ RepoOK /\ HistoryOK
      /\ lock \in Procs \cup {None} /\ broken \in BOOLEAN /\ job \in [Procs -> Job]
  BY DEF Procs, IInv, TypeOK, RepoOK, HistoryOK, Job
<1>1. CASE Configure
  <2>1. touched' \subseteq Instances
    BY <1>0, <1>1 DEF Configure, Inst, Procs, Job
  <2>2. HistoryOK' /\ RepoOK'
    BY <1>0, <1>1, <2>1 DEF Configure, HistoryOK, RepoOK, repo
  <2> QED BY <1>0, <1>1, <2>2, PackageStep DEF Configure, repo, Labels
<1>2. CASE List
  <2>1. HistoryOK' /\ RepoOK'
    BY <1>0, <1>2 DEF List, HistoryOK, RepoOK, repo, history
  <2>2. PICK l \in {"add", "probe"} : Goto(Postinst, l)
    BY <1>2 DEF List
  <2> QED BY <1>0, <1>2, <2>1, <2>2, PackageStep DEF List, repo, history, Labels
<1>3. CASE AddAll
  <2>1. CASE Lock(Postinst, "add", "adding", "probe")
    BY <1>0, <2>1, LockInv DEF Busy, Puts
  <2>2. CASE /\ UNCHANGED broken /\ lock' = None /\ index' = file
             /\ Goto(Postinst, "probe") /\ UNCHANGED <<file, head, history>>
    <3>1. HistoryOK' /\ RepoOK'
      BY <1>0, <2>2 DEF HistoryOK, RepoOK, history
    <3> QED BY <1>0, <2>2, <3>1, PackageStep DEF Labels, history
  <2> QED BY <1>3, <2>1, <2>2 DEF AddAll
<1>4. CASE DiffAll
  <2>1. CASE broken /\ Fail(Postinst, "idle")
    BY <1>0, <1>4, <2>1, FailInv DEF DiffAll, Labels
  <2>2. CASE Goto(Postinst, IF index = head THEN "idle" ELSE "commit") /\ UNCHANGED history
    <3>1. HistoryOK' /\ RepoOK'
      BY <1>0, <1>4, <2>2 DEF DiffAll, HistoryOK, RepoOK, repo, history
    <3>2. PICK l \in {"idle", "commit"} : Goto(Postinst, l)
      BY <2>2
    <3> QED BY <1>0, <1>4, <2>2, <3>1, <3>2, PackageStep DEF DiffAll, repo, history, Labels
  <2> QED BY <1>4, <2>1, <2>2 DEF DiffAll
<1>5. CASE CommitAll
  <2>1. CASE Lock(Postinst, "commit", "committing", "idle")
    BY <1>0, <2>1, LockInv DEF Busy, Puts
  <2>2. CASE /\ UNCHANGED broken /\ lock' = None /\ head' = index /\ Goto(Postinst, "idle")
             /\ UNCHANGED <<file, index, history>>
    <3>1. HistoryOK' /\ RepoOK'
      BY <1>0, <2>2 DEF HistoryOK, RepoOK, history
    <3> QED BY <1>0, <2>2, <3>1, PackageStep DEF Labels, history
  <2>3. CASE UNCHANGED broken /\ lock' = None /\ Fail(Postinst, "idle") /\ UNCHANGED repo
    BY <1>0, <2>3, FailInv DEF Labels
  <2> QED BY <1>5, <2>1, <2>2, <2>3 DEF CommitAll
<1> QED BY <1>1, <1>2, <1>3, <1>4, <1>5 DEF Package

-----------------------------------------------------------------------------
(* What happens around them.                                               *)

\* The jobs, the notes and the repository as they were.
LEMMA NothingMoves ==
  ASSUME IInv, UNCHANGED <<repo, job, history>>, lock' \in Procs \cup {None}, broken' \in BOOLEAN
  PROVE  IInv'
<1>1. TypeOK' /\ JobsNamed'
  BY DEF IInv, TypeOK, JobsNamed, repo, history
<1>2. \A i \in Instances : Accounted(i)'
  BY AllAccounted DEF history
<1> QED BY <1>1, <1>2 DEF IInv

\* A killed request counts as noted, so every definition a thread accounted
\* for stays accounted for.
LEMMA CrashInv ==
  ASSUME IInv, Crash PROVE IInv'
<1>1. PICK dead \in {Threads, Procs} :
        /\ job' = [p \in Procs |-> IF p \in dead THEN Idle ELSE job[p]]
        /\ lock' \in IF lock \in dead THEN {lock, None} ELSE {lock}
        /\ warned' = (warned \/ Postinst \in dead)
  BY DEF Crash
<1>2. /\ noted' = [i \in Instances |-> noted[i] \/ \E w \in Threads : Inst(w) = i]
      /\ UNCHANGED <<repo, broken, touched>>
  BY DEF Crash
<1>3. /\ RepoOK /\ HistoryOK /\ lock \in Procs \cup {None} /\ broken \in BOOLEAN
      /\ job \in [Procs -> Job]
  BY DEF IInv, TypeOK, RepoOK, HistoryOK, Job
<1>4. Idle \in Job
  BY DEF Idle, Job, Labels
<1>5. JobOK' /\ \A w \in Threads : job'[w] = Idle
  BY <1>1, <1>3, <1>4 DEF JobOK, Procs
<1>6. JobsNamed'
  BY <1>5 DEF JobsNamed, Idle, Busy
<1>7. lock' \in Procs \cup {None}
  BY <1>1, <1>3
<1>8. noted' \in [Instances -> BOOLEAN]
  BY <1>2, <1>3 DEF HistoryOK
<1>9. warned' \in BOOLEAN
  BY <1>1, <1>3 DEF HistoryOK
<1>10. RepoOK' /\ HistoryOK' /\ broken' \in BOOLEAN
  BY <1>2, <1>3, <1>8, <1>9 DEF RepoOK, HistoryOK, repo
<1>11. ASSUME NEW i \in Instances PROVE Accounted(i)'
  <2>1. CASE noted'[i]
    BY <2>1 DEF Accounted, Waits, Tracked
  <2>2. CASE ~noted'[i]
    <3>1. ~noted[i] /\ \A w \in Threads : job[w].inst # i
      BY <1>2, <2>2 DEF Inst
    <3>2. Waits(i) /\ Tracked(i)
      BY DEF IInv, Accounted
    <3>3. index[i] = file[i] /\ head[i] = file[i]
      BY <3>1, <3>2 DEF Waits
    <3>4. file[i] = None \/ index[i] # None
      BY <3>1, <3>2 DEF Tracked
    <3> QED BY <1>2, <3>3, <3>4 DEF Accounted, Waits, Tracked, repo
  <2> QED BY <2>1, <2>2
<1> QED BY <1>5, <1>6, <1>7, <1>10, <1>11 DEF IInv, TypeOK, RepoOK, JobOK, HistoryOK, Job

LEMMA InitInv == Init => IInv
<1> SUFFICES ASSUME Init PROVE IInv
  OBVIOUS
<1>1. Idle \in Job
  BY DEF Idle, Job, Labels
<1>2. TypeOK
  BY <1>1 DEF Init, TypeOK, Contents, Job
<1>3. JobsNamed
  BY DEF Init, JobsNamed, Procs, Idle, Busy
<1>4. \A i \in Instances : Accounted(i)
  BY DEF Init, Accounted, Waits, Tracked
<1> QED BY <1>2, <1>3, <1>4 DEF IInv

LEMMA NextInv == IInv /\ [Next]_vars => IInv'
<1> SUFFICES ASSUME IInv, [Next]_vars PROVE IInv'
  OBVIOUS
<1>1. CASE \E w \in Threads : Work(w)
  BY <1>1, OpenInv, WriteInv, DeleteInv, AddInv, RmInv, ProbeInv, CommitInv DEF Work
<1>2. CASE Package
  BY <1>2, PackageInv
<1>3. CASE Damage
  BY <1>3, NothingMoves DEF Damage, IInv, TypeOK
<1>4. CASE Repair
  BY <1>4, NothingMoves DEF Repair, IInv, TypeOK
<1>5. CASE Crash
  BY <1>5, CrashInv
<1>6. CASE UNCHANGED vars
  BY <1>6, NothingMoves DEF vars, repo, history, IInv, TypeOK
<1> QED BY <1>1, <1>2, <1>3, <1>4, <1>5, <1>6 DEF Next

LEMMA Invariance == Spec => []IInv
<1> QED BY InitInv, NextInv, PTL DEF Spec

-----------------------------------------------------------------------------
(* Theorems.                                                               *)

\* The variables keep their types.
THEOREM ChangeLogTypeCorrect == Spec => []TypeOK
<1>1. IInv => TypeOK
  BY DEF IInv
<1> QED BY <1>1, Invariance, PTL

\* A definition that no request is working on is as the last commit has it, or
\* an error was logged for it (store.py: put, delete, _git), whatever the
\* threads, the package's configure, git and the host do.
THEOREM NothingUnnoted == Spec => []RecordedOrNoted
<1>1. IInv => RecordedOrNoted
  BY DEF IInv, RecordedOrNoted, AtRest, Inst, Accounted, Waits
<1> QED BY <1>1, Invariance, PTL

\* No commit of a request takes another definition along (store.py:
\* _commit_if_staged): a step that changes the last commit of one is the commit
\* of a request on it, or the package's.
THEOREM OwnCommits == Spec => CommitsOwnFile
<1>1. ASSUME IInv, [Next]_vars, NEW i \in Instances, head'[i] # head[i]
      PROVE  \/ At(Postinst, "committing")
             \/ \E w \in Threads : At(w, "committing") /\ Inst(w) = i
  <2>1. CASE \E w \in Threads : Commit(w)
    <3>1. PICK w \in Threads : Commit(w)
      BY <2>1
    <3>2. At(w, "committing") /\ head' = [head EXCEPT ![Inst(w)] = file[Inst(w)]]
      BY <1>1, <3>1 DEF Commit, Lock, repo
    <3>3. head \in [Instances -> Contents]
      BY <1>1 DEF IInv, TypeOK
    <3> QED BY <1>1, <3>2, <3>3
  <2>2. CASE CommitAll
    BY <1>1, <2>2 DEF CommitAll, Lock, repo
  <2>3. CASE Configure \/ List \/ AddAll \/ DiffAll
    BY <1>1, <2>3 DEF Configure, List, AddAll, DiffAll, Lock, repo
  <2>4. CASE Damage \/ Repair \/ Crash \/ UNCHANGED vars
    BY <1>1, <2>4 DEF Damage, Repair, Crash, vars, repo
  <2>5. ASSUME NEW w \in Threads, Open(w) \/ Write(w) \/ Delete(w) \/ Add(w) \/ Rm(w) \/ Probe(w)
        PROVE  FALSE
    BY <1>1, <2>5 DEF Open, Write, Delete, Add, Rm, Probe, Lock, repo
  <2> QED BY <1>1, <2>1, <2>2, <2>3, <2>4, <2>5 DEF Next, Work, Package
<1>2. IInv /\ [Next]_vars =>
        [\A i \in Instances : head'[i] # head[i] =>
           \/ At(Postinst, "committing")
           \/ \E w \in Threads : At(w, "committing") /\ Inst(w) = i]_vars
  BY <1>1
<1> QED BY <1>2, Invariance, PTL DEF CommitsOwnFile, Spec

-----------------------------------------------------------------------------
(* The configure.                                                          *)

\* While a configure runs, who works on a definition has touched it; once its
\* add is behind it, the index has every definition nobody touched, unless git
\* cannot read the repository, which the probe tells; after the probe it has.
Watched == \A w \in Threads : Inst(w) # None => Inst(w) \in touched
Staged == \A i \in Instances \ touched : index[i] = file[i]
Recording ==
  /\ ~At(Postinst, "idle") => Watched
  /\ At(Postinst, "probe") /\ ~warned => broken \/ Staged
  /\ (At(Postinst, "commit") \/ At(Postinst, "committing")) /\ ~warned => Staged

\* What a request changes is its own definition, and that is touched.
LEMMA RequestTouches ==
  ASSUME IInv, NEW w \in Threads, Work(w), Watched
  PROVE  /\ UNCHANGED <<job[Postinst], warned, broken>>
         /\ touched \subseteq touched' /\ Watched'
         /\ \A i \in Instances \ touched' : file'[i] = file[i] /\ index'[i] = index[i]
<1>1. w \in Procs /\ Postinst \in Procs \ {w} /\ Threads \subseteq Procs
  BY DEF Procs
<1>2. RepoOK /\ job \in [Procs -> Job]
  BY DEF IInv, TypeOK, RepoOK, Job
<1>3. ASSUME NEW i \in Instances, touched' = touched \cup {i},
             \A q \in Procs \ {w} : job'[q] = job[q], job'[w].inst \in {i, None}
      PROVE  touched \subseteq touched' /\ Watched'
  BY <1>1, <1>3 DEF Watched, Inst
<1>4. ASSUME NEW l \in Labels, Goto(w, l)
      PROVE  /\ \A q \in Procs \ {w} : job'[q] = job[q]
             /\ job'[w].inst \in {job[w].inst, None}
  <2>1. /\ \A q \in Procs \ {w} : job'[q] = job[q]
        /\ l = "idle" => job'[w] = Idle
        /\ l # "idle" => job'[w].inst = job[w].inst
    BY <1>1, <1>4, GotoJob
  <2> QED BY <2>1 DEF Idle
<1>5. CASE Open(w)
  <2>1. PICK i \in Instances, v \in Values :
          /\ file' = [file EXCEPT ![i] = Torn]
          /\ job' = [job EXCEPT ![w] = [pc |-> "write", inst |-> i, value |-> v]]
          /\ Written(i)
    BY <1>5 DEF Open
  <2>2. UNCHANGED <<index, warned, broken>>
    BY <1>5 DEF Open
  <2>3. \A q \in Procs \ {w} : job'[q] = job[q]
    BY <1>2, <2>1
  <2>4. job'[w].inst = i
    BY <1>1, <1>2, <2>1
  <2> QED BY <1>1, <1>2, <1>3, <2>1, <2>2, <2>3, <2>4 DEF Written, RepoOK
<1>6. CASE Delete(w)
  <2>1. PICK i \in Instances :
          /\ file' = [file EXCEPT ![i] = None]
          /\ job' = [job EXCEPT ![w] = [pc |-> "rm", inst |-> i, value |-> None]]
          /\ Written(i)
    BY <1>6 DEF Delete
  <2>2. UNCHANGED <<index, warned, broken>>
    BY <1>6 DEF Delete
  <2>3. \A q \in Procs \ {w} : job'[q] = job[q]
    BY <1>2, <2>1
  <2>4. job'[w].inst = i
    BY <1>1, <1>2, <2>1
  <2> QED BY <1>1, <1>2, <1>3, <2>1, <2>2, <2>3, <2>4 DEF Written, RepoOK
<1>7. CASE Write(w)
  <2>1. job[w].inst \in Instances
    BY <1>7, Own DEF Write, At, Busy
  <2>2. /\ Goto(w, "add") /\ touched' = touched \cup {job[w].inst}
        /\ file' = [file EXCEPT ![job[w].inst] = IF @ = None THEN None ELSE job[w].value]
        /\ UNCHANGED <<index, warned, broken>>
    BY <1>7 DEF Write, Written, Inst
  <2>3. /\ \A q \in Procs \ {w} : job'[q] = job[q]
        /\ job'[w].inst \in {job[w].inst, None}
    BY <1>4, <2>2 DEF Labels
  <2> QED BY <1>1, <1>2, <1>3, <2>1, <2>2, <2>3 DEF RepoOK
<1>8. CASE Add(w) \/ Rm(w) \/ Probe(w) \/ Commit(w)
  <2>1. job[w].inst \in Instances /\ job[w].inst # None
    BY <1>8, Own DEF Add, Rm, Probe, Commit, Lock, At, Busy
  <2>2. PICK l \in Labels : Goto(w, l)
    BY <1>8 DEF Add, Rm, Probe, Commit, Lock, Fail, Labels
  <2>3. UNCHANGED <<warned, touched, broken>>
    BY <1>1, <1>8 DEF Add, Rm, Probe, Commit, Lock, Fail, history
  <2>4. job[w].inst \in touched
    BY <2>1 DEF Watched, Inst
  <2>5. \A i \in Instances \ {job[w].inst} : file'[i] = file[i] /\ index'[i] = index[i]
    BY <1>2, <1>8 DEF Add, Rm, Probe, Commit, Lock, repo, Inst, RepoOK
  <2>6. /\ \A q \in Procs \ {w} : job'[q] = job[q]
        /\ job'[w].inst \in {job[w].inst, None}
    BY <1>4, <2>2
  <2>7. Watched'
    BY <1>1, <2>3, <2>4, <2>6 DEF Watched, Inst
  <2> QED BY <1>1, <2>3, <2>4, <2>5, <2>6, <2>7
<1> QED BY <1>5, <1>6, <1>7, <1>8 DEF Work

\* A request leaves the package's configure where it is.
LEMMA RequestApart ==
  ASSUME IInv, NEW w \in Threads, Work(w)
  PROVE  job'[Postinst] = job[Postinst]
<1>1. w \in Procs /\ Postinst \in Procs \ {w} /\ job \in [Procs -> Job]
  BY DEF Procs, IInv, TypeOK, Job
<1>2. CASE Open(w) \/ Delete(w)
  BY <1>1, <1>2 DEF Open, Delete
<1>3. CASE Write(w) \/ Add(w) \/ Rm(w) \/ Probe(w) \/ Commit(w)
  <2>1. PICK l \in Labels : Goto(w, l)
    BY <1>3 DEF Write, Add, Rm, Probe, Commit, Lock, Fail, Labels
  <2> QED BY <1>1, <2>1, GotoJob
<1> QED BY <1>2, <1>3 DEF Work

LEMMA RecordingNext ==
  ASSUME "unlisted" \notin Hazards, IInv, Recording, [Next]_vars PROVE Recording'
<1>0. /\ Postinst \in Procs /\ Threads \subseteq Procs /\ job \in [Procs -> Job]
      /\ job[Postinst].pc \in Labels
  BY DEF Procs, IInv, TypeOK, Job
<1>1. ASSUME NEW w \in Threads, Work(w) PROVE Recording'
  <2>1. CASE At(Postinst, "idle")
    BY <1>0, <1>1, <2>1, RequestApart DEF Recording, At
  <2>2. CASE ~At(Postinst, "idle")
    BY <1>1, <2>2, RequestTouches DEF Recording, At, Staged
  <2> QED BY <2>1, <2>2
<1>2. ASSUME NEW l \in Labels, Goto(Postinst, l), UNCHANGED touched
      PROVE  job'[Postinst].pc = l /\ (Watched => Watched')
  BY <1>0, <1>2, GotoJob, PostinstApart DEF Watched, Inst
<1>3. CASE Configure
  <2>1. job'[Postinst].pc = "list" /\ \A w \in Threads : job'[w] = job[w]
    BY <1>0, <1>3, GotoJob, PostinstApart DEF Configure, Labels
  <2> QED BY <1>3, <2>1 DEF Configure, Recording, At, Watched, Inst
<1>4. CASE List
  <2>1. /\ At(Postinst, "list") /\ UNCHANGED <<repo, broken, warned, touched>>
        /\ Goto(Postinst,
                IF ~broken /\ \E i \in Instances : file[i] # None \/ index[i] # None
                THEN "add" ELSE "probe")
    <3>1. broken \in BOOLEAN /\ (broken \/ "unlisted" \in Hazards) = broken
      BY DEF IInv, TypeOK
    <3> QED BY <1>4, <3>1 DEF List, repo, history
  <2> QED BY <1>2, <2>1 DEF Recording, At, Labels, Staged, repo
<1>5. CASE AddAll
  BY <1>2, <1>5 DEF AddAll, Lock, Fail, Recording, At, Labels, Staged, repo, history
<1>6. CASE DiffAll
  BY <1>2, <1>6 DEF DiffAll, Fail, Recording, At, Labels, Staged, repo, history
<1>7. CASE CommitAll
  BY <1>2, <1>7 DEF CommitAll, Lock, Fail, Recording, At, Labels, Staged, repo, history
<1>8. CASE Damage \/ Repair
  BY <1>8 DEF Damage, Repair, Recording, At, Watched, Inst, Staged, repo, history
<1>9. CASE Crash
  <2>1. PICK dead \in {Threads, Procs} :
          /\ job' = [p \in Procs |-> IF p \in dead THEN Idle ELSE job[p]]
          /\ warned' = (warned \/ Postinst \in dead)
    BY <1>9 DEF Crash
  <2>2. Watched'
    BY <1>0, <2>1 DEF Watched, Inst, Idle
  <2>3. job'[Postinst] = job[Postinst] \/ job'[Postinst] = Idle
    BY <1>0, <2>1
  <2>4. ~warned' => ~warned
    BY <2>1
  <2> QED BY <1>9, <2>2, <2>3, <2>4 DEF Crash, Recording, At, Idle, Staged, repo
<1>10. CASE UNCHANGED vars
  BY <1>10 DEF vars, Recording, At, Watched, Inst, Staged
<1> QED BY <1>1, <1>3, <1>4, <1>5, <1>6, <1>7, <1>8, <1>9, <1>10 DEF Next, Package

\* A configure of the package that printed no WARNING (postinst: git_step) has
\* committed every definition that no request wrote to while it ran, whatever
\* the repository had before; where ls-files, whose error nobody reads, does not
\* fail alone.
THEOREM ConfigureLeavesNoGap == "unlisted" \notin Hazards => (Spec => ConfigureRecords)
<1> SUFFICES ASSUME "unlisted" \notin Hazards PROVE Spec => ConfigureRecords
  OBVIOUS
<1> DEFINE Recorded == ~At(Postinst, "idle") /\ job'[Postinst].pc = "idle" /\ ~warned' =>
                         \A i \in Instances \ touched : file'[i] = head'[i]
<1>1. Init => Recording
  BY DEF Init, Recording, At, Idle, Procs
<1>2. ASSUME IInv, Recording, Next PROVE Recorded
  <2> SUFFICES ASSUME ~At(Postinst, "idle"), job'[Postinst].pc = "idle", ~warned',
                      NEW i \in Instances \ touched
               PROVE  file'[i] = head'[i]
    OBVIOUS
  <2>0. Postinst \in Procs
    BY DEF Procs
  <2>1. CASE DiffAll
    <3>1. ~broken
      BY <2>1 DEF DiffAll, Fail
    <3>2. index = head /\ At(Postinst, "probe") /\ UNCHANGED <<repo, warned>>
      BY <1>2, <2>0, <2>1, <3>1, GotoJob DEF DiffAll, Fail, Labels, repo, history
    <3> QED BY <1>2, <3>1, <3>2 DEF Recording, Staged, repo
  <2>2. CASE CommitAll
    BY <1>2, <2>2, GotoJob, <2>0 DEF CommitAll, Lock, Fail, Recording, Staged, repo, history, At, Labels
  <2>3. CASE Configure \/ List \/ AddAll
    <3>1. PICK l \in Labels \ {"idle"} : Goto(Postinst, l)
      BY <2>3 DEF Configure, List, AddAll, Lock, Fail, Labels
    <3> QED BY <1>2, <2>0, <3>1, GotoJob
  <2>4. CASE Damage \/ Repair
    BY <2>4 DEF Damage, Repair, At
  <2>5. CASE Crash
    BY <2>0, <2>5 DEF Crash, At
  <2>6. ASSUME NEW w \in Threads, Work(w) PROVE FALSE
    BY <1>2, <2>6, RequestTouches DEF Recording, At
  <2> QED BY <1>2, <2>1, <2>2, <2>3, <2>4, <2>5, <2>6 DEF Next, Package
<1>3. IInv /\ Recording /\ [Next]_vars => [Recorded]_vars
  BY <1>2
<1>4. ConfigureRecords <=> [][Recorded]_vars
  BY PTL DEF ConfigureRecords
<1>5. IInv /\ Recording /\ [Next]_vars => Recording'
  BY RecordingNext
<1> QED BY <1>1, <1>3, <1>4, <1>5, Invariance, PTL DEF Spec
=============================================================================
