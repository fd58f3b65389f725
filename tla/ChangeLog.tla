----------------------------- MODULE ChangeLog -----------------------------
(***************************************************************************)
(* The change log of the definitions: the instances directory as a git     *)
(* repository (store.py, and the git steps of the package's postinst).     *)
(* Every put and delete writes its file and then runs git commands, in     *)
(* threads without a lock of their own; the package is configured beside   *)
(* them.  What keeps git commands apart is git's index.lock, and a command *)
(* that meets it fails at once.  git itself is external: what add, rm,     *)
(* diff and commit do is what they do when they are run.                   *)
(***************************************************************************)
EXTENDS Naturals

CONSTANTS
  Instances, Values,  \* names, and contents of definition files
  Threads,            \* threadpool workers
  Postinst,           \* the package being configured
  None, Torn,         \* no file, a file truncated by write_text
  Hazards             \* subset of {"fault", "damage", "crash", "unlisted"}

ASSUME ChangeLogAssumption ==
  /\ None \notin Values /\ Torn \notin Values /\ None # Torn
  /\ Postinst \notin Threads /\ None \notin Threads \cup {Postinst}
  /\ None \notin Instances

VARIABLES
  file,     \* the working tree: each instance's yaml file
  index,    \* git's index
  head,     \* the last commit
  lock,     \* index.lock: None, or the process whose git command made it
  broken,   \* whether git can read the repository
  job,      \* each process's place, instance and definition
  noted,    \* history: an error for this instance since it was last written,
            \* or its request was cut off
  warned,   \* history: this configure has printed a WARNING
  touched   \* history: the instances written while this configure runs

vars == <<file, index, head, lock, broken, job, noted, warned, touched>>
repo == <<file, index, head>>
history == <<noted, warned, touched>>

Procs == Threads \cup {Postinst}
Contents == Values \cup {Torn, None}
Labels == {"idle", "write", "rm", "removing", "add", "adding", "probe", "commit", "committing",
           "list"}
Idle == [pc |-> "idle", inst |-> None, value |-> None]

\* What older releases, restores and hand edits left: files, an index and a
\* commit that need not agree.
Init ==
  /\ file \in [Instances -> Values \cup {None}]
  /\ index \in [Instances -> Values \cup {None}]
  /\ head \in [Instances -> Values \cup {None}]
  /\ lock = None /\ broken = FALSE
  /\ job = [p \in Procs |-> Idle]
  /\ noted = [i \in Instances |-> TRUE]
  /\ warned = FALSE /\ touched = {}

At(p, l) == job[p].pc = l
Inst(p) == job[p].inst
Goto(p, l) == job' = [job EXCEPT ![p] = IF l = "idle" THEN Idle ELSE [@ EXCEPT !.pc = l]]
Written(i) == noted' = [noted EXCEPT ![i] = FALSE] /\ touched' = touched \cup {i}

-----------------------------------------------------------------------------
(* Store.put and Store.delete: the files.                                  *)

\* Opening the file truncates it; what is written to a file that was unlinked
\* meanwhile is gone with it.
Open(w) ==
  /\ At(w, "idle")
  /\ \E i \in Instances, v \in Values :
       /\ file' = [file EXCEPT ![i] = Torn]
       /\ job' = [job EXCEPT ![w] = [pc |-> "write", inst |-> i, value |-> v]]
       /\ Written(i)
  /\ UNCHANGED <<index, head, lock, broken, warned>>

Write(w) ==
  /\ At(w, "write")
  /\ file' = [file EXCEPT ![Inst(w)] = IF @ = None THEN None ELSE job[w].value]
  /\ Goto(w, "add")
  /\ Written(Inst(w))
  /\ UNCHANGED <<index, head, lock, broken, warned>>

Delete(w) ==
  /\ At(w, "idle")
  /\ \E i \in Instances :
       /\ file[i] # None
       /\ file' = [file EXCEPT ![i] = None]
       /\ job' = [job EXCEPT ![w] = [pc |-> "rm", inst |-> i, value |-> None]]
       /\ Written(i)
  /\ UNCHANGED <<index, head, lock, broken, warned>>

-----------------------------------------------------------------------------
(* git commands.  One that changes the index or a commit makes index.lock  *)
(* first and fails if it is there.                                         *)

\* Mutant: a failed command is not logged.
FailSilently(p, l) == Goto(p, l) /\ UNCHANGED history

\* _git logs an error and the request goes on without the change log;
\* git_step prints a WARNING and the configure goes on with its next step.
Fail(p, l) ==
  /\ Goto(p, l)
  /\ IF p = Postinst
     THEN warned' = TRUE /\ UNCHANGED <<noted, touched>>
     ELSE noted' = [noted EXCEPT ![Inst(p)] = TRUE] /\ UNCHANGED <<warned, touched>>

\* A command at label l: it gets the lock and works at l2, or it fails.
Lock(p, l, l2, failed) ==
  /\ At(p, l)
  /\ \/ lock = None /\ lock' = p /\ Goto(p, l2) /\ UNCHANGED history
     \/ /\ lock # None \/ broken \/ "fault" \in Hazards
        /\ Fail(p, failed) /\ UNCHANGED lock
  /\ UNCHANGED <<repo, broken>>

\* git add -- file: of a file that neither exists nor is tracked, an error.
Add(w) ==
  \/ Lock(w, "add", "adding", "idle")
  \/ /\ At(w, "adding") /\ UNCHANGED broken /\ lock' = None
     /\ \/ /\ file[Inst(w)] # None \/ index[Inst(w)] # None
           /\ index' = [index EXCEPT ![Inst(w)] = file[Inst(w)]]
           /\ Goto(w, "probe") /\ UNCHANGED <<file, head, history>>
        \/ /\ file[Inst(w)] = None /\ index[Inst(w)] = None
           /\ Fail(w, "idle") /\ UNCHANGED repo

\* git rm --ignore-unmatch -- file: refused if a file is there again that
\* differs from the index, or one whose entry is not committed; otherwise the
\* entry goes, and with it the file that is there again.
Rm(w) ==
  LET i == Inst(w)
      again == index[i] # None /\ file[i] # None
      refused == again /\ (file[i] # index[i] \/ index[i] # head[i]) IN
  \/ Lock(w, "rm", "removing", "idle")
  \/ /\ At(w, "removing") /\ UNCHANGED broken /\ lock' = None
     /\ \/ /\ ~refused
           /\ index' = [index EXCEPT ![i] = None]
           /\ file' = IF again THEN [file EXCEPT ![i] = None] ELSE file
           /\ Goto(w, "probe") /\ UNCHANGED <<head, history>>
        \/ refused /\ Fail(w, "idle") /\ UNCHANGED repo

\* git diff --cached --quiet -- file: nothing staged, nothing to commit.  An
\* error of git counts as something staged.
Probe(w) ==
  /\ At(w, "probe")
  /\ Goto(w, IF ~broken /\ index[Inst(w)] = head[Inst(w)] THEN "idle" ELSE "commit")
  /\ UNCHANGED <<repo, lock, broken, history>>

\* Mutant: a commit without a pathspec takes all that is staged.
CommitIndex(w) ==
  \/ Lock(w, "commit", "committing", "idle")
  \/ /\ At(w, "committing") /\ UNCHANGED broken /\ lock' = None /\ head' = index /\ Goto(w, "idle")
     /\ UNCHANGED <<file, index, history>>

\* git commit -- file: the content of the working tree, and of this file only;
\* an error if git knows no such file or it is as committed.
Commit(w) ==
  LET i == Inst(w)
      refused == (index[i] = None /\ head[i] = None) \/ file[i] = head[i] IN
  \/ Lock(w, "commit", "committing", "idle")
  \/ /\ At(w, "committing") /\ UNCHANGED broken /\ lock' = None
     /\ \/ /\ ~refused
           /\ head' = [head EXCEPT ![i] = file[i]]
           /\ index' = [index EXCEPT ![i] = file[i]]
           /\ Goto(w, "idle") /\ UNCHANGED <<file, history>>
        \/ refused /\ Fail(w, "idle") /\ UNCHANGED repo

Work(w) == Open(w) \/ Write(w) \/ Delete(w) \/ Add(w) \/ Rm(w) \/ Probe(w) \/ Commit(w)

-----------------------------------------------------------------------------
(* The git steps of postinst.                                              *)

Configure ==
  /\ At(Postinst, "idle")
  /\ Goto(Postinst, "list")
  /\ warned' = FALSE
  /\ touched' = {Inst(w) : w \in Threads} \ {None}
  /\ UNCHANGED <<repo, lock, broken, noted>>

\* Mutant: only the files that exist are looked for.
ListFiles ==
  /\ At(Postinst, "list")
  /\ Goto(Postinst, IF ~broken /\ \E i \in Instances : file[i] # None THEN "add" ELSE "probe")
  /\ UNCHANGED <<repo, lock, broken, history>>

\* ls-files: a definition that exists or is tracked.  An error, of a repository
\* git cannot read or (hazard "unlisted") of this command alone, lists none.
List ==
  /\ At(Postinst, "list")
  /\ \E failed \in {broken, broken \/ "unlisted" \in Hazards} :
       Goto(Postinst,
            IF ~failed /\ \E i \in Instances : file[i] # None \/ index[i] # None
            THEN "add" ELSE "probe")
  /\ UNCHANGED <<repo, lock, broken, history>>

AddAll ==
  \/ Lock(Postinst, "add", "adding", "probe")
  \/ /\ At(Postinst, "adding") /\ UNCHANGED broken /\ lock' = None
     /\ index' = file
     /\ Goto(Postinst, "probe") /\ UNCHANGED <<file, head, history>>

DiffAll ==
  /\ At(Postinst, "probe")
  /\ \/ ~broken /\ Goto(Postinst, IF index = head THEN "idle" ELSE "commit")
        /\ UNCHANGED history
     \/ broken /\ Fail(Postinst, "idle")
  /\ UNCHANGED <<repo, lock, broken>>

CommitAll ==
  \/ Lock(Postinst, "commit", "committing", "idle")
  \/ /\ At(Postinst, "committing") /\ UNCHANGED broken /\ lock' = None
     /\ \/ index # head /\ head' = index /\ Goto(Postinst, "idle")
           /\ UNCHANGED <<file, index, history>>
        \/ index = head /\ Fail(Postinst, "idle") /\ UNCHANGED repo

Package == Configure \/ List \/ AddAll \/ DiffAll \/ CommitAll

-----------------------------------------------------------------------------
(* Around them.                                                            *)

\* The repository gets damaged; an admin repairs it, or removes a lock no
\* process holds, before the package is configured again.
Stale == lock # None /\ job[lock].pc \notin {"adding", "removing", "committing"}
Damage == "damage" \in Hazards /\ broken' = TRUE /\ UNCHANGED <<repo, lock, job, history>>
Repair ==
  /\ At(Postinst, "idle")
  /\ broken \/ Stale
  /\ broken' = FALSE
  /\ lock' = IF Stale THEN None ELSE lock
  /\ UNCHANGED <<repo, job, history>>

\* The daemon dies, or the host, with whatever git command it is running; the
\* lock of a killed git stays, or git had still removed it.
Crash ==
  /\ "crash" \in Hazards
  /\ \E dead \in {Threads, Procs} :
       /\ job' = [p \in Procs |-> IF p \in dead THEN Idle ELSE job[p]]
       /\ lock' \in IF lock \in dead THEN {lock, None} ELSE {lock}
       /\ warned' = (warned \/ Postinst \in dead)  \* dpkg reports it
  /\ noted' = [i \in Instances |-> noted[i] \/ \E w \in Threads : Inst(w) = i]
  /\ UNCHANGED <<repo, broken, touched>>

Next == (\E w \in Threads : Work(w)) \/ Package \/ Damage \/ Repair \/ Crash

Spec == Init /\ [][Next]_vars

-----------------------------------------------------------------------------
(* Properties.                                                             *)

TypeOK ==
  /\ file \in [Instances -> Contents] /\ index \in [Instances -> Contents]
  /\ head \in [Instances -> Contents]
  /\ lock \in Procs \cup {None} /\ broken \in BOOLEAN
  /\ job \in [Procs -> [pc : Labels, inst : Instances \cup {None}, value : Values \cup {None}]]
  /\ noted \in [Instances -> BOOLEAN] /\ warned \in BOOLEAN /\ touched \subseteq Instances

AtRest(i) == \A w \in Threads : Inst(w) # i

\* "silently missing commits are exactly the bug this store had" (store.py:28):
\* a definition that differs from the last commit, with no request on it under
\* way, has an error in the journal since it was written, or its request was
\* killed.
RecordedOrNoted == \A i \in Instances : AtRest(i) => file[i] = head[i] \/ noted[i]

\* "commit <file>": a request's commit takes no other definition along, staged
\* or half written as that may be.
CommitsOwnFile ==
  [][\A i \in Instances : head'[i] # head[i] =>
       \/ At(Postinst, "committing")
       \/ \E w \in Threads : At(w, "committing") /\ Inst(w) = i]_vars

\* "never silently" (postinst): a configure that printed no WARNING has recorded
\* every definition that was not written to meanwhile.
ConfigureRecords ==
  [][~At(Postinst, "idle") /\ job'[Postinst].pc = "idle" /\ ~warned' =>
       \A i \in Instances \ touched : file'[i] = head'[i]]_vars

\* "Persist instances as <name>.yaml files" (store.py:24): the file of a put goes
\* with a delete that finds it, never with an earlier one.
PutStays ==
  [][\A i \in Instances : file[i] \in Values /\ file'[i] = None =>
       \E w \in Threads : At(w, "idle") /\ job'[w].pc = "rm"]_vars
=============================================================================
