------------------------- MODULE ControlPlaneProofs -------------------------
(***************************************************************************)
(* The invariants of ControlPlane, for any number of threads, instances,   *)
(* images and ids.                                                         *)
(*                                                                         *)
(* First what holds whatever runs beside what, with every hazard: the      *)
(* types, and that a container under the .new name was never started.      *)
(* Neither is inductive.  A task's fields are typed by what its label      *)
(* needs (WellFormed), and a container an ensure_running or lifecycle call *)
(* may start is one that was once looked up as, or renamed to, the main    *)
(* name: no name ever goes back to .new, and a new container never takes   *)
(* an id some task still holds (RefsNotSpare).                             *)
(*                                                                         *)
(* Then what holds while no two requests of the threadpool are after one   *)
(* instance (Apart), with start, stop and restart of any instance on the   *)
(* event loop beside them, and with every hazard unless a theorem names    *)
(* the ones it excludes.                                                   *)
(* Serial says, label by label, which containers carry the names of the    *)
(* instance a task works on (Shape), what the store holds for it (Stored), *)
(* and that its lists exist (Listed).  That is what the code relies on     *)
(* between two calls of the Engine, and what only a second request on the  *)
(* same instance can take away.  What a reconcile restores is stated with  *)
(* no other request beside it (OneRequest): an edit may change an instance *)
(* it has behind it.                                                       *)
(***************************************************************************)
EXTENDS ControlPlaneRefinement, TLAPS

EnsureLabels ==
  {"note", "put", "putWrite", "look", "fast", "fastStart", "findNew", "dropNew",
   "findOld", "dropOld", "create", "stop", "park", "spill", "promote", "start",
   "wait", "retire", "discard", "unpark", "revive"}

\* The labels a task may be moved to without a further condition.
PlainLabels == Labels \ {"start", "idle", "next", "note", "verify"}

WellFormed(t) ==
  /\ t.pc \notin {"idle", "next"} => t.inst \in Instances
  /\ t.pc \in EnsureLabels => t.def \in Def
  /\ t.pc \in {"note", "verify"} => t.base \in Def
  /\ t.op \in {"update", "updateAll"} /\ t.pc \notin {"idle", "next"} => t.base \in Def
  /\ t.op = "updateAll" => t.goal \in Images
  /\ t.pc = "next" => t.op \in {"reconcile", "updateAll"}

NotSpare(x) == x \in DOMAIN cont => cont[x].slot # "new"
RefsNotSpare ==
  \A w \in Workers :
    /\ NotSpare(task[w].old)
    /\ At(w, "start") => NotSpare(task[w].new)

Inv ==
  /\ TypeOK
  /\ SpareNeverServes
  /\ \A w \in Workers : WellFormed(task[w])
  /\ RefsNotSpare

-----------------------------------------------------------------------------
(* What almost every step does: w's task stays well formed and forgets or  *)
(* keeps `old`; no container appears or becomes a spare, no spare starts.  *)

QuietTask(w) ==
  /\ task' \in [Workers -> Task]
  /\ \A v \in Workers \ {w} : task'[v] = task[v]
  /\ WellFormed(task'[w])
  /\ task'[w].pc # "start"
  /\ task'[w].old \in {task[w].old, None}

QuietContainers ==
  /\ DOMAIN cont' \subseteq DOMAIN cont
  /\ \A x \in DOMAIN cont' :
       /\ cont'[x] \in Container
       /\ cont'[x].slot = "new" => cont[x].slot = "new" /\ cont'[x].state = "created"

RestTyped ==
  /\ vols' \in [Instances -> SUBSET Volumes]
  /\ StoreTypeOK'
  /\ lists' \in [Instances -> {"absent", "empty", "filled"}]

LEMMA QuietStep ==
  ASSUME NEW w \in Workers, Inv, QuietTask(w), QuietContainers, RestTyped
  PROVE  Inv'
<1>1. TypeOK'
  BY DEF Inv, QuietTask, QuietContainers, RestTyped, TypeOK, EngineTypeOK, DockerTypeOK
<1>2. SpareNeverServes'
  BY DEF QuietContainers, SpareNeverServes
<1>3. \A v \in Workers : WellFormed(task[v])'
  BY DEF Inv, QuietTask, WellFormed
<1>4. ASSUME NEW v \in Workers PROVE NotSpare(task[v].old)'
  <2>1. task'[v].old \in {task[v].old, None}
    BY DEF QuietTask
  <2>2. None \notin DOMAIN cont'
    BY NoneAssumption DEF Inv, TypeOK, EngineTypeOK, QuietContainers
  <2>3. NotSpare(task[v].old)
    BY DEF Inv, RefsNotSpare
  <2> QED BY <2>1, <2>2, <2>3 DEF NotSpare, QuietContainers
<1>5. ASSUME NEW v \in Workers, At(v, "start")' PROVE NotSpare(task[v].new)'
  <2>1. v # w /\ task'[v] = task[v]
    BY <1>5 DEF QuietTask, At
  <2>2. NotSpare(task[v].new)
    BY <1>5, <2>1 DEF Inv, RefsNotSpare, At
  <2> QED BY <2>1, <2>2 DEF NotSpare, QuietContainers
<1> QED BY <1>1, <1>2, <1>3, <1>4, <1>5 DEF Inv, RefsNotSpare

-----------------------------------------------------------------------------
(* The calls of the Engine are quiet when what they start is no spare.     *)

LEMMA UnchangedQuiet ==
  ASSUME Inv, UNCHANGED cont PROVE QuietContainers
BY DEF Inv, TypeOK, EngineTypeOK, SpareNeverServes, QuietContainers

LEMMA RemoveQuiet ==
  ASSUME Inv, NEW x, RemoveContainer(x) PROVE QuietContainers
BY DEF Inv, TypeOK, EngineTypeOK, SpareNeverServes, QuietContainers, RemoveContainer

LEMMA StartQuiet ==
  ASSUME Inv, NEW x, Exists(x), NotSpare(x), StartContainer(x) PROVE QuietContainers
<1>1. \A y \in DOMAIN cont : cont[y] \in Container
  BY DEF Inv, TypeOK, EngineTypeOK
<1>2. Started(cont[x]) \in Container /\ Started(cont[x]).slot = cont[x].slot
  BY <1>1 DEF Exists, Started, Container
<1> QED BY <1>1, <1>2 DEF Inv, SpareNeverServes, QuietContainers, StartContainer, NotSpare, Exists

LEMMA RestartQuiet ==
  ASSUME Inv, NEW x, Exists(x), NotSpare(x), cont' = [cont EXCEPT ![x] = Started(@)]
  PROVE  QuietContainers
<1>1. \A y \in DOMAIN cont : cont[y] \in Container
  BY DEF Inv, TypeOK, EngineTypeOK
<1>2. Started(cont[x]) \in Container /\ Started(cont[x]).slot = cont[x].slot
  BY <1>1 DEF Exists, Started, Container
<1> QED BY <1>1, <1>2 DEF Inv, SpareNeverServes, QuietContainers, NotSpare, Exists

LEMMA StopQuiet ==
  ASSUME Inv, NEW x, Exists(x), StopContainer(x) PROVE QuietContainers
<1> DEFINE c == cont[x]
           h == [Halted(c) EXCEPT !.manual = TRUE]
<1>1. \A y \in DOMAIN cont : cont[y] \in Container
  BY DEF Inv, TypeOK, EngineTypeOK
<1>2. h \in Container /\ h.slot = c.slot
  BY <1>1 DEF Exists, Halted, Container
<1>3. c.slot = "new" => c.state = "created"
  BY DEF Inv, SpareNeverServes, Exists
<1>4. cont' = [cont EXCEPT ![x] = IF c.state = "created" THEN c ELSE h]
  BY DEF StopContainer, Exists
<1> HIDE DEF h
<1> QED BY <1>1, <1>2, <1>3, <1>4 DEF Inv, SpareNeverServes, QuietContainers, Exists

LEMMA RenameQuiet ==
  ASSUME Inv, NEW x, NEW s \in {"main", "old"}, RenameTo(x, s) PROVE QuietContainers
BY DEF Inv, TypeOK, EngineTypeOK, SpareNeverServes, QuietContainers, RenameTo, Container

-----------------------------------------------------------------------------
(* The steps of a worker.                                                  *)

LEMMA GotoQuiet ==
  ASSUME Inv, NEW w \in Workers, NEW l \in PlainLabels,
         Goto(w, l), task[w].pc \notin {"idle", "next"},
         l \in EnsureLabels => task[w].def \in Def
  PROVE  QuietTask(w)
<1>1. task[w] \in Task /\ task \in [Workers -> Task]
  BY DEF Inv, TypeOK, DockerTypeOK
<1>a. l \in Labels /\ l \notin {"start", "idle", "next", "note", "verify"}
  BY DEF PlainLabels
<1>2. [task[w] EXCEPT !.pc = l] \in Task
  BY <1>1, <1>a DEF Task
<1>3. WellFormed([task[w] EXCEPT !.pc = l])
  BY <1>1, <1>a DEF Inv, WellFormed, Task
<1>4. task' = [task EXCEPT ![w] = [task[w] EXCEPT !.pc = l]]
  BY DEF Goto
<1>5. [task[w] EXCEPT !.pc = l].old = task[w].old /\ [task[w] EXCEPT !.pc = l].pc = l
  BY <1>1 DEF Task
<1> QED BY <1>1, <1>a, <1>2, <1>3, <1>4, <1>5 DEF QuietTask

LEMMA IdleQuiet ==
  ASSUME Inv, NEW w \in Workers, task' = [task EXCEPT ![w] = Idle]
  PROVE  QuietTask(w)
BY DEF Inv, TypeOK, DockerTypeOK, QuietTask, Idle, Task, WellFormed, Labels, EnsureLabels

\* Tasks made from Idle: the fields set one by one.
LEMMA IdleTask == Idle \in Task
BY DEF Idle, Task, Labels

LEMMA SetFields ==
  ASSUME NEW r \in Task
  PROVE  /\ \A op \in SyncOps \cup LoopOps \cup {"none"} : [r EXCEPT !.op = op] \in Task
         /\ \A pc \in Labels : [r EXCEPT !.pc = pc] \in Task
         /\ \A keep \in BOOLEAN : [r EXCEPT !.keep = keep] \in Task
         /\ \A i \in Instances : [r EXCEPT !.inst = i] \in Task
         /\ \A d \in Def : [r EXCEPT !.def = d] \in Task
         /\ \A d \in Def : [r EXCEPT !.base = d] \in Task
         /\ \A g \in Images \cup {None} : [r EXCEPT !.goal = g] \in Task
         /\ \A td \in [Instances -> Def \cup {None}] : [r EXCEPT !.todo = td] \in Task
         /\ \A f \in SUBSET Instances : [r EXCEPT !.failed = f] \in Task
BY DEF Task

LEMMA FinishQuiet ==
  ASSUME Inv, NEW w \in Workers, NEW error \in BOOLEAN, Finish(w, error),
         task[w].pc \notin {"idle", "next"}
  PROVE  QuietTask(w)
<1> DEFINE t == task[w]
           f == IF error \/ t.undo THEN t.failed \cup {t.inst} ELSE t.failed
           n == [Idle EXCEPT !.op = t.op, !.goal = t.goal, !.todo = t.todo, !.pc = "next",
                             !.failed = f]
<1>1. t \in Task /\ task \in [Workers -> Task] /\ WellFormed(t)
  BY DEF Inv, TypeOK, DockerTypeOK
<1>2. /\ t.op \in SyncOps \cup LoopOps \cup {"none"} /\ t.goal \in Images \cup {None}
      /\ t.todo \in [Instances -> Def \cup {None}] /\ "next" \in Labels
      /\ f \in SUBSET Instances
  BY <1>1 DEF Task, Labels, WellFormed
<1>3. n.op = t.op /\ n.goal = t.goal /\ n.pc = "next" /\ n.old = None
  BY DEF Idle
<1> HIDE DEF f
<1>4. n \in Task
  <2>1. [Idle EXCEPT !.op = t.op] \in Task
    BY <1>2, IdleTask, SetFields
  <2>2. [Idle EXCEPT !.op = t.op, !.goal = t.goal] \in Task
    BY <1>2, <2>1, SetFields
  <2>3. [Idle EXCEPT !.op = t.op, !.goal = t.goal, !.todo = t.todo] \in Task
    BY <1>2, <2>2, SetFields
  <2>4. [Idle EXCEPT !.op = t.op, !.goal = t.goal, !.todo = t.todo, !.pc = "next"] \in Task
    BY <1>2, <2>3, SetFields
  <2> QED BY <1>2, <2>4, SetFields
<1>5. CASE t.op \in {"reconcile", "updateAll"}
  <2>1. task' = [task EXCEPT ![w] = n]
    BY <1>5 DEF Finish, f
  <2> HIDE DEF n
  <2>2. WellFormed(n)
    BY <1>1, <1>3, <1>5 DEF WellFormed, EnsureLabels
  <2> QED BY <1>1, <1>3, <1>4, <2>1, <2>2 DEF QuietTask
<1>6. CASE t.op \notin {"reconcile", "updateAll"}
  BY <1>6, IdleQuiet DEF Finish
<1> QED BY <1>5, <1>6

LEMMA HandlerQuiet ==
  ASSUME Inv, NEW w \in Workers, task[w].pc \notin {"idle", "next"},
         Goto(w, Handler(task[w].pc))
  PROVE  QuietTask(w)
<1>1. Handler(task[w].pc) \in PlainLabels
  BY DEF Handler, PlainLabels, Labels, CallLabels, TryLabels
<1>2. Handler(task[w].pc) \in EnsureLabels => task[w].pc \in EnsureLabels
  BY DEF Handler, EnsureLabels
<1>3. task[w].pc \in EnsureLabels => task[w].def \in Def
  BY DEF Inv, WellFormed
<1> QED BY <1>1, <1>2, <1>3, GotoQuiet

LEMMA RestUnchanged ==
  ASSUME Inv, UNCHANGED <<vols, lists, storeVars>> PROVE RestTyped
BY DEF Inv, TypeOK, EngineTypeOK, DockerTypeOK, StoreTypeOK, storeVars, RestTyped

LEMMA FailedCall ==
  ASSUME Inv, NEW w \in Workers, task[w].pc \notin {"idle", "next"},
         Goto(w, Handler(task[w].pc)), UNCHANGED <<cont, vols, lists, storeVars>>
  PROVE  Inv'
BY HandlerQuiet, UnchangedQuiet, RestUnchanged, QuietStep

LEMMA QuietGoto ==
  ASSUME Inv, NEW w \in Workers, NEW l \in PlainLabels,
         Goto(w, l), task[w].pc \notin {"idle", "next"},
         l \in EnsureLabels => task[w].pc \in EnsureLabels,
         QuietContainers, RestTyped
  PROVE  Inv'
<1>1. l \in EnsureLabels => task[w].def \in Def
  BY DEF Inv, WellFormed
<1> QED BY <1>1, GotoQuiet, QuietStep

LEMMA RemoveInv ==
  ASSUME Inv, NEW w \in Workers, NEW x, NEW l \in Labels \ {"idle", "next"},
         NEW l2 \in PlainLabels,
         l2 \in EnsureLabels => l \in EnsureLabels,
         Remove(w, l, x, l2), UNCHANGED storeVars
  PROVE  Inv'
<1>1. task[w].pc = l /\ UNCHANGED <<vols, lists, storeVars>>
  BY DEF Remove, At
<1>2. CASE Exists(x)
  <2>1. RemoveContainer(x) /\ Goto(w, l2)
    BY <1>2 DEF Remove, Call
  <2> QED BY <1>1, <2>1, RemoveQuiet, RestUnchanged, QuietGoto
<1>3. CASE ~Exists(x)
  <2>1. Goto(w, Handler(task[w].pc)) /\ UNCHANGED cont
    BY <1>3 DEF Remove, Call
  <2> QED BY <1>1, <2>1, FailedCall
<1> QED BY <1>2, <1>3

LEMMA RenameInv ==
  ASSUME Inv, NEW w \in Workers, NEW x, NEW s \in {"main", "old"},
         NEW l \in EnsureLabels, NEW l2 \in PlainLabels,
         Rename(w, l, x, s, l2), UNCHANGED storeVars
  PROVE  Inv'
<1>1. task[w].pc = l /\ UNCHANGED <<vols, lists, storeVars>> /\ l \notin {"idle", "next"}
  BY DEF Rename, At, EnsureLabels
<1>2. CASE CanRename(x, s)
  <2>1. RenameTo(x, s) /\ Goto(w, l2)
    BY <1>2 DEF Rename, Call
  <2> QED BY <1>1, <2>1, RenameQuiet, RestUnchanged, QuietGoto
<1>3. CASE ~CanRename(x, s)
  <2>1. Goto(w, Handler(task[w].pc)) /\ UNCHANGED cont
    BY <1>3 DEF Rename, Call
  <2> QED BY <1>1, <2>1, FailedCall
<1> QED BY <1>2, <1>3

LEMMA StartInv ==
  ASSUME Inv, NEW w \in Workers, NEW x, NotSpare(x), task[w].pc \notin {"idle", "next"},
         NEW l2 \in {"returned", "wait", "raised"},
         l2 = "wait" => task[w].pc \in EnsureLabels,
         Call(w, CanStart(x), StartContainer(x), l2),
         UNCHANGED <<vols, lists, storeVars>>
  PROVE  Inv'
<1>1. CASE CanStart(x)
  <2>1. StartContainer(x) /\ Goto(w, l2) /\ Exists(x)
    BY <1>1 DEF Call, CanStart
  <2>2. l2 \in PlainLabels
        /\ (l2 \in EnsureLabels => task[w].pc \in EnsureLabels)
    BY DEF PlainLabels, Labels, CallLabels, TryLabels, EnsureLabels
  <2> QED BY <2>1, <2>2, StartQuiet, RestUnchanged, QuietGoto
<1>2. CASE ~CanStart(x)
  <2>1. Goto(w, Handler(task[w].pc)) /\ UNCHANGED cont
    BY <1>2 DEF Call
  <2> QED BY <2>1, FailedCall
<1> QED BY <1>1, <1>2

LEMMA StopInv ==
  ASSUME Inv, NEW w \in Workers, NEW x, task[w].pc \notin {"idle", "next"},
         NEW l2 \in {"returned", "park"}, l2 = "park" => task[w].pc \in EnsureLabels,
         Call(w, Exists(x), StopContainer(x), l2),
         UNCHANGED <<vols, lists, storeVars>>
  PROVE  Inv'
<1>1. CASE Exists(x)
  <2>1. StopContainer(x) /\ Goto(w, l2)
    BY <1>1 DEF Call
  <2>2. l2 \in PlainLabels
        /\ (l2 \in EnsureLabels => task[w].pc \in EnsureLabels)
    BY DEF PlainLabels, Labels, CallLabels, TryLabels, EnsureLabels
  <2> QED BY <1>1, <2>1, <2>2, StopQuiet, RestUnchanged, QuietGoto
<1>2. CASE ~Exists(x)
  <2>1. Goto(w, Handler(task[w].pc)) /\ UNCHANGED cont
    BY <1>2 DEF Call
  <2> QED BY <2>1, FailedCall
<1> QED BY <1>1, <1>2

(* Steps that give w a new record and leave the containers alone.          *)

LEMMA RetaskInv ==
  ASSUME Inv, NEW w \in Workers, NEW t \in Task, WellFormed(t), t.pc # "start",
         NotSpare(t.old), task' = [task EXCEPT ![w] = t], UNCHANGED cont, RestTyped
  PROVE  Inv'
<1>1. TypeOK'
  BY DEF Inv, RestTyped, TypeOK, EngineTypeOK, DockerTypeOK
<1>2. SpareNeverServes'
  BY DEF Inv, SpareNeverServes
<1>3. \A v \in Workers : WellFormed(task[v])'
  BY DEF Inv, TypeOK, DockerTypeOK, WellFormed
<1>4. RefsNotSpare'
  BY DEF Inv, TypeOK, DockerTypeOK, RefsNotSpare, NotSpare, At
<1> QED BY <1>1, <1>2, <1>3, <1>4 DEF Inv

LEMMA LookupMain ==
  ASSUME Inv, NEW i, NEW x \in Lookup(i, "main")
  PROVE  x \in Ids \cup {None} /\ NotSpare(x)
BY NoneAssumption DEF Inv, TypeOK, EngineTypeOK, Lookup, Named, NotSpare

LEMMA LookInv ==
  ASSUME Inv, NEW w \in Workers, Look(w), UNCHANGED storeVars PROVE Inv'
<1>1. PICK x \in Lookup(Inst(w), "main") :
        task' = [task EXCEPT ![w].old = x, ![w].new = None,
                   ![w].pc = IF x # None /\ cont[x].def = task[w].def
                             THEN "fast" ELSE "findNew"]
  BY DEF Look
<1> DEFINE l == IF x # None /\ cont[x].def = task[w].def THEN "fast" ELSE "findNew"
           t == [task[w] EXCEPT !.old = x, !.new = None, !.pc = l]
<1>2. x \in Ids \cup {None} /\ NotSpare(x)
  BY LookupMain
<1>3. task[w] \in Task /\ task \in [Workers -> Task] /\ WellFormed(task[w]) /\ task[w].pc = "look"
  BY DEF Inv, TypeOK, DockerTypeOK, Look, At
<1>4. l \in Labels /\ l \in EnsureLabels /\ l \notin {"start", "note", "idle", "next"}
  BY DEF PlainLabels, Labels, CallLabels, EnsureLabels
<1>5. task' = [task EXCEPT ![w] = t]
  BY <1>1, <1>3
<1> HIDE DEF l
<1>6. t \in Task /\ t.old = x /\ t.pc = l
  BY <1>2, <1>3, <1>4 DEF Task
<1>7. WellFormed(t)
  BY <1>3, <1>4 DEF WellFormed, EnsureLabels, Task
<1>8. RestTyped /\ UNCHANGED cont
  BY DEF Inv, Look, TypeOK, EngineTypeOK, DockerTypeOK, StoreTypeOK, storeVars, RestTyped
<1> QED BY <1>2, <1>4, <1>5, <1>6, <1>7, <1>8, RetaskInv

LEMMA FindMainInv ==
  ASSUME Inv, NEW w \in Workers, NEW l \in Labels \ EnsureLabels, l \notin {"idle", "next"},
         NEW some \in PlainLabels \ EnsureLabels, NEW none \in PlainLabels \ EnsureLabels,
         FindMain(w, l, some, none), UNCHANGED storeVars
  PROVE  Inv'
<1>1. PICK x \in Lookup(Inst(w), "main") :
        task' = [task EXCEPT ![w].old = x, ![w].pc = IF x = None THEN none ELSE some]
  BY DEF FindMain
<1> DEFINE k == IF x = None THEN none ELSE some
           t == [task[w] EXCEPT !.old = x, !.pc = k]
<1>2. x \in Ids \cup {None} /\ NotSpare(x)
  BY LookupMain
<1>3. task[w] \in Task /\ task \in [Workers -> Task] /\ WellFormed(task[w]) /\ task[w].pc = l
  BY DEF Inv, TypeOK, DockerTypeOK, FindMain, At
<1>4. k \in Labels \ EnsureLabels /\ k \notin {"idle", "next", "note", "verify"}
  BY DEF PlainLabels
<1>5. task' = [task EXCEPT ![w] = t]
  BY <1>1, <1>3
<1> HIDE DEF k
<1>6. t \in Task /\ t.old = x /\ t.pc = k
  BY <1>2, <1>3, <1>4 DEF Task
<1>7. WellFormed(t) /\ k # "start"
  BY <1>3, <1>4 DEF WellFormed, EnsureLabels, Task
<1>8. RestTyped /\ UNCHANGED cont
  BY RestUnchanged DEF FindMain
<1> QED BY <1>2, <1>5, <1>6, <1>7, <1>8, RetaskInv

LEMMA FindStaleInv ==
  ASSUME Inv, NEW w \in Workers, NEW s, NEW l \in {"findNew", "findOld"},
         NEW drop \in {"dropNew", "dropOld"}, NEW l2 \in {"findOld", "create"},
         FindStale(w, l, s, drop, l2), UNCHANGED storeVars
  PROVE  Inv'
<1>1. PICK x \in Lookup(Inst(w), s) :
        task' = [task EXCEPT ![w].new = x, ![w].pc = IF x = None THEN l2 ELSE drop]
  BY DEF FindStale
<1> DEFINE k == IF x = None THEN l2 ELSE drop
           t == [task[w] EXCEPT !.new = x, !.pc = k]
<1>2. x \in Ids \cup {None}
  BY DEF Inv, TypeOK, EngineTypeOK, Lookup, Named
<1>3. task[w] \in Task /\ task \in [Workers -> Task] /\ WellFormed(task[w]) /\ task[w].pc = l
  BY DEF Inv, TypeOK, DockerTypeOK, FindStale, At
<1>4. k \in Labels /\ k \in EnsureLabels /\ k \notin {"start", "note", "idle", "next"}
  BY DEF PlainLabels, Labels, CallLabels, EnsureLabels
<1>5. task' = [task EXCEPT ![w] = t]
  BY <1>1, <1>3
<1> HIDE DEF k
<1>6. t \in Task /\ t.old = task[w].old /\ t.pc = k
  BY <1>2, <1>3, <1>4 DEF Task
<1>7. WellFormed(t)
  BY <1>3, <1>4 DEF WellFormed, EnsureLabels, Task
<1>8. RestTyped /\ UNCHANGED cont
  BY RestUnchanged DEF FindStale
<1>9. NotSpare(t.old)
  BY <1>6 DEF Inv, RefsNotSpare
<1> QED BY <1>4, <1>5, <1>6, <1>7, <1>8, <1>9, RetaskInv

-----------------------------------------------------------------------------
(* The three steps of ensure_running that are not quiet, and its gate.     *)

\* A fresh id is held by no task, so the new spare is no task's `old`, and
\* no task that is about to start a container starts this one.
LEMMA CreateInv ==
  ASSUME Inv, NEW w \in Workers, Create(w), UNCHANGED storeVars PROVE Inv'
<1>1. task[w] \in Task /\ task \in [Workers -> Task] /\ WellFormed(task[w])
      /\ task[w].pc = "create" /\ task[w].inst \in Instances /\ task[w].def \in Def
  BY DEF Inv, TypeOK, DockerTypeOK, Create, At, WellFormed, EnsureLabels
<1>2. ASSUME NEW x \in Pick(FreshIds), CreateOn(x, Inst(w), task[w].def), UNCHANGED lists,
             task' = [task EXCEPT ![w].new = x,
                        ![w].pc = IF task[w].old = None THEN "promote" ELSE "stop"]
      PROVE  Inv'
  <2> DEFINE l == IF task[w].old = None THEN "promote" ELSE "stop"
             t == [task[w] EXCEPT !.new = x, !.pc = l]
             c == New(Inst(w), task[w].def)
  <2>1. x \in Ids /\ x \notin DOMAIN cont /\ \A v \in Workers : x # task[v].old /\ x # task[v].new
    <3>1. FreshIds \in SUBSET Ids
      BY DEF FreshIds
    <3>2. x \in FreshIds
      BY <1>2, <3>1, PickAssumption
    <3> QED BY <3>2 DEF FreshIds
  <2>2. c \in Container /\ c.slot = "new" /\ c.state = "created"
    BY <1>1 DEF New, Container, Inst
  <2> HIDE DEF c
  <2>3. /\ DOMAIN cont' = DOMAIN cont \cup {x} /\ cont'[x] = c
        /\ \A y \in DOMAIN cont : cont'[y] = cont[y]
    BY <1>2, <2>1 DEF CreateOn, c
  <2>4. task' = [task EXCEPT ![w] = t]
    BY <1>1, <1>2
  <2>a. l \in Labels /\ l \notin {"start", "note", "verify", "idle", "next"}
    BY DEF PlainLabels, Labels, CallLabels, TryLabels
  <2> HIDE DEF l
  <2>5. t \in Task /\ t.old = task[w].old /\ t.pc = l
    BY <1>1, <2>1, <2>a DEF Task
  <2>6. WellFormed(t) /\ t.pc # "start"
    BY <1>1, <2>5, <2>a DEF WellFormed, EnsureLabels, Task
  <2> HIDE DEF t
  <2>7. TypeOK'
    <3>1. task' \in [Workers -> Task]
      BY <1>1, <2>4, <2>5
    <3>2. vols' \in [Instances -> SUBSET Volumes] /\ lists' \in [Instances -> {"absent", "empty", "filled"}]
      BY <1>2 DEF Inv, TypeOK, EngineTypeOK, DockerTypeOK, CreateOn
    <3>3. StoreTypeOK'
      BY DEF Inv, TypeOK, StoreTypeOK, storeVars
    <3> QED BY <2>1, <2>2, <2>3, <3>1, <3>2, <3>3 DEF Inv, TypeOK, EngineTypeOK, DockerTypeOK
  <2>8. SpareNeverServes'
    BY <2>2, <2>3 DEF Inv, SpareNeverServes
  <2>9. \A v \in Workers : WellFormed(task[v])'
    BY <1>1, <2>4, <2>6 DEF Inv, WellFormed
  <2>10. RefsNotSpare'
    <3>1. ASSUME NEW v \in Workers PROVE NotSpare(task[v].old)'
      <4>1. task'[v].old = task[v].old
        BY <1>1, <2>4, <2>5
      <4> QED BY <2>1, <2>3, <4>1 DEF Inv, RefsNotSpare, NotSpare
    <3>2. ASSUME NEW v \in Workers, At(v, "start")' PROVE NotSpare(task[v].new)'
      <4>1. task'[v] = task[v]
        BY <1>1, <2>4, <2>6, <3>2 DEF At
      <4> QED BY <2>1, <2>3, <3>2, <4>1 DEF Inv, RefsNotSpare, NotSpare, At
    <3> QED BY <3>1, <3>2 DEF RefsNotSpare
  <2> QED BY <2>7, <2>8, <2>9, <2>10 DEF Inv
<1>3. ASSUME Goto(w, "raised"), UNCHANGED <<cont, vols, lists>> PROVE Inv'
  <2>1. "raised" \in PlainLabels /\ "raised" \notin EnsureLabels
    BY DEF PlainLabels, Labels, EnsureLabels
  <2> QED BY <1>1, <1>3, <2>1, UnchangedQuiet, RestUnchanged, QuietGoto
<1> QED BY <1>2, <1>3 DEF Create

\* The rename to the main name comes before the start.
LEMMA PromoteInv ==
  ASSUME Inv, NEW w \in Workers, Promote(w), UNCHANGED storeVars PROVE Inv'
<1> DEFINE x == task[w].new
           t == [task[w] EXCEPT !.pc = "start"]
<1>1. task[w] \in Task /\ task \in [Workers -> Task] /\ WellFormed(task[w])
      /\ task[w].pc = "promote" /\ UNCHANGED <<vols, lists, storeVars>>
  BY DEF Inv, TypeOK, DockerTypeOK, Promote, Rename, At
<1>2. CASE CanRename(x, "main")
  <2>1. RenameTo(x, "main") /\ task' = [task EXCEPT ![w] = t]
    BY <1>1, <1>2 DEF Promote, Rename, Call, Goto
  <2>a. "start" \in Labels
    BY DEF Labels, CallLabels, TryLabels
  <2>2. t \in Task /\ t.old = task[w].old /\ t.new = x
    <3>1. t \in Task
      BY <1>1, <2>a, SetFields
    <3> QED BY <1>1, <3>1 DEF Task
  <2>3. WellFormed(t)
    BY <1>1 DEF WellFormed, EnsureLabels, Task
  <2>4. QuietContainers /\ RestTyped
    BY <1>1, <2>1, RenameQuiet, RestUnchanged
  <2>5. x \in DOMAIN cont' => cont'[x].slot = "main"
    BY <2>1 DEF Inv, TypeOK, EngineTypeOK, RenameTo, Container
  <2> HIDE DEF t
  <2>6. TypeOK'
    BY <1>1, <2>1, <2>2, <2>4
    DEF Inv, QuietContainers, RestTyped, TypeOK, EngineTypeOK, DockerTypeOK
  <2>7. SpareNeverServes'
    BY <2>4 DEF QuietContainers, SpareNeverServes
  <2>8. \A v \in Workers : WellFormed(task[v])'
    BY <1>1, <2>1, <2>3 DEF Inv, WellFormed
  <2>9. RefsNotSpare'
    <3>1. ASSUME NEW v \in Workers PROVE NotSpare(task[v].old)'
      <4>1. task'[v].old = task[v].old
        BY <1>1, <2>1, <2>2
      <4> QED BY <2>4, <4>1 DEF Inv, RefsNotSpare, NotSpare, QuietContainers
    <3>2. ASSUME NEW v \in Workers, At(v, "start")' PROVE NotSpare(task[v].new)'
      <4>1. CASE v = w
        BY <1>1, <2>1, <2>2, <2>5, <4>1 DEF NotSpare
      <4>2. CASE v # w
        <5>1. task'[v] = task[v]
          BY <1>1, <2>1, <4>2
        <5> QED BY <2>4, <3>2, <5>1 DEF Inv, RefsNotSpare, NotSpare, QuietContainers, At
      <4> QED BY <4>1, <4>2
    <3> QED BY <3>1, <3>2 DEF RefsNotSpare
  <2> QED BY <2>6, <2>7, <2>8, <2>9 DEF Inv
<1>3. CASE ~CanRename(x, "main")
  <2>1. Goto(w, Handler(task[w].pc)) /\ UNCHANGED cont
    BY <1>3 DEF Promote, Rename, Call
  <2> QED BY <1>1, <2>1, FailedCall
<1> QED BY <1>2, <1>3

LEMMA WaitInv ==
  ASSUME Inv, NEW w \in Workers, WaitHealthy(w), UNCHANGED storeVars PROVE Inv'
<1> DEFINE x == task[w].new
           l == IF task[w].old = None THEN "returned" ELSE "retire"
<1>1. task[w].pc = "wait" /\ UNCHANGED <<vols, lists, storeVars>> /\ "wait" \in EnsureLabels
  BY DEF WaitHealthy, At, EnsureLabels
<1>2. {"returned", "retire", "discard"} \subseteq PlainLabels
  BY DEF PlainLabels, Labels, CallLabels
<1>3. CASE cont' = [cont EXCEPT ![x].accepted = TRUE] /\ Goto(w, l)
  <2>1. QuietContainers
    <3>1. \A y \in DOMAIN cont : cont[y] \in Container
      BY DEF Inv, TypeOK, EngineTypeOK
    <3>2. \A c \in Container : /\ [c EXCEPT !.accepted = TRUE] \in Container
                               /\ [c EXCEPT !.accepted = TRUE].slot = c.slot
                               /\ [c EXCEPT !.accepted = TRUE].state = c.state
      BY DEF Container
    <3>3. cont' = [cont EXCEPT ![x] = [cont[x] EXCEPT !.accepted = TRUE]]
      BY <1>3
    <3> HIDE DEF x
    <3> QED BY <3>1, <3>2, <3>3 DEF Inv, SpareNeverServes, QuietContainers
  <2>2. l \in PlainLabels
    BY <1>2
  <2> HIDE DEF l
  <2> QED BY <1>1, <1>3, <2>1, <2>2, RestUnchanged, QuietGoto
<1>4. CASE Goto(w, "discard") /\ UNCHANGED cont
  BY <1>1, <1>2, <1>4, UnchangedQuiet, RestUnchanged, QuietGoto
<1> QED BY <1>3, <1>4 DEF WaitHealthy

-----------------------------------------------------------------------------

LEMMA DockerInv ==
  ASSUME Inv, NEW w \in Workers, DockerStep(w) \/ DockerFault(w) PROVE Inv'
<1> USE DEF DockerStep, DockerFault
<1>1. CASE Look(w)
  BY <1>1, LookInv
<1>2. CASE Fast(w)
  <2>1. PICK l \in {"raised", "returned", "fastStart"} : Goto(w, l)
    BY <1>2 DEF Fast
  <2>2. task[w].pc = "fast" /\ UNCHANGED <<cont, vols, lists, storeVars>>
    BY <1>2 DEF Fast, At
  <2>3. "fast" \in EnsureLabels /\ l \in PlainLabels
    BY DEF EnsureLabels, PlainLabels, Labels, CallLabels
  <2> QED BY <2>1, <2>2, <2>3, UnchangedQuiet, RestUnchanged, QuietGoto
<1>3. CASE FastStart(w)
  <2>1. task[w].pc = "fastStart" /\ NotSpare(task[w].old)
    BY <1>3 DEF FastStart, At, Inv, RefsNotSpare
  <2> QED BY <1>3, <2>1, StartInv DEF FastStart
<1>4. CASE Sweep(w)
  <2>1. CASE FindStale(w, "findNew", "new", "dropNew", "findOld")
    BY <2>1, FindStaleInv
  <2>2. CASE Remove(w, "dropNew", task[w].new, "findOld")
    BY <2>2, RemoveInv DEF PlainLabels, Labels, CallLabels, EnsureLabels
  <2>3. CASE FindStale(w, "findOld", "old", "dropOld", "create")
    BY <2>3, FindStaleInv
  <2>4. CASE Remove(w, "dropOld", task[w].new, "create")
    BY <2>4, RemoveInv DEF PlainLabels, Labels, CallLabels, EnsureLabels
  <2> QED BY <1>4, <2>1, <2>2, <2>3, <2>4 DEF Sweep
<1>5. CASE Create(w)
  BY <1>5, CreateInv
<1>6. CASE StopOld(w)
  <2>1. task[w].pc = "stop" /\ "stop" \in EnsureLabels
    BY <1>6 DEF StopOld, At, EnsureLabels
  <2> QED BY <1>6, <2>1, StopInv DEF StopOld
<1>7. CASE Park(w)
  BY <1>7, RenameInv DEF Park, PlainLabels, Labels, CallLabels, TryLabels, EnsureLabels
<1>8. CASE Spill(w)
  BY <1>8, RemoveInv DEF Spill, PlainLabels, Labels, CallLabels, EnsureLabels
<1>9. CASE Promote(w)
  BY <1>9, PromoteInv
<1>10. CASE StartNew(w)
  <2>1. task[w].pc = "start" /\ NotSpare(task[w].new) /\ "start" \in EnsureLabels
    BY <1>10 DEF StartNew, At, Inv, RefsNotSpare, EnsureLabels
  <2> QED BY <1>10, <2>1, StartInv DEF StartNew
<1>11. CASE WaitHealthy(w)
  BY <1>11, WaitInv
<1>12. CASE Retire(w)
  BY <1>12, RemoveInv DEF Retire, PlainLabels, Labels, CallLabels, EnsureLabels
<1>13. CASE Discard(w)
  <2>1. PICK l \in {"raised", "unpark"} : Remove(w, "discard", task[w].new, l)
    BY <1>13 DEF Discard
  <2>2. l \in PlainLabels /\ "discard" \in EnsureLabels
        /\ "discard" \in Labels \ {"idle", "next"}
    BY DEF PlainLabels, Labels, CallLabels, EnsureLabels
  <2> QED BY <2>1, <2>2, RemoveInv
<1>14. CASE Unpark(w)
  BY <1>14, RenameInv DEF Unpark, PlainLabels, Labels, CallLabels, EnsureLabels
<1>15. CASE Revive(w)
  <2>1. task[w].pc = "revive" /\ NotSpare(task[w].old)
    BY <1>15 DEF Revive, At, Inv, RefsNotSpare
  <2> QED BY <1>15, <2>1, StartInv DEF Revive
<1>16. CASE RemoveStep(w)
  <2>0. /\ {"rmDrop", "rmCache", "rmLogs", "rmLists", "returned"} \subseteq PlainLabels
        /\ {"rmDrop", "rmCache", "rmLogs", "rmLists", "returned", "rmFind"} \cap EnsureLabels = {}
        /\ "rmFind" \in Labels /\ PlainLabels \subseteq Labels \ {"idle", "next"}
    BY DEF PlainLabels, Labels, CallLabels, EnsureLabels
  <2>1. CASE FindMain(w, "rmFind", "rmDrop", "rmCache")
    BY <2>0, <2>1, FindMainInv
  <2>2. CASE Remove(w, "rmDrop", task[w].old, "rmCache")
    BY <2>0, <2>2, RemoveInv
  <2>3. ASSUME NEW l \in {"rmCache", "rmLogs"}, NEW v \in Volumes, NEW l2 \in {"rmLogs", "rmLists"},
               RemoveVolume(w, l, v, l2)
        PROVE  Inv'
    <3>1. task[w].pc = l /\ Goto(w, l2) /\ UNCHANGED <<cont, lists, storeVars>>
      BY <2>3 DEF RemoveVolume, At
    <3>2. RestTyped
      BY <2>3, <3>1 DEF RemoveVolume, Inv, TypeOK, EngineTypeOK, DockerTypeOK, StoreTypeOK, storeVars, RestTyped
    <3> QED BY <2>0, <3>1, <3>2, UnchangedQuiet, QuietGoto
  <2>4. CASE RemoveVolume(w, "rmCache", "cache", IF task[w].keep THEN "rmLists" ELSE "rmLogs")
    BY <2>3, <2>4 DEF Volumes
  <2>5. CASE RemoveVolume(w, "rmLogs", "logs", "rmLists")
    BY <2>3, <2>5 DEF Volumes
  <2>6. CASE DeleteLists(w)
    <3>1. task[w].pc = "rmLists" /\ Goto(w, "returned") /\ UNCHANGED cont
      BY <2>6 DEF DeleteLists, At
    <3>2. RestTyped
      BY <2>6 DEF DeleteLists, Inv, TypeOK, EngineTypeOK, DockerTypeOK, StoreTypeOK, storeVars, RestTyped
    <3> QED BY <2>0, <3>1, <3>2, UnchangedQuiet, QuietGoto
  <2> QED BY <1>16, <2>1, <2>2, <2>4, <2>5, <2>6 DEF RemoveStep
<1>17. CASE LifecycleStep(w)
  <2>0. /\ {"lcAct", "returned", "lcFind"} \subseteq PlainLabels
        /\ {"lcAct", "returned", "lcFind"} \cap EnsureLabels = {}
        /\ "lcFind" \in Labels
    BY DEF PlainLabels, Labels, CallLabels, EnsureLabels
  <2>1. CASE FindMain(w, "lcFind", "lcAct", "returned")
    BY <2>0, <2>1, FindMainInv
  <2>2. CASE LifecycleAct(w)
    <3> DEFINE x == task[w].old
    <3>1. task[w].pc = "lcAct" /\ NotSpare(x) /\ UNCHANGED <<vols, lists, storeVars>>
      BY <2>2 DEF LifecycleAct, At, Inv, RefsNotSpare
    <3>2. CASE Call(w, CanStart(x), StartContainer(x), "returned")
      BY <3>1, <3>2, StartInv
    <3>3. CASE Call(w, Exists(x), StopContainer(x), "returned")
      BY <3>1, <3>3, StopInv
    <3>4. CASE Call(w, Exists(x) /\ PortFree(x), cont' = [cont EXCEPT ![x] = Started(@)], "returned")
      <4>1. CASE Exists(x) /\ PortFree(x)
        <5>1. cont' = [cont EXCEPT ![x] = Started(@)] /\ Goto(w, "returned")
          BY <3>4, <4>1 DEF Call
        <5> HIDE DEF x
        <5> QED BY <2>0, <3>1, <4>1, <5>1, RestartQuiet, RestUnchanged, QuietGoto
      <4>2. CASE ~(Exists(x) /\ PortFree(x))
        <5>1. Goto(w, Handler(task[w].pc)) /\ UNCHANGED cont
          BY <3>4, <4>2 DEF Call
        <5> QED BY <3>1, <5>1, FailedCall
      <4> QED BY <4>1, <4>2
    <3> QED BY <2>2, <3>2, <3>3, <3>4 DEF LifecycleAct
  <2> QED BY <1>17, <2>1, <2>2 DEF LifecycleStep
<1>18. CASE Refuse(w)
  <2>1. task[w].pc \notin {"idle", "next"}
    BY <1>18 DEF Refuse, TryLabels
  <2> QED BY <1>18, <2>1, FailedCall DEF Refuse
<1>19. CASE Abort(w)
  <2>1. task[w].pc \notin {"idle", "next"}
    BY <1>19 DEF Abort, CallLabels, TryLabels, At
  <2>2. "raised" \in PlainLabels /\ "raised" \notin EnsureLabels
    BY DEF PlainLabels, Labels, EnsureLabels
  <2> QED BY <1>19, <2>1, <2>2, UnchangedQuiet, RestUnchanged, QuietGoto DEF Abort
<1> QED
  BY <1>1, <1>2, <1>3, <1>4, <1>5, <1>6, <1>7, <1>8, <1>9, <1>10, <1>11, <1>12, <1>13,
     <1>14, <1>15, <1>16, <1>17, <1>18, <1>19 DEF EnsureStep

-----------------------------------------------------------------------------
(* The callers.                                                            *)

LEMMA FinishInv ==
  ASSUME Inv, NEW w \in Workers, NEW error \in BOOLEAN, Finish(w, error),
         task[w].pc \notin {"idle", "next"}, UNCHANGED <<cont, vols, storeVars, lists>>
  PROVE  Inv'
BY FinishQuiet, UnchangedQuiet, RestUnchanged, QuietStep

LEMMA UndoInv ==
  ASSUME Inv, NEW w \in Workers, Undo(w), task[w].base \in Def,
         task[w].pc \notin {"idle", "next"}, UNCHANGED <<cont, vols, storeVars, lists>>
  PROVE  Inv'
<1> DEFINE t == [task[w] EXCEPT !.pc = "put", !.undo = TRUE, !.def = task[w].base]
<1>1. task[w] \in Task /\ task \in [Workers -> Task] /\ WellFormed(task[w])
  BY DEF Inv, TypeOK, DockerTypeOK
<1>2. task' = [task EXCEPT ![w] = t]
  BY <1>1 DEF Undo
<1>3. t \in Task /\ t.old = task[w].old /\ t.pc = "put"
  BY <1>1 DEF Task, Labels
<1>4. t.def = task[w].base /\ t.base = task[w].base /\ t.op = task[w].op
      /\ t.goal = task[w].goal /\ t.inst = task[w].inst
  BY <1>1 DEF Task
<1> HIDE DEF t
<1>5. WellFormed(t)
  BY <1>1, <1>3, <1>4 DEF WellFormed
<1>6. RestTyped /\ NotSpare(t.old)
  BY <1>3, RestUnchanged DEF Inv, RefsNotSpare
<1> QED BY <1>2, <1>3, <1>5, <1>6, RetaskInv

LEMMA FilesInv ==
  ASSUME Inv, NEW w \in Workers, Note(w) \/ Put(w) \/ DeleteFiles(w) PROVE Inv'
<1>0. /\ task[w] \in Task /\ WellFormed(task[w])
      /\ yaml \in [Instances -> Def \cup {Torn, None}] /\ prev \in [Instances -> Images \cup {None}]
      /\ vols \in [Instances -> SUBSET Volumes]
      /\ lists \in [Instances -> {"absent", "empty", "filled"}]
  BY DEF Inv, TypeOK, EngineTypeOK, StoreTypeOK, DockerTypeOK
<1>1. CASE Note(w)
  <2>1. task[w].pc = "note" /\ Goto(w, "put") /\ UNCHANGED <<cont, vols, lists, yaml>>
        /\ prev' = [prev EXCEPT ![Inst(w)] = task[w].base.image]
    BY <1>1 DEF Note, FileStep, At, NotePrevious
  <2>2. task[w].base.image \in Images
    BY <1>0, <2>1 DEF WellFormed, Def
  <2>3. RestTyped
    BY <1>0, <2>1, <2>2 DEF RestTyped, StoreTypeOK
  <2>4. "put" \in PlainLabels /\ "note" \in EnsureLabels
    BY DEF PlainLabels, Labels, EnsureLabels
  <2> QED BY <2>1, <2>3, <2>4, UnchangedQuiet, QuietGoto
<1>2. CASE Put(w)
  <2>1. PICK l \in {"put", "putWrite"}, l2 \in {"putWrite", "look"}, d \in {Torn, None, task[w].def} :
          /\ task[w].pc = l /\ Goto(w, l2) /\ UNCHANGED <<cont, vols, lists, prev>>
          /\ yaml' = [yaml EXCEPT ![Inst(w)] = d]
    <3>1. CASE FileStep(w, "put", "putWrite") /\ Truncate(Inst(w)) /\ UNCHANGED prev
      BY <3>1 DEF FileStep, At, Truncate
    <3>2. CASE FileStep(w, "putWrite", "look") /\ Write(Inst(w), task[w].def) /\ UNCHANGED prev
      <4>1. CASE yaml[Inst(w)] = None
        BY <3>2, <4>1 DEF FileStep, At, Write
      <4>2. CASE yaml[Inst(w)] # None
        BY <3>2, <4>2 DEF FileStep, At, Write
      <4> QED BY <4>1, <4>2
    <3> QED BY <1>2, <3>1, <3>2 DEF Put
  <2>2. l \in EnsureLabels /\ l2 \in PlainLabels
    BY DEF PlainLabels, Labels, CallLabels, EnsureLabels
  <2>3. d \in Def \cup {Torn, None}
    BY <1>0, <2>1, <2>2 DEF WellFormed
  <2>4. RestTyped
    BY <1>0, <2>1, <2>3 DEF RestTyped, StoreTypeOK
  <2> QED BY <2>1, <2>2, <2>4, UnchangedQuiet, QuietGoto
<1>3. CASE DeleteFiles(w)
  <2>1. CASE FileStep(w, "rmPrev", "rmYaml") /\ UnlinkPrevious(Inst(w)) /\ UNCHANGED yaml
    <3>1. task[w].pc = "rmPrev" /\ Goto(w, "rmYaml") /\ UNCHANGED <<cont, vols, lists, yaml>>
      BY <2>1 DEF FileStep, At
    <3>2. RestTyped
      BY <1>0, <2>1, <3>1 DEF RestTyped, StoreTypeOK, UnlinkPrevious
    <3>3. "rmYaml" \in PlainLabels /\ "rmYaml" \notin EnsureLabels
      BY DEF PlainLabels, Labels, EnsureLabels
    <3> QED BY <3>1, <3>2, <3>3, UnchangedQuiet, QuietGoto
  <2>2. CASE /\ Unlink(Inst(w)) /\ task' = [task EXCEPT ![w] = Idle]
             /\ UNCHANGED <<cont, vols, prev, lists>>
    <3>1. RestTyped
      BY <1>0, <2>2 DEF RestTyped, StoreTypeOK, Unlink
    <3> QED BY <2>2, <3>1, IdleQuiet, UnchangedQuiet, QuietStep
  <2> QED BY <1>3, <2>1, <2>2 DEF DeleteFiles
<1> QED BY <1>1, <1>2, <1>3

LEMMA ReturnsInv ==
  ASSUME Inv, NEW w \in Workers, Returned(w) \/ Raised(w) \/ Verify(w) \/ VerifyAborts(w)
  PROVE  Inv'
<1>1. /\ task[w].pc \in {"returned", "raised", "verify"}
      /\ UNCHANGED <<cont, vols, storeVars, lists>>
  BY DEF Returned, Raised, Verify, VerifyAborts, At
<1>3. WellFormed(task[w])
  BY DEF Inv
<1>2. \/ Goto(w, "rmPrev")
      \/ Goto(w, "verify") /\ Updating(w)
      \/ Finish(w, TRUE) \/ Finish(w, FALSE)
      \/ Undo(w) /\ task[w].base \in Def
  BY <1>3 DEF Returned, Raised, Verify, VerifyAborts, WellFormed, Updating, At
<1>4. CASE Goto(w, "rmPrev")
  <2>1. "rmPrev" \in PlainLabels /\ "rmPrev" \notin EnsureLabels
    BY DEF PlainLabels, Labels, EnsureLabels
  <2> QED BY <1>1, <1>4, <2>1, UnchangedQuiet, RestUnchanged, QuietGoto
<1>5. CASE Goto(w, "verify") /\ Updating(w)
  <2> DEFINE t == [task[w] EXCEPT !.pc = "verify"]
  <2>1. task[w] \in Task /\ task' = [task EXCEPT ![w] = t]
    BY <1>5 DEF Inv, TypeOK, DockerTypeOK, Goto
  <2>2. t \in Task /\ t.old = task[w].old /\ t.pc = "verify"
    BY <2>1 DEF Task, Labels
  <2>3. WellFormed(t)
    BY <1>1, <1>3, <1>5, <2>1 DEF WellFormed, EnsureLabels, Updating, Task
  <2>4. RestTyped /\ NotSpare(t.old)
    BY <1>1, <2>2, RestUnchanged DEF Inv, RefsNotSpare
  <2> HIDE DEF t
  <2> QED BY <1>1, <2>1, <2>2, <2>3, <2>4, RetaskInv
<1>6. CASE Finish(w, TRUE) \/ Finish(w, FALSE)
  BY <1>1, <1>6, FinishInv
<1>7. CASE Undo(w) /\ task[w].base \in Def
  BY <1>1, <1>7, UndoInv
<1> QED BY <1>2, <1>4, <1>5, <1>6, <1>7

\* A record made from Idle: what a new request or a batch's next instance is.
LEMMA FreshTaskInv ==
  ASSUME Inv, NEW w \in Workers, NEW t \in Task, WellFormed(t), t.pc # "start", t.old = None,
         task' = [task EXCEPT ![w] = t], UNCHANGED <<cont, vols, storeVars, lists>>
  PROVE  Inv'
<1>1. NotSpare(t.old)
  BY NoneAssumption DEF NotSpare, Inv, TypeOK, EngineTypeOK
<1> QED BY <1>1, RestUnchanged, RetaskInv

LEMMA GetType ==
  ASSUME Inv, NEW i \in Instances
  PROVE  Get(i) \in Def \cup {None} /\ List \in [Instances -> Def \cup {None}]
BY DEF Get, List, Inv, TypeOK, StoreTypeOK

LEMMA NextInstanceInv ==
  ASSUME Inv, NEW w \in Workers, NextInstance(w) PROVE Inv'
<1> DEFINE t == task[w]
<1>1. t \in Task /\ WellFormed(t) /\ t.pc = "next" /\ UNCHANGED <<cont, vols, storeVars, lists>>
  BY DEF Inv, TypeOK, DockerTypeOK, NextInstance, At
<1>2. CASE task' = [task EXCEPT ![w] = Idle]
  BY <1>1, <1>2, IdleQuiet, UnchangedQuiet, RestUnchanged, QuietStep
<1>3. /\ t.op \in {"reconcile", "updateAll"} /\ t.goal \in Images \cup {None}
      /\ t.op = "updateAll" => t.goal \in Images
  BY <1>1 DEF WellFormed, Task
<1>4. ASSUME NEW i \in First(w) PROVE
        LET rest == [t.todo EXCEPT ![i] = None]
            taken == [Idle EXCEPT !.op = t.op, !.goal = t.goal, !.failed = t.failed, !.todo = rest]
            look == [taken EXCEPT !.pc = "look", !.inst = i, !.def = t.todo[i]]
            note == [taken EXCEPT !.pc = "note", !.inst = i, !.base = Get(i),
                                  !.def = [Get(i) EXCEPT !.image = t.goal]]
            next == [taken EXCEPT !.pc = "next"]
            gone == [taken EXCEPT !.pc = "next", !.failed = t.failed \cup {i}] IN
        /\ t.op = "reconcile" /\ task' = [task EXCEPT ![w] = look] => Inv'
        /\ t.op # "reconcile" /\ Get(i) # None /\ task' = [task EXCEPT ![w] = note] => Inv'
        /\ task' = [task EXCEPT ![w] = next] => Inv'
        /\ task' = [task EXCEPT ![w] = gone] => Inv'
  <2> DEFINE rest == [t.todo EXCEPT ![i] = None]
             image == [Get(i) EXCEPT !.image = t.goal]
             taken == [Idle EXCEPT !.op = t.op, !.goal = t.goal, !.failed = t.failed, !.todo = rest]
             look == [taken EXCEPT !.pc = "look", !.inst = i, !.def = t.todo[i]]
             note == [taken EXCEPT !.pc = "note", !.inst = i, !.base = Get(i), !.def = image]
             next == [taken EXCEPT !.pc = "next"]
             failed == t.failed \cup {i}
             gone == [taken EXCEPT !.pc = "next", !.failed = failed]
  <2>1. i \in Instances /\ t.todo[i] \in Def /\ rest \in [Instances -> Def \cup {None}]
    BY <1>1 DEF First, Pending, Task
  <2>2. Get(i) \in Def \cup {None}
    BY <2>1, GetType
  <2>3. Get(i) # None /\ t.op = "updateAll" => image \in Def
    BY <1>3, <2>2 DEF Def
  <2>4. /\ taken \in Task
        /\ taken.op = t.op /\ taken.goal = t.goal /\ taken.old = None
    <3>1. t.op \in SyncOps \cup LoopOps \cup {"none"}
      BY <1>3 DEF SyncOps
    <3>2. t.failed \in SUBSET Instances
      BY <1>1 DEF Task
    <3> HIDE DEF rest, t
    <3>3. [Idle EXCEPT !.op = t.op] \in Task
      BY <3>1, IdleTask, SetFields
    <3>4. [Idle EXCEPT !.op = t.op, !.goal = t.goal] \in Task
      BY <1>3, <3>3, SetFields
    <3>5. [Idle EXCEPT !.op = t.op, !.goal = t.goal, !.failed = t.failed] \in Task
      BY <3>2, <3>4, SetFields
    <3>6. taken \in Task
      BY <2>1, <3>5, SetFields
    <3> QED BY <3>6 DEF Idle
  <2>0. failed \in SUBSET Instances
    BY <1>1, <2>1 DEF Task
  <2> HIDE DEF t, rest, image, taken, failed
  <2>5. ASSUME t.op = "reconcile", task' = [task EXCEPT ![w] = look] PROVE Inv'
    <3>1. look \in Task
      <4>1. "look" \in Labels
        BY DEF Labels, CallLabels
      <4>2. [taken EXCEPT !.pc = "look"] \in Task
        BY <2>4, <4>1, SetFields
      <4>3. [taken EXCEPT !.pc = "look", !.inst = i] \in Task
        BY <2>1, <4>2, SetFields
      <4> QED BY <2>1, <4>3, SetFields
    <3>2. /\ look.op = t.op /\ look.goal = t.goal /\ look.old = None
          /\ look.pc = "look" /\ look.inst = i /\ look.def = t.todo[i]
      BY <2>4 DEF Task
    <3>3. WellFormed(look)
      BY <2>1, <2>5, <3>2 DEF WellFormed
    <3> QED BY <1>1, <2>5, <3>1, <3>2, <3>3, FreshTaskInv
  <2>6. ASSUME t.op # "reconcile", Get(i) # None, task' = [task EXCEPT ![w] = note] PROVE Inv'
    <3>0. t.op = "updateAll" /\ Get(i) \in Def /\ image \in Def
      BY <1>3, <2>2, <2>3, <2>6
    <3>1. note \in Task
      <4>1. "note" \in Labels
        BY DEF Labels
      <4>2. [taken EXCEPT !.pc = "note"] \in Task
        BY <2>4, <4>1, SetFields
      <4>3. [taken EXCEPT !.pc = "note", !.inst = i] \in Task
        BY <2>1, <4>2, SetFields
      <4>4. [taken EXCEPT !.pc = "note", !.inst = i, !.base = Get(i)] \in Task
        BY <3>0, <4>3, SetFields
      <4> QED BY <3>0, <4>4, SetFields
    <3>2. /\ note.op = t.op /\ note.goal = t.goal /\ note.old = None /\ note.pc = "note"
          /\ note.inst = i /\ note.def = image /\ note.base = Get(i)
      BY <2>4 DEF Task
    <3>3. WellFormed(note)
      BY <1>3, <2>1, <3>0, <3>2 DEF WellFormed
    <3> QED BY <1>1, <2>6, <3>1, <3>2, <3>3, FreshTaskInv
  <2>7. ASSUME task' = [task EXCEPT ![w] = next] PROVE Inv'
    <3>1. next \in Task
      BY <2>4 DEF Task, Labels
    <3>2. next.op = t.op /\ next.goal = t.goal /\ next.old = None /\ next.pc = "next"
      BY <2>4 DEF Task
    <3>3. WellFormed(next)
      BY <1>3, <3>2 DEF WellFormed, EnsureLabels
    <3> QED BY <1>1, <2>7, <3>1, <3>2, <3>3, FreshTaskInv
  <2>8. ASSUME task' = [task EXCEPT ![w] = gone] PROVE Inv'
    <3>1. gone \in Task
      <4>1. "next" \in Labels
        BY DEF Labels
      <4>2. [taken EXCEPT !.pc = "next"] \in Task
        BY <2>4, <4>1, SetFields
      <4> QED BY <2>0, <4>2, SetFields
    <3>2. gone.op = t.op /\ gone.goal = t.goal /\ gone.old = None /\ gone.pc = "next"
      BY <2>4 DEF Task
    <3>3. WellFormed(gone)
      BY <1>3, <3>2 DEF WellFormed, EnsureLabels
    <3> QED BY <1>1, <2>8, <3>1, <3>2, <3>3, FreshTaskInv
  <2> QED BY <2>5, <2>6, <2>7, <2>8 DEF t, rest, image, taken, failed
<1> QED BY <1>2, <1>4 DEF NextInstance

-----------------------------------------------------------------------------
(* Requests start from Idle.                                               *)

LEMMA BeginInv ==
  ASSUME Inv, NEW w \in Workers, NEW t \in Task, WellFormed(t), t.pc # "start", t.old = None,
         Begin(w, t)
  PROVE  Inv'
BY FreshTaskInv DEF Begin

LEMMA OneInstanceInv ==
  ASSUME Inv, NEW w \in Workers, NEW i \in Instances,
         NEW op \in {"create", "patch", "rollback"}, NEW d \in Def,
         Begin(w, [Idle EXCEPT !.op = op, !.pc = "put", !.inst = i, !.def = d])
  PROVE  Inv'
<1> DEFINE t == [Idle EXCEPT !.op = op, !.pc = "put", !.inst = i, !.def = d]
<1>1. t \in Task
  BY IdleTask, SetFields DEF Labels, SyncOps
<1>2. t.op = op /\ t.pc = "put" /\ t.inst = i /\ t.def = d /\ t.old = None
  BY DEF Idle
<1> HIDE DEF t
<1>3. WellFormed(t)
  BY <1>2 DEF WellFormed
<1> QED BY <1>1, <1>2, <1>3, BeginInv DEF t

LEMMA DeleteInv ==
  ASSUME Inv, NEW w \in Workers, NEW i \in Instances, NEW keep \in BOOLEAN,
         DeleteInstance(w, i, keep)
  PROVE  Inv'
<1> DEFINE t == [Idle EXCEPT !.op = "delete", !.pc = "rmFind", !.inst = i, !.keep = keep]
<1>1. t \in Task
  BY IdleTask, SetFields DEF Labels, CallLabels, SyncOps
<1>2. t.op = "delete" /\ t.pc = "rmFind" /\ t.inst = i /\ t.old = None
  BY DEF Idle
<1>3. Begin(w, t)
  BY DEF DeleteInstance
<1> HIDE DEF t
<1>4. WellFormed(t)
  BY <1>2 DEF WellFormed, EnsureLabels
<1> QED BY <1>1, <1>2, <1>3, <1>4, BeginInv

LEMMA ListType ==
  ASSUME Inv PROVE List \in [Instances -> Def \cup {None}]
BY DEF Get, List, Inv, TypeOK, StoreTypeOK

LEMMA ReconcileInv ==
  ASSUME Inv, NEW w \in Workers, ReconcileAll(w) PROVE Inv'
<1> DEFINE t == [Idle EXCEPT !.op = "reconcile", !.pc = "next", !.todo = List]
<1>1. t \in Task
  BY ListType, IdleTask, SetFields DEF Labels, SyncOps
<1>2. t.op = "reconcile" /\ t.pc = "next" /\ t.old = None
  BY DEF Idle
<1>3. Begin(w, t)
  BY DEF ReconcileAll
<1> HIDE DEF t
<1>4. WellFormed(t)
  BY <1>2 DEF WellFormed, EnsureLabels
<1> QED BY <1>1, <1>2, <1>3, <1>4, BeginInv

LEMMA UpdateAllInv ==
  ASSUME Inv, NEW w \in Workers, NEW image \in Images, UpdateAll(w, image) PROVE Inv'
<1> DEFINE t == [Idle EXCEPT !.op = "updateAll", !.pc = "next", !.goal = image, !.todo = List]
<1>1. t \in Task
  BY ListType, IdleTask, SetFields DEF Labels, SyncOps
<1>2. t.op = "updateAll" /\ t.pc = "next" /\ t.goal = image /\ t.old = None
  BY DEF Idle
<1>3. Begin(w, t)
  BY DEF UpdateAll
<1> HIDE DEF t
<1>4. WellFormed(t)
  BY <1>2 DEF WellFormed, EnsureLabels
<1> QED BY <1>1, <1>2, <1>3, <1>4, BeginInv

LEMMA UpdateInv ==
  ASSUME Inv, NEW w \in Workers, NEW i \in Instances, NEW image \in Images, Update(w, i, image)
  PROVE  Inv'
<1> DEFINE d == [Get(i) EXCEPT !.image = image]
           t == [Idle EXCEPT !.op = "update", !.pc = "note", !.inst = i, !.base = Get(i),
                             !.def = d, !.goal = image]
<1>1. Get(i) \in Def
  BY GetType DEF Update
<1>2. d \in Def
  BY <1>1 DEF Def
<1>3. Begin(w, t)
  BY DEF Update
<1> HIDE DEF d
<1>4. t \in Task
  BY <1>1, <1>2, IdleTask, SetFields DEF Labels, SyncOps
<1>5. /\ t.op = "update" /\ t.pc = "note" /\ t.inst = i /\ t.base = Get(i)
      /\ t.def = d /\ t.old = None
  BY DEF Idle
<1> HIDE DEF t
<1>6. WellFormed(t)
  BY <1>1, <1>2, <1>5 DEF WellFormed
<1> QED BY <1>3, <1>4, <1>5, <1>6, BeginInv

LEMMA LifecycleInv ==
  ASSUME Inv, NEW op \in LoopOps, NEW i \in Instances, Lifecycle(op, i)
  PROVE  Inv'
<1> DEFINE t == [Idle EXCEPT !.op = op, !.pc = "lcFind", !.inst = i]
<1>1. t \in Task /\ Loop \in Workers
  BY IdleTask, SetFields DEF Labels, CallLabels, Workers
<1>2. t.op = op /\ t.pc = "lcFind" /\ t.inst = i /\ t.old = None
  BY DEF Idle
<1>3. Begin(Loop, t)
  BY DEF Lifecycle
<1> HIDE DEF t
<1>4. WellFormed(t)
  BY <1>2 DEF WellFormed, EnsureLabels, LoopOps
<1> QED BY <1>1, <1>2, <1>3, <1>4, BeginInv

\* A step that changes neither a task nor a container's name or state.
LEMMA SameTaskInv ==
  ASSUME Inv, UNCHANGED task, QuietContainers, RestTyped
  PROVE  Inv'
<1>1. Loop \in Workers
  BY DEF Workers
<1>2. TypeOK' /\ SpareNeverServes' /\ \A v \in Workers : WellFormed(task[v])'
  BY DEF Inv, QuietContainers, RestTyped, TypeOK, EngineTypeOK, DockerTypeOK,
         SpareNeverServes, WellFormed
<1>3. RefsNotSpare'
  BY DEF Inv, QuietContainers, RefsNotSpare, NotSpare, At
<1> QED BY <1>2, <1>3 DEF Inv

LEMMA EditListsInv ==
  ASSUME Inv, NEW i \in Instances, EditLists(i) PROVE Inv'
<1>1. RestTyped /\ UNCHANGED <<cont, task>>
  BY DEF EditLists, Inv, TypeOK, EngineTypeOK, DockerTypeOK, StoreTypeOK, storeVars, RestTyped
<1> QED BY <1>1, UnchangedQuiet, SameTaskInv

LEMMA RequestInv == ASSUME Inv, Request PROVE Inv'
<1>1. \A i \in Instances : PortsOf[i] \subseteq Ports
  BY OpsAssumption
<1>2. ASSUME NEW w \in Threads, NEW i \in Instances, NEW m \in Images, NEW p \in PortsOf[i],
             CreateInstance(w, i, [image |-> m, port |-> p])
      PROVE  Inv'
  <2>1. w \in Workers /\ [image |-> m, port |-> p] \in Def
    BY <1>1 DEF Workers, Def
  <2> QED BY <1>2, <2>1, OneInstanceInv DEF CreateInstance
<1>3. ASSUME NEW w \in Threads, NEW i \in Instances, NEW m \in Images, NEW p \in Ports,
             PatchInstance(w, i, [image |-> m, port |-> p])
      PROVE  Inv'
  <2>1. w \in Workers /\ [image |-> m, port |-> p] \in Def
    BY DEF Workers, Def
  <2> QED BY <1>3, <2>1, OneInstanceInv DEF PatchInstance
<1>4. ASSUME NEW w \in Threads, NEW i \in Instances, NEW keep \in BOOLEAN,
             DeleteInstance(w, i, keep)
      PROVE  Inv'
  BY <1>4, DeleteInv DEF Workers
<1>5. ASSUME NEW w \in Threads, NEW i \in Instances, NEW m \in Images, Update(w, i, m)
      PROVE  Inv'
  BY <1>5, UpdateInv DEF Workers
<1>6. ASSUME NEW w \in Threads, NEW i \in Instances, Rollback(w, i) PROVE Inv'
  <2>1. Get(i) \in Def /\ prev[i] \in Images
    BY <1>6, GetType DEF Rollback, Inv, TypeOK, StoreTypeOK
  <2>2. w \in Workers /\ [Get(i) EXCEPT !.image = prev[i]] \in Def
    BY <2>1 DEF Workers, Def
  <2> QED BY <1>6, <2>2, OneInstanceInv DEF Rollback
<1>7. ASSUME NEW w \in Threads, ReconcileAll(w) PROVE Inv'
  <2>1. w \in Workers
    BY DEF Workers
  <2> QED BY <1>7, <2>1, ReconcileInv
<1>8. ASSUME NEW w \in Threads, NEW m \in Images, UpdateAll(w, m) PROVE Inv'
  <2>1. w \in Workers
    BY DEF Workers
  <2> QED BY <1>8, <2>1, UpdateAllInv
<1>9. ASSUME NEW op \in LoopOps, NEW i \in Instances, Lifecycle(op, i) PROVE Inv'
  BY <1>9, LifecycleInv
<1>10. ASSUME NEW i \in Instances, EditLists(i) PROVE Inv'
  BY <1>10, EditListsInv
<1> QED BY <1>2, <1>3, <1>4, <1>5, <1>6, <1>7, <1>8, <1>9, <1>10 DEF Request

-----------------------------------------------------------------------------
(* What happens without a request.                                         *)

LEMMA EnvironmentInv == ASSUME Inv, Environment PROVE Inv'
<1>1. PICK x \in DOMAIN cont : Probe(x) \/ Exit(x) \/ PolicyRestart(x)
  BY DEF Environment, EngineNext
<1>2. /\ cont[x] \in Container /\ cont[x].state # "created"
      /\ UNCHANGED <<vols, lists, storeVars, task>>
  BY <1>1 DEF Environment, Probe, Exit, PolicyRestart, Running, Inv, TypeOK, EngineTypeOK
<1>3. PICK c \in Container : c.slot = cont[x].slot /\ cont' = [cont EXCEPT ![x] = c]
  <2>1. CASE Probe(x)
    <3>1. PICK h \in {"healthy", "unhealthy"} : cont' = [cont EXCEPT ![x].health = h]
      BY <2>1 DEF Probe
    <3>2. [cont[x] EXCEPT !.health = h] \in Container
          /\ [cont[x] EXCEPT !.health = h].slot = cont[x].slot
      BY <1>2 DEF Container
    <3> QED BY <3>1, <3>2
  <2>2. CASE Exit(x)
    <3>1. Halted(cont[x]) \in Container /\ Halted(cont[x]).slot = cont[x].slot
      BY <1>2 DEF Halted, Container
    <3> QED BY <2>2, <3>1 DEF Exit
  <2>3. CASE PolicyRestart(x)
    <3>1. Started(cont[x]) \in Container /\ Started(cont[x]).slot = cont[x].slot
      BY <1>2 DEF Started, Container
    <3> QED BY <2>3, <3>1 DEF PolicyRestart
  <2> QED BY <1>1, <2>1, <2>2, <2>3
<1>4. cont[x].slot # "new"
  BY <1>2 DEF Inv, SpareNeverServes
<1>5. QuietContainers
  BY <1>2, <1>3, <1>4 DEF QuietContainers, Inv, TypeOK, EngineTypeOK, SpareNeverServes
<1> QED BY <1>2, <1>5, RestUnchanged, SameTaskInv

LEMMA AllIdleInv ==
  ASSUME Inv, task' = [w \in Workers |-> Idle], QuietContainers, RestTyped
  PROVE  Inv'
<1>1. TypeOK' /\ SpareNeverServes'
  BY IdleTask DEF Inv, QuietContainers, RestTyped, TypeOK, EngineTypeOK, DockerTypeOK,
                  SpareNeverServes
<1>2. \A v \in Workers : WellFormed(task[v])'
  BY DEF WellFormed, Idle, EnsureLabels
<1>3. RefsNotSpare'
  BY NoneAssumption DEF RefsNotSpare, NotSpare, At, Idle, Inv, TypeOK, EngineTypeOK, QuietContainers
<1> QED BY <1>1, <1>2, <1>3 DEF Inv

LEMMA CrashInv == ASSUME Inv, Crash PROVE Inv'
BY UnchangedQuiet, RestUnchanged, AllIdleInv DEF Crash

LEMMA RebootInv == ASSUME Inv, Reboot PROVE Inv'
<1>1. \A x \in DOMAIN cont : Halted(cont[x]) \in Container /\ Halted(cont[x]).slot = cont[x].slot
  BY DEF Halted, Container, Inv, TypeOK, EngineTypeOK
<1>2. QuietContainers
  BY <1>1 DEF Reboot, HostDown, QuietContainers, Inv, TypeOK, EngineTypeOK, SpareNeverServes
<1> QED BY <1>2, RestUnchanged, AllIdleInv DEF Reboot

-----------------------------------------------------------------------------
(* The theorems.                                                           *)

LEMMA InitInv == Init => Inv
<1> SUFFICES ASSUME Init PROVE Inv
  OBVIOUS
<1>0. PICK known \in SUBSET Instances : \E d \in [known -> [image : CanPass, port : Ports]] :
        /\ cont = [x \in {FirstId[i] : i \in known} |->
                     LET i == CHOOSE j \in known : FirstId[j] = x IN
                     [New(i, d[i]) EXCEPT !.slot = "main", !.state = "running",
                        !.health = IF d[i].image \in Unchecked THEN "none" ELSE "healthy",
                        !.accepted = TRUE]]
        /\ yaml = [i \in Instances |-> IF i \in known THEN d[i] ELSE None]
        /\ vols = [i \in Instances |-> IF i \in known THEN Volumes ELSE {}]
        /\ lists = [i \in Instances |-> IF i \in known THEN "filled" ELSE "absent"]
  BY DEF Init
<1>1. PICK d \in [known -> [image : CanPass, port : Ports]] :
        /\ cont = [x \in {FirstId[i] : i \in known} |->
                     LET i == CHOOSE j \in known : FirstId[j] = x IN
                     [New(i, d[i]) EXCEPT !.slot = "main", !.state = "running",
                        !.health = IF d[i].image \in Unchecked THEN "none" ELSE "healthy",
                        !.accepted = TRUE]]
        /\ yaml = [i \in Instances |-> IF i \in known THEN d[i] ELSE None]
        /\ vols = [i \in Instances |-> IF i \in known THEN Volumes ELSE {}]
        /\ lists = [i \in Instances |-> IF i \in known THEN "filled" ELSE "absent"]
  BY <1>0
<1>2. prev = [i \in Instances |-> None] /\ task = [w \in Workers |-> Idle]
  BY DEF Init
<1>3. \A i \in known : d[i] \in Def
  BY ImagesAssumption DEF Def
<1>4. \A x \in DOMAIN cont : cont[x] \in Container /\ cont[x].slot = "main"
  <2>1. SUFFICES ASSUME NEW x \in DOMAIN cont PROVE cont[x] \in Container /\ cont[x].slot = "main"
    OBVIOUS
  <2> DEFINE i == CHOOSE j \in known : FirstId[j] = x
  <2>2. i \in known
    BY <1>1
  <2> DEFINE c == [New(i, d[i]) EXCEPT !.slot = "main", !.state = "running",
                     !.health = IF d[i].image \in Unchecked THEN "none" ELSE "healthy",
                     !.accepted = TRUE]
  <2>3. cont[x] = c
    BY <1>1
  <2>4. i \in Instances /\ d[i] \in Def
    BY <1>1, <1>3, <2>2
  <2> HIDE DEF i
  <2>5. c \in Container /\ c.slot = "main"
    BY <2>4 DEF New, Container
  <2> QED BY <2>3, <2>5
<1>5. TypeOK
  <2>1. DOMAIN cont \subseteq Ids
    <3>1. DOMAIN cont = {FirstId[i] : i \in known} /\ known \subseteq Instances
      BY <1>1
    <3>2. \A i \in Instances : FirstId[i] \in Ids
      BY OpsAssumption
    <3> QED BY <3>1, <3>2
  <2>2. EngineTypeOK
    BY <1>1, <1>4, <2>1 DEF EngineTypeOK, Volumes
  <2>3. StoreTypeOK
    BY <1>1, <1>2, <1>3 DEF StoreTypeOK
  <2>4. DockerTypeOK
    BY <1>1, <1>2, IdleTask DEF DockerTypeOK
  <2> QED BY <2>2, <2>3, <2>4 DEF TypeOK
<1>6. SpareNeverServes
  BY <1>4 DEF SpareNeverServes
<1>7. \A w \in Workers : WellFormed(task[w])
  BY <1>2 DEF WellFormed, Idle, EnsureLabels
<1>8. RefsNotSpare
  BY <1>2, <1>4 DEF RefsNotSpare, NotSpare, At, Idle
<1> QED BY <1>5, <1>6, <1>7, <1>8 DEF Inv

LEMMA NextInv == Inv /\ [Next]_vars => Inv'
<1> SUFFICES ASSUME Inv, [Next]_vars PROVE Inv'
  OBVIOUS
<1>1. CASE Request
  BY <1>1, RequestInv
<1>2. ASSUME NEW w \in Workers, Step(w) PROVE Inv'
  BY <1>2, DockerInv, FilesInv, NextInstanceInv, ReturnsInv DEF Step, Work
<1>3. CASE Environment
  BY <1>3, EnvironmentInv
<1>4. CASE Crash
  BY <1>4, CrashInv
<1>5. CASE Reboot
  BY <1>5, RebootInv
<1>6. CASE UNCHANGED vars
  BY <1>6, UnchangedQuiet, RestUnchanged, SameTaskInv DEF vars, storeVars
<1> QED BY <1>1, <1>2, <1>3, <1>4, <1>5, <1>6 DEF Next

\* Inv holds in every reachable state: it is inductive.
THEOREM Inductive == Spec => []Inv
<1> QED BY InitInv, NextInv, PTL DEF Spec

\* Every file, container, volume and task keeps its type, whatever requests,
\* faults, crashes and reboots interleave.
THEOREM TypeCorrect == Spec => []TypeOK
<1>1. Inv => TypeOK
  BY DEF Inv
<1> QED BY <1>1, Inductive, PTL

\* No number of racing, failing or crashing requests starts a container
\* while it is named .new: what ensure_running sweeps by that name never
\* carried traffic.
THEOREM SpareIsCold == Spec => []SpareNeverServes
<1>1. Inv => SpareNeverServes
  BY DEF Inv
<1> QED BY <1>1, Inductive, PTL

-----------------------------------------------------------------------------
(* Requests for different instances.                                       *)

\* What a request has left to do with: the instance it works on and, for a
\* reconcile, those of its snapshot it has not come to.
Claims(w) ==
  IF Free(w) THEN {}
  ELSE ({Inst(w)} \cup (IF task[w].op = "reconcile" THEN Pending(w) ELSE {})) \cap Instances

\* No two requests in the threadpool are after one instance.  An update-all
\* claims an instance when it comes to it: update() reads the definition again.
Apart == \A v, w \in Threads : v # w => Claims(v) \cap Claims(w) = {}

LEMMA OneApart == OneRequest => Apart
BY DEF OneRequest, Apart, Claims

-----------------------------------------------------------------------------
(* What a task knows of its instance's containers.                         *)

FastLabels == {"fast", "fastStart"}
SweepLabels == {"findNew", "dropNew", "findOld", "dropOld", "create"}
BuiltLabels == {"stop", "park", "spill"}
SwapLabels == {"promote", "start", "wait", "retire", "discard", "unpark"}
\* From the lookup of `existing` on; `revive` is the last step back.
AfterLook == FastLabels \cup SweepLabels \cup BuiltLabels \cup SwapLabels \cup {"revive"}
RemoveLabels == {"rmFind", "rmDrop", "rmCache", "rmLogs", "rmLists", "rmPrev", "rmYaml"}
AfterDrop == {"rmCache", "rmLogs", "rmLists", "rmPrev", "rmYaml"}

Held(x, i, s) == x \in DOMAIN cont /\ cont[x].inst = i /\ cont[x].slot = s
Vacant(i, s) == \A x \in DOMAIN cont : ~(cont[x].inst = i /\ cont[x].slot = s)
RunsAs(i, d) == \E x \in DOMAIN cont : Held(x, i, "main") /\ cont[x].def = d

\* `existing` has the name and another definition; the new one is not yet
\* accepted; the old one, if there was one, is parked.
Outdated(t) == Held(t.old, t.inst, "main") /\ cont[t.old].def # t.def
Candidate(t, s) == Held(t.new, t.inst, s) /\ cont[t.new].def = t.def /\ ~cont[t.new].accepted
Parked(t) == IF t.old = None THEN Vacant(t.inst, "old") ELSE Held(t.old, t.inst, "old")

Shape(t) ==
  LET i == t.inst IN
  /\ t.pc \in FastLabels => Held(t.old, i, "main") /\ cont[t.old].def = t.def
  /\ t.pc \in SweepLabels => IF t.old = None THEN Vacant(i, "main") ELSE Outdated(t)
  /\ t.pc = "dropNew" => Held(t.new, i, "new")
  /\ t.pc \in {"findOld", "dropOld", "create"} => Vacant(i, "new")
  /\ t.pc = "dropOld" => Held(t.new, i, "old")
  /\ t.pc = "create" => Vacant(i, "old")
  /\ t.pc \in BuiltLabels => Candidate(t, "new") /\ Outdated(t) /\ Vacant(i, "old")
  /\ t.pc = "promote" => Candidate(t, "new") /\ Vacant(i, "main") /\ Parked(t)
  /\ t.pc \in {"start", "wait"} => Candidate(t, "main") /\ Vacant(i, "new") /\ Parked(t)
  /\ t.pc = "retire" =>
       /\ Held(t.new, i, "main") /\ cont[t.new].def = t.def /\ cont[t.new].accepted
       /\ Vacant(i, "new") /\ Held(t.old, i, "old")
  /\ t.pc = "discard" =>
       /\ Parked(t)
       /\ \/ Candidate(t, "new") /\ Vacant(i, "main")
          \/ Candidate(t, "main") /\ Vacant(i, "new")
  /\ t.pc = "unpark" => Vacant(i, "new") /\ Vacant(i, "main") /\ Held(t.old, i, "old")
  /\ t.pc = "revive" => Vacant(i, "new") /\ Vacant(i, "old") /\ Held(t.old, i, "main")
  /\ t.pc = "rmDrop" => Held(t.old, i, "main")
  /\ t.pc \in AfterDrop \/ (t.pc = "returned" /\ t.op = "delete") => Vacant(i, "main")
  /\ t.pc = "verify" \/ (t.pc = "returned" /\ t.op # "delete") => RunsAs(i, t.def)

\* What it knows of the store and of the lists.
Stored(t) ==
  /\ t.pc \in AfterLook \cup {"look", "verify"} \/ (t.pc = "returned" /\ t.op # "delete") =>
       yaml[t.inst] = t.def
  /\ t.pc = "putWrite" => yaml[t.inst] # None
  /\ t.op = "reconcile" => \A i \in Instances : t.todo[i] # None => yaml[i] = t.todo[i]
Listed(t) == t.pc \in AfterLook => lists[t.inst] # "absent"

\* Which requests have which labels.
ThreadTask(t) ==
  /\ t.pc \notin {"lcFind", "lcAct"} /\ t.op \notin LoopOps
  /\ t.pc = "idle" <=> t.op = "none"
  /\ t.op = "delete" => t.pc \in RemoveLabels \cup {"returned", "raised"}
  /\ t.pc \in RemoveLabels => t.op = "delete"
  /\ t.pc \in {"note", "verify"} => t.op \in {"update", "updateAll"} /\ ~t.undo
  /\ t.pc \in {"put", "putWrite"} => t.op # "reconcile"
LoopTask(t) ==
  /\ t.pc \in {"idle", "lcFind", "lcAct", "returned", "raised"}
  /\ t.op \in LoopOps \cup {"none"}
  /\ t.pc = "idle" <=> t.op = "none"

UniqueNames ==
  \A x, y \in DOMAIN cont :
    cont[x].inst = cont[y].inst /\ cont[x].slot = cont[y].slot => x = y

Serial ==
  /\ Inv
  /\ UniqueNames
  /\ MountsNeverDangle
  /\ LoopTask(task[Loop])
  /\ \A w \in Threads :
       /\ ThreadTask(task[w])
       /\ Shape(task[w]) /\ Stored(task[w]) /\ Listed(task[w])

-----------------------------------------------------------------------------
(* Tools.                                                                  *)

LEMMA LoopWorker == Loop \in Workers /\ \A w \in Threads : w \in Workers /\ w # Loop
BY WorkersAssumption DEF Workers

LEMMA GotoFields ==
  ASSUME Inv, NEW w \in Workers, NEW l, Goto(w, l)
  PROVE  /\ task'[w].pc = l /\ task'[w].op = task[w].op /\ task'[w].undo = task[w].undo
         /\ task'[w].keep = task[w].keep /\ task'[w].inst = task[w].inst
         /\ task'[w].def = task[w].def /\ task'[w].base = task[w].base
         /\ task'[w].goal = task[w].goal /\ task'[w].old = task[w].old
         /\ task'[w].new = task[w].new /\ task'[w].todo = task[w].todo
         /\ task'[w].failed = task[w].failed
         /\ \A v \in Workers \ {w} : task'[v] = task[v]
BY DEF Inv, TypeOK, DockerTypeOK, Goto, Task

\* A busy thread: its record, its instance and its op.
LEMMA Busy ==
  ASSUME Serial, NEW w \in Threads, task[w].pc \notin {"idle", "next"}
  PROVE  /\ w \in Workers /\ w # Loop /\ task[w] \in Task /\ task[w].inst \in Instances
         /\ task[w].op \notin {"none"} \cup LoopOps
         /\ None \notin DOMAIN cont
         /\ ThreadTask(task[w]) /\ Shape(task[w]) /\ Stored(task[w]) /\ Listed(task[w])
BY NoneAssumption, WorkersAssumption
   DEF Serial, Inv, TypeOK, DockerTypeOK, EngineTypeOK, WellFormed, ThreadTask, Workers

\* What a step leaves as it is: an instance's definition, lists and containers.
Untouched(i) ==
  /\ yaml'[i] = yaml[i] /\ lists'[i] = lists[i]
  /\ \A x \in DOMAIN cont : cont[x].inst = i => x \in DOMAIN cont' /\ cont'[x] = cont[x]
  /\ \A x \in DOMAIN cont' : cont'[x].inst = i => x \in DOMAIN cont /\ cont[x].inst = i

\* A step of w touches nothing another thread has claimed.
Alone(w) ==
  \A v \in Threads \ {w} : task'[v] = task[v] /\ \A i \in Claims(v) : Untouched(i)

LEMMA UntouchedShape ==
  ASSUME NEW t, Shape(t), Untouched(t.inst) PROVE Shape(t)'
<1>1. \A x, s : Held(x, t.inst, s) => Held(x, t.inst, s)' /\ cont'[x] = cont[x]
  BY DEF Untouched, Held
<1>2. \A s : Vacant(t.inst, s) => Vacant(t.inst, s)'
  BY DEF Untouched, Vacant
<1>3. \A d : RunsAs(t.inst, d) => RunsAs(t.inst, d)'
  BY <1>1 DEF RunsAs, Held
<1>4. (Outdated(t) => Outdated(t)') /\ (Parked(t) => Parked(t)')
      /\ \A s : Candidate(t, s) => Candidate(t, s)'
  BY <1>1, <1>2 DEF Outdated, Parked, Candidate
<1> QED BY <1>1, <1>2, <1>3, <1>4 DEF Shape

\* A thread that nobody touches goes on from where it was.
LEMMA Bystander ==
  ASSUME Serial, NEW v \in Threads, task'[v] = task[v], \A i \in Claims(v) : Untouched(i)
  PROVE  (ThreadTask(task[v]) /\ Shape(task[v]) /\ Stored(task[v]) /\ Listed(task[v]))'
<1> USE DEF AfterLook, FastLabels, SweepLabels, BuiltLabels, SwapLabels
<1> DEFINE t == task[v]
<1>1. ThreadTask(t) /\ Shape(t) /\ Stored(t) /\ Listed(t)
  BY DEF Serial
<1>2. CASE t.pc = "idle"
  <2>1. t.op = "none"
    BY <1>1, <1>2 DEF ThreadTask
  <2> QED BY <1>1, <1>2, <2>1 DEF ThreadTask, Shape, Stored, Listed, AfterDrop
<1>3. ASSUME t.pc # "idle", t.op = "reconcile", NEW i \in Instances, t.todo[i] # None
      PROVE  yaml'[i] = t.todo[i]
  <2>1. i \in Claims(v)
    BY <1>3 DEF Claims, Free, Pending
  <2> QED BY <1>1, <1>3, <2>1 DEF Stored, Untouched
<1>4. CASE t.pc = "next"
  BY <1>1, <1>3, <1>4 DEF ThreadTask, Shape, Stored, Listed, AfterDrop
<1>5. CASE t.pc \notin {"idle", "next"}
  <2>1. Untouched(t.inst)
    BY <1>5, Busy DEF Claims, Free, Inst
  <2>2. Shape(t)'
    BY <1>1, <2>1, UntouchedShape
  <2> QED BY <1>1, <1>3, <1>5, <2>1, <2>2 DEF ThreadTask, Stored, Listed, Untouched
<1> QED BY <1>2, <1>4, <1>5

\* A step of w that re-establishes its own part re-establishes the whole.
LEMMA SerialStep ==
  ASSUME Serial, Inv', NEW w \in Threads, Alone(w), task'[Loop] = task[Loop],
         UniqueNames', MountsNeverDangle',
         ThreadTask(task[w])', Shape(task[w])', Stored(task[w])', Listed(task[w])'
  PROVE  Serial'
<1>1. ASSUME NEW v \in Threads
      PROVE  (ThreadTask(task[v]) /\ Shape(task[v]) /\ Stored(task[v]) /\ Listed(task[v]))'
  BY <1>1, Bystander DEF Alone
<1> QED BY <1>1 DEF Serial

\* Containers keep their instances, names, definitions and gates.
Mild ==
  /\ DOMAIN cont' = DOMAIN cont
  /\ \A x \in DOMAIN cont :
       /\ cont'[x].inst = cont[x].inst /\ cont'[x].slot = cont[x].slot
       /\ cont'[x].def = cont[x].def /\ cont'[x].accepted = cont[x].accepted

LEMMA UnchangedMild == ASSUME UNCHANGED cont PROVE Mild
BY DEF Mild

LEMMA StartMild == ASSUME Inv, NEW x \in DOMAIN cont, StartContainer(x) PROVE Mild
BY DEF Inv, TypeOK, EngineTypeOK, Container, StartContainer, Started, Mild

LEMMA RestartMild ==
  ASSUME Inv, NEW x \in DOMAIN cont, cont' = [cont EXCEPT ![x] = Started(@)] PROVE Mild
BY DEF Inv, TypeOK, EngineTypeOK, Container, Started, Mild

LEMMA StopMild == ASSUME Inv, NEW x \in DOMAIN cont, StopContainer(x) PROVE Mild
BY DEF Inv, TypeOK, EngineTypeOK, Container, StopContainer, Halted, Mild

LEMMA MildNames == ASSUME UniqueNames, Mild PROVE UniqueNames'
BY DEF UniqueNames, Mild

LEMMA MildShape ==
  ASSUME Inv, Mild, NEW t, Shape(t) PROVE Shape(t)'
<1>1. \A x, i, s : Held(x, i, s)' <=> Held(x, i, s)
  BY DEF Mild, Held
<1>2. \A i, s : Vacant(i, s)' <=> Vacant(i, s)
  BY DEF Mild, Vacant
<1>3. \A i, d : RunsAs(i, d) => RunsAs(i, d)'
  BY <1>1 DEF Mild, RunsAs, Held
<1>4. (Outdated(t) => Outdated(t)') /\ (Parked(t) => Parked(t)')
      /\ \A s : Candidate(t, s) => Candidate(t, s)'
  BY <1>1, <1>2 DEF Mild, Outdated, Parked, Candidate, Held
<1>5. \A x, i, s : Held(x, i, s) => cont'[x].def = cont[x].def /\ cont'[x].accepted = cont[x].accepted
  BY DEF Mild, Held
<1> QED BY <1>1, <1>2, <1>3, <1>4, <1>5 DEF Shape

\* A step outside the threads that renames and stores nothing.
LEMMA MildStep ==
  ASSUME Serial, Inv', Mild, UNCHANGED yaml, \A w \in Threads : task'[w] = task[w],
         LoopTask(task[Loop])',
         \A i \in Instances : lists'[i] = "absent" => lists[i] = "absent"
  PROVE  Serial'
<1>1. UniqueNames'
  BY MildNames DEF Serial
<1>2. MountsNeverDangle'
  BY DEF Serial, MountsNeverDangle, Mild, Inv, TypeOK, EngineTypeOK, Container
<1>3. ASSUME NEW w \in Threads
      PROVE  (ThreadTask(task[w]) /\ Shape(task[w]) /\ Stored(task[w]) /\ Listed(task[w]))'
  <2>1. Shape(task[w])'
    BY MildShape DEF Serial
  <2>2. ThreadTask(task[w])' /\ Stored(task[w])'
    BY DEF Serial, Stored, ThreadTask
  <2>3. task[w].pc \in AfterLook => task[w].inst \in Instances
    BY DEF Serial, Inv, WellFormed, Workers, AfterLook, FastLabels, SweepLabels, BuiltLabels, SwapLabels
  <2> QED BY <2>1, <2>2, <2>3 DEF Serial, Listed
<1> QED BY <1>1, <1>2, <1>3 DEF Serial

-----------------------------------------------------------------------------
(* The calls of the Engine, when the container is where the task thinks.   *)

LEMMA RemoveEffect ==
  ASSUME Serial, NEW x, RemoveContainer(x), UNCHANGED lists
  PROVE  /\ DOMAIN cont' = DOMAIN cont \ {x}
         /\ \A y \in DOMAIN cont' : cont'[y] = cont[y]
         /\ UniqueNames' /\ MountsNeverDangle'
<1>1. DOMAIN cont' = DOMAIN cont \ {x} /\ \A y \in DOMAIN cont' : cont'[y] = cont[y]
  BY DEF RemoveContainer
<1> QED BY <1>1 DEF Serial, UniqueNames, MountsNeverDangle

LEMMA RenameEffect ==
  ASSUME Serial, NEW x, NEW i, NEW s, RenameTo(x, s), x \in DOMAIN cont, cont[x].inst = i,
         Vacant(i, s), s = "main" => lists[i] # "absent", UNCHANGED lists
  PROVE  /\ DOMAIN cont' = DOMAIN cont
         /\ \A y \in DOMAIN cont \ {x} : cont'[y] = cont[y]
         /\ cont'[x].slot = s /\ cont'[x].inst = i
         /\ cont'[x].def = cont[x].def /\ cont'[x].accepted = cont[x].accepted
         /\ UniqueNames' /\ MountsNeverDangle'
<1>1. /\ DOMAIN cont' = DOMAIN cont
      /\ \A y \in DOMAIN cont \ {x} : cont'[y] = cont[y]
      /\ cont'[x].slot = s /\ cont'[x].inst = i
      /\ cont'[x].def = cont[x].def /\ cont'[x].accepted = cont[x].accepted
  BY DEF RenameTo, Serial, Inv, TypeOK, EngineTypeOK, Container
<1>2. UniqueNames'
  BY <1>1 DEF Serial, UniqueNames, Vacant
<1>3. MountsNeverDangle'
  BY <1>1 DEF Serial, MountsNeverDangle
<1> QED BY <1>1, <1>2, <1>3

LEMMA MildEffect ==
  ASSUME Serial, Mild, UNCHANGED lists PROVE UniqueNames' /\ MountsNeverDangle'
BY MildNames DEF Serial, Mild, MountsNeverDangle

\* Within ensure_running the store and the lists stay what they are.
LEMMA EnsureGoto ==
  ASSUME Serial, NEW w \in Threads, task[w].pc \in AfterLook,
         NEW l \in AfterLook \cup {"returned", "raised"}, Goto(w, l), UNCHANGED <<yaml, lists>>
  PROVE  /\ ThreadTask(task[w])' /\ Stored(task[w])' /\ Listed(task[w])'
         /\ task'[Loop] = task[Loop] /\ task[w].op # "delete"
<1> USE DEF AfterLook, FastLabels, SweepLabels, BuiltLabels, SwapLabels
<1>1. task[w].pc \notin {"idle", "next"}
  OBVIOUS
<1>2. /\ task'[w].pc = l /\ task'[w].op = task[w].op /\ task'[w].inst = task[w].inst
      /\ task'[w].def = task[w].def /\ task'[w].todo = task[w].todo
      /\ \A v \in Workers \ {w} : task'[v] = task[v]
  BY <1>1, Busy, GotoFields DEF Serial
<1>3. ThreadTask(task[w]) /\ Stored(task[w]) /\ Listed(task[w]) /\ task[w].op # "none"
  BY <1>1, Busy
<1>4. task[w].op # "delete" /\ task[w].pc \notin RemoveLabels
  BY <1>3 DEF ThreadTask, RemoveLabels
<1>5. ThreadTask(task[w])'
  BY <1>2, <1>3, <1>4 DEF ThreadTask, RemoveLabels
<1>6. Stored(task[w])'
  BY <1>2, <1>3 DEF Stored
<1>7. Listed(task[w])'
  BY <1>2, <1>3 DEF Listed
<1>8. Loop \in Workers \ {w}
  BY WorkersAssumption DEF Workers
<1> QED BY <1>2, <1>4, <1>5, <1>6, <1>7, <1>8

\* A step of ensure_running: what is left to show is the shape.
LEMMA EnsureSerial ==
  ASSUME Serial, Inv', NEW w \in Threads, Alone(w), task[w].pc \in AfterLook,
         NEW l \in AfterLook \cup {"returned", "raised"}, Goto(w, l), UNCHANGED <<yaml, lists>>,
         UniqueNames', MountsNeverDangle', Shape(task[w])'
  PROVE  Serial'
BY EnsureGoto, SerialStep

LEMMA FailedSerial ==
  ASSUME Serial, Inv', NEW w \in Threads, Alone(w), task[w].pc \in AfterLook,
         Goto(w, "raised"), UNCHANGED <<cont, yaml, lists>>
  PROVE  Serial'
<1>1. task'[w].pc = "raised"
  BY GotoFields DEF Serial, Workers
<1>2. Shape(task[w])'
  BY <1>1 DEF Shape, FastLabels, SweepLabels, BuiltLabels, SwapLabels, AfterDrop
<1> QED BY <1>2, UnchangedMild, MildEffect, EnsureSerial

-----------------------------------------------------------------------------
(* The steps of ensure_running.                                            *)

LEMMA LookupSlot ==
  ASSUME NEW i, NEW s, NEW x \in Lookup(i, s), None \notin DOMAIN cont
  PROVE  IF x = None THEN Vacant(i, s) ELSE Held(x, i, s)
BY DEF Lookup, Named, Vacant, Held

LEMMA LookSerial ==
  ASSUME Serial, Inv', NEW w \in Threads, Alone(w), Look(w), UNCHANGED storeVars
  PROVE  Serial'
<1> USE DEF AfterLook, FastLabels, SweepLabels, BuiltLabels, SwapLabels
<1> DEFINE i == task[w].inst
<1>1. /\ task[w].pc = "look" /\ UNCHANGED <<cont, yaml>>
      /\ lists' = [lists EXCEPT ![i] = IF @ = "absent" THEN "empty" ELSE @]
  BY DEF Look, At, Inst, storeVars
<1>2. /\ i \in Instances /\ w \in Workers /\ w # Loop /\ task[w] \in Task /\ None \notin DOMAIN cont
      /\ task[w].op # "none" /\ ThreadTask(task[w]) /\ Stored(task[w])
  BY <1>1, Busy
<1>3. PICK x \in Lookup(i, "main") :
        task' = [task EXCEPT ![w].old = x, ![w].new = None,
                   ![w].pc = IF x # None /\ cont[x].def = task[w].def
                             THEN "fast" ELSE "findNew"]
  BY DEF Look, Inst
<1>4. /\ task'[w].pc = IF x # None /\ cont[x].def = task[w].def THEN "fast" ELSE "findNew"
      /\ task'[w].old = x /\ task'[w].inst = i /\ task'[w].op = task[w].op
      /\ task'[w].def = task[w].def /\ task'[w].undo = task[w].undo
      /\ task'[w].todo = task[w].todo
      /\ task'[Loop] = task[Loop]
  BY <1>2, <1>3 DEF Serial, Inv, TypeOK, DockerTypeOK, Task, Workers
<1>5. IF x = None THEN Vacant(i, "main") ELSE Held(x, i, "main")
  BY <1>2, LookupSlot
<1>6. ThreadTask(task[w])'
  BY <1>1, <1>2, <1>4 DEF ThreadTask, RemoveLabels
<1>7. Shape(task[w])'
  BY <1>1, <1>4, <1>5 DEF Shape, Outdated, Held, Vacant, AfterDrop
<1>8. Stored(task[w])'
  BY <1>1, <1>2, <1>4 DEF Stored
<1>9. \A j \in Instances : lists'[j] = "absent" => lists[j] = "absent" /\ j # i
  BY <1>1, <1>2 DEF Serial, Inv, TypeOK, DockerTypeOK
<1>10. Listed(task[w])' /\ UniqueNames' /\ MountsNeverDangle'
  BY <1>1, <1>2, <1>4, <1>9
     DEF Listed, Serial, UniqueNames, MountsNeverDangle, Inv, TypeOK, EngineTypeOK, Container
<1> QED BY <1>4, <1>6, <1>7, <1>8, <1>10, SerialStep

LEMMA FastSerial ==
  ASSUME Serial, Inv', NEW w \in Threads, Alone(w), Fast(w), UNCHANGED storeVars
  PROVE  Serial'
<1> USE DEF AfterLook, FastLabels, SweepLabels, BuiltLabels, SwapLabels
<1>1. task[w].pc = "fast" /\ UNCHANGED <<cont, yaml, lists>>
  BY DEF Fast, At, storeVars
<1>2. w \in Workers /\ Shape(task[w])
  BY <1>1, Busy
<1>3. PICK l \in {"returned", "fastStart"} : Goto(w, l)
  BY <1>1, <1>2 DEF Fast, Shape, Held, Exists
<1>4. task'[w].pc = l /\ task'[w].inst = task[w].inst /\ task'[w].def = task[w].def
      /\ task'[w].old = task[w].old /\ task'[w].op = task[w].op
  BY <1>2, <1>3, GotoFields DEF Serial
<1>5. Shape(task[w])'
  <2>1. task[w].op # "delete"
    BY <1>1, Busy DEF ThreadTask, RemoveLabels
  <2> QED BY <1>1, <1>2, <1>4, <2>1 DEF Shape, Held, RunsAs, AfterDrop
<1> QED BY <1>1, <1>3, <1>5, UnchangedMild, MildEffect, EnsureSerial

LEMMA FastStartSerial ==
  ASSUME Serial, Inv', NEW w \in Threads, Alone(w), FastStart(w), UNCHANGED storeVars
  PROVE  Serial'
<1> USE DEF AfterLook, FastLabels, SweepLabels, BuiltLabels, SwapLabels
<1> DEFINE x == task[w].old
<1>1. task[w].pc = "fastStart" /\ UNCHANGED <<yaml, lists>>
      /\ Call(w, CanStart(x), StartContainer(x), "returned")
  BY DEF FastStart, At, storeVars
<1>2. w \in Workers /\ Shape(task[w]) /\ task[w].op # "delete"
  BY <1>1, Busy DEF ThreadTask, RemoveLabels
<1>3. Held(x, task[w].inst, "main") /\ cont[x].def = task[w].def
  BY <1>1, <1>2 DEF Shape
<1>4. CASE CanStart(x)
  <2>1. StartContainer(x) /\ Goto(w, "returned")
    BY <1>1, <1>4 DEF Call
  <2>2. Mild
    BY <1>3, <2>1, StartMild DEF Held, Serial
  <2>3. task'[w].pc = "returned" /\ task'[w].inst = task[w].inst /\ task'[w].def = task[w].def
        /\ task'[w].op = task[w].op
    BY <1>2, <2>1, GotoFields DEF Serial
  <2>4. Shape(task[w])'
    BY <1>2, <1>3, <2>2, <2>3 DEF Shape, Held, RunsAs, AfterDrop, Mild
  <2> QED BY <1>1, <2>1, <2>2, <2>4, MildEffect, EnsureSerial
<1>5. CASE ~CanStart(x)
  <2>1. Goto(w, "raised") /\ UNCHANGED cont
    BY <1>1, <1>5 DEF Call, Handler
  <2> QED BY <1>1, <2>1, FailedSerial
<1> QED BY <1>4, <1>5

\* The names after a removal and after a rename.
LEMMA RemovedNames ==
  ASSUME Serial, NEW x, RemoveContainer(x), UNCHANGED lists
  PROVE  /\ UniqueNames' /\ MountsNeverDangle'
         /\ \A y, i, s : Held(y, i, s) /\ y # x => Held(y, i, s)' /\ cont'[y] = cont[y]
         /\ \A i, s : Vacant(i, s) => Vacant(i, s)'
         /\ \A i, s : Held(x, i, s) => Vacant(i, s)'
<1>1. /\ DOMAIN cont' = DOMAIN cont \ {x}
      /\ \A y \in DOMAIN cont' : cont'[y] = cont[y]
      /\ UniqueNames' /\ MountsNeverDangle'
  BY RemoveEffect
<1>2. \A y, i, s : Held(y, i, s) /\ y # x => Held(y, i, s)' /\ cont'[y] = cont[y]
  BY <1>1 DEF Held
<1>3. \A i, s : Vacant(i, s) => Vacant(i, s)'
  BY <1>1 DEF Vacant
<1>4. \A i, s : Held(x, i, s) => Vacant(i, s)'
  BY <1>1 DEF Held, Vacant, Serial, UniqueNames
<1> QED BY <1>1, <1>2, <1>3, <1>4

LEMMA RenamedNames ==
  ASSUME Serial, NEW x, NEW i, NEW r, NEW s, r # s, Held(x, i, r), Vacant(i, s), RenameTo(x, s),
         s = "main" => lists[i] # "absent", UNCHANGED lists
  PROVE  /\ UniqueNames' /\ MountsNeverDangle'
         /\ Held(x, i, s)' /\ Vacant(i, r)'
         /\ cont'[x].def = cont[x].def /\ cont'[x].accepted = cont[x].accepted
         /\ \A y : y # x => cont'[y] = cont[y]
         /\ \A y, j, q : Held(y, j, q) /\ y # x => Held(y, j, q)'
         /\ \A q : Vacant(i, q) /\ q # s => Vacant(i, q)'
<1>1. x \in DOMAIN cont /\ cont[x].inst = i /\ cont[x].slot = r
  BY DEF Held
<1>2. /\ DOMAIN cont' = DOMAIN cont
      /\ \A y \in DOMAIN cont \ {x} : cont'[y] = cont[y]
      /\ cont'[x].slot = s /\ cont'[x].inst = i
      /\ cont'[x].def = cont[x].def /\ cont'[x].accepted = cont[x].accepted
      /\ UniqueNames' /\ MountsNeverDangle'
  BY <1>1, RenameEffect
<1>3. \A y : y # x => cont'[y] = cont[y]
  BY DEF RenameTo
<1>4. Held(x, i, s)' /\ \A y, j, q : Held(y, j, q) /\ y # x => Held(y, j, q)'
  BY <1>1, <1>2 DEF Held
<1>5. Vacant(i, r)'
  BY <1>1, <1>2 DEF Vacant, Serial, UniqueNames
<1>6. \A q : Vacant(i, q) /\ q # s => Vacant(i, q)'
  BY <1>1, <1>2 DEF Vacant
<1> QED BY <1>2, <1>3, <1>4, <1>5, <1>6

LEMMA FindStaleSerial ==
  ASSUME Serial, Inv', NEW w \in Threads, Alone(w), UNCHANGED storeVars,
         NEW l \in {"findNew", "findOld"}, NEW s, NEW drop, NEW l2,
         \/ l = "findNew" /\ s = "new" /\ drop = "dropNew" /\ l2 = "findOld"
         \/ l = "findOld" /\ s = "old" /\ drop = "dropOld" /\ l2 = "create",
         FindStale(w, l, s, drop, l2)
  PROVE  Serial'
<1> USE DEF AfterLook, FastLabels, SweepLabels, BuiltLabels, SwapLabels
<1> DEFINE i == task[w].inst
<1>1. task[w].pc = l /\ UNCHANGED <<cont, yaml, lists>>
  BY DEF FindStale, At, storeVars
<1>2. /\ i \in Instances /\ w \in Workers /\ w # Loop /\ task[w] \in Task /\ None \notin DOMAIN cont
      /\ task[w].op # "none" /\ ThreadTask(task[w]) /\ Shape(task[w])
      /\ Stored(task[w]) /\ Listed(task[w])
  BY <1>1, Busy
<1>3. PICK x \in Lookup(i, s) :
        task' = [task EXCEPT ![w].new = x, ![w].pc = IF x = None THEN l2 ELSE drop]
  BY DEF FindStale, Inst
<1>4. /\ task'[w].pc = IF x = None THEN l2 ELSE drop
      /\ task'[w].new = x /\ task'[w].old = task[w].old
      /\ task'[w].inst = i /\ task'[w].op = task[w].op
      /\ task'[w].def = task[w].def /\ task'[w].undo = task[w].undo
      /\ task'[w].todo = task[w].todo
      /\ task'[Loop] = task[Loop]
  BY <1>2, <1>3 DEF Serial, Inv, TypeOK, DockerTypeOK, Task, Workers
<1>5. IF x = None THEN Vacant(i, s) ELSE Held(x, i, s)
  BY <1>2, LookupSlot
<1>6. ThreadTask(task[w])' /\ Stored(task[w])' /\ Listed(task[w])'
  BY <1>1, <1>2, <1>4 DEF ThreadTask, RemoveLabels, Stored, Listed
<1>7. Shape(task[w])'
  BY <1>1, <1>2, <1>4, <1>5 DEF Shape, Outdated, Held, Vacant, AfterDrop
<1> QED BY <1>1, <1>4, <1>6, <1>7, UnchangedMild, MildEffect, SerialStep

LEMMA DropSerial ==
  ASSUME Serial, Inv', NEW w \in Threads, Alone(w), UNCHANGED storeVars,
         NEW d \in {"dropNew", "dropOld"}, NEW l \in {"findOld", "create"},
         NEW s \in {"new", "old"},
         \/ d = "dropNew" /\ l = "findOld" /\ s = "new"
         \/ d = "dropOld" /\ l = "create" /\ s = "old",
         Remove(w, d, task[w].new, l)
  PROVE  Serial'
<1> USE DEF AfterLook, FastLabels, SweepLabels, BuiltLabels, SwapLabels
<1>0. PICK x, i, o : x = task[w].new /\ i = task[w].inst /\ o = task[w].old
  OBVIOUS
<1>1. task[w].pc = d /\ (Exists(x) => RemoveContainer(x) /\ Goto(w, l))
  BY <1>0 DEF Remove, At, Call, Exists, RemoveContainer
<1>2. UNCHANGED <<yaml, lists>> /\ w \in Workers /\ Shape(task[w]) /\ task[w].op # "delete"
  BY <1>1, Busy DEF Remove, storeVars, ThreadTask, RemoveLabels
<1>3. Held(x, i, s)
  BY <1>0, <1>1, <1>2 DEF Shape
<1>4. RemoveContainer(x) /\ Goto(w, l)
  BY <1>1, <1>3 DEF Exists, Held
<1>5. task'[w].pc = l /\ task'[w].inst = i /\ task'[w].def = task[w].def
      /\ task'[w].old = o /\ task'[w].op = task[w].op
  BY <1>0, <1>2, <1>4, GotoFields DEF Serial
<1>6. /\ UniqueNames' /\ MountsNeverDangle'
      /\ \A y, j, q : Held(y, j, q) /\ y # x => Held(y, j, q)' /\ cont'[y] = cont[y]
      /\ \A j, q : Vacant(j, q) => Vacant(j, q)'
      /\ \A j, q : Held(x, j, q) => Vacant(j, q)'
  BY <1>2, <1>4, RemovedNames
<1>7. IF o = None THEN Vacant(i, "main")
      ELSE Held(o, i, "main") /\ cont[o].def # task[w].def /\ o # x
  BY <1>0, <1>1, <1>2, <1>3 DEF Shape, Outdated, Held
<1>8. IF o = None THEN Vacant(i, "main")' ELSE Outdated(task[w])'
  BY <1>5, <1>6, <1>7 DEF Outdated
<1>9. Vacant(i, "new")' /\ (l = "create" => Vacant(i, "old")')
  BY <1>0, <1>1, <1>2, <1>3, <1>6 DEF Shape
<1>10. Shape(task[w])'
  BY <1>5, <1>8, <1>9 DEF Shape, AfterDrop
<1> QED BY <1>1, <1>2, <1>4, <1>6, <1>10, EnsureSerial

LEMMA CreateSerial ==
  ASSUME Serial, Inv', NEW w \in Threads, Alone(w), Create(w), UNCHANGED storeVars
  PROVE  Serial'
<1> USE DEF AfterLook, FastLabels, SweepLabels, BuiltLabels, SwapLabels
<1>0. PICK i, o, d : i = task[w].inst /\ o = task[w].old /\ d = task[w].def
  OBVIOUS
<1>1. task[w].pc = "create" /\ UNCHANGED <<yaml, lists>>
  BY DEF Create, At, storeVars
<1>2. /\ i \in Instances /\ w \in Workers /\ w # Loop /\ task[w] \in Task /\ None \notin DOMAIN cont
      /\ task[w].op # "none" /\ task[w].op # "delete" /\ ThreadTask(task[w]) /\ Shape(task[w])
      /\ Stored(task[w]) /\ Listed(task[w])
  BY <1>0, <1>1, Busy DEF ThreadTask, RemoveLabels
<1>3. /\ Vacant(i, "new") /\ Vacant(i, "old")
      /\ IF o = None THEN Vacant(i, "main") ELSE Held(o, i, "main") /\ cont[o].def # d
  BY <1>0, <1>1, <1>2 DEF Shape, Outdated
<1>4. PICK x \in Pick(FreshIds) :
        /\ cont' = [y \in DOMAIN cont \cup {x} |-> IF y = x THEN New(i, d) ELSE cont[y]]
        /\ task' = [task EXCEPT ![w].new = x,
                      ![w].pc = IF task[w].old = None THEN "promote" ELSE "stop"]
  <2>1. Named(i, "new") = {}
    BY <1>3 DEF Named, Vacant
  <2> QED BY <1>0, <2>1 DEF Create, CreateOn, Inst
<1>5. x \notin DOMAIN cont
  <2>1. FreshIds \in SUBSET Ids
    BY DEF FreshIds
  <2> QED BY <2>1, PickAssumption DEF FreshIds
<1>6. /\ DOMAIN cont' = DOMAIN cont \cup {x} /\ \A y \in DOMAIN cont : cont'[y] = cont[y]
      /\ cont'[x].inst = i /\ cont'[x].slot = "new" /\ cont'[x].def = d /\ ~cont'[x].accepted
  BY <1>4, <1>5 DEF New
<1>7. /\ task'[w].pc = IF o = None THEN "promote" ELSE "stop"
      /\ task'[w].new = x /\ task'[w].old = o
      /\ task'[w].inst = i /\ task'[w].op = task[w].op
      /\ task'[w].def = d /\ task'[w].undo = task[w].undo
      /\ task'[w].todo = task[w].todo
      /\ task'[Loop] = task[Loop]
  BY <1>0, <1>2, <1>4 DEF Serial, Inv, TypeOK, DockerTypeOK, Task, Workers
<1>8. /\ \A y, j, q : Held(y, j, q) => Held(y, j, q)' /\ cont'[y] = cont[y]
      /\ Held(x, i, "new")' /\ Vacant(i, "old")' /\ (Vacant(i, "main") => Vacant(i, "main")')
  BY <1>3, <1>6 DEF Held, Vacant
<1>9. Candidate(task[w], "new")' /\ (o # None => Outdated(task[w])')
  BY <1>3, <1>6, <1>7, <1>8 DEF Candidate, Outdated
<1>10. Shape(task[w])'
  BY <1>3, <1>7, <1>8, <1>9 DEF Shape, AfterDrop, Parked
<1>11. ThreadTask(task[w])' /\ Stored(task[w])' /\ Listed(task[w])'
  BY <1>0, <1>1, <1>2, <1>7 DEF ThreadTask, RemoveLabels, Stored, Listed
<1>12. UniqueNames' /\ MountsNeverDangle'
  BY <1>1, <1>3, <1>6 DEF Serial, UniqueNames, MountsNeverDangle, Vacant
<1> QED BY <1>7, <1>10, <1>11, <1>12, SerialStep

LEMMA StopOldSerial ==
  ASSUME Serial, Inv', NEW w \in Threads, Alone(w), StopOld(w), UNCHANGED storeVars
  PROVE  Serial'
<1> USE DEF AfterLook, FastLabels, SweepLabels, BuiltLabels, SwapLabels
<1>1. task[w].pc = "stop" /\ UNCHANGED <<yaml, lists>>
  BY DEF StopOld, At, storeVars
<1>2. w \in Workers /\ Shape(task[w])
  BY <1>1, Busy
<1>3. task[w].old \in DOMAIN cont
  BY <1>1, <1>2 DEF Shape, Outdated, Held
<1>4. StopContainer(task[w].old) /\ Goto(w, "park")
  BY <1>3 DEF StopOld, Call, Exists
<1>5. Mild
  BY <1>3, <1>4, StopMild DEF Serial
<1>6. task'[w].pc = "park" /\ task'[w].inst = task[w].inst /\ task'[w].def = task[w].def
      /\ task'[w].old = task[w].old /\ task'[w].new = task[w].new
  BY <1>2, <1>4, GotoFields DEF Serial
<1>7. Shape(task[w])'
  BY <1>1, <1>2, <1>5, <1>6 DEF Shape, Candidate, Outdated, Held, Vacant, AfterDrop, Mild
<1> QED BY <1>1, <1>4, <1>5, <1>7, MildEffect, EnsureSerial

LEMMA ParkSerial ==
  ASSUME Serial, Inv', NEW w \in Threads, Alone(w), Park(w), UNCHANGED storeVars
  PROVE  Serial'
<1> USE DEF AfterLook, FastLabels, SweepLabels, BuiltLabels, SwapLabels
<1>0. PICK i, o, x, d : i = task[w].inst /\ o = task[w].old /\ x = task[w].new /\ d = task[w].def
  OBVIOUS
<1>1. task[w].pc = "park" /\ UNCHANGED <<yaml, lists>>
      /\ (CanRename(o, "old") => RenameTo(o, "old") /\ Goto(w, "promote"))
  BY <1>0 DEF Park, Rename, Call, At, storeVars
<1>2. w \in Workers /\ Shape(task[w]) /\ task[w].old # None
  BY <1>1, Busy DEF Shape, Outdated, Held
<1>3. /\ Held(o, i, "main") /\ Vacant(i, "old")
      /\ Held(x, i, "new") /\ cont[x].def = d /\ ~cont[x].accepted /\ x # o
  BY <1>0, <1>1, <1>2 DEF Shape, Outdated, Candidate, Held
<1>4. RenameTo(o, "old") /\ Goto(w, "promote")
  BY <1>1, <1>3 DEF CanRename, Exists, Held, Vacant, Named
<1>5. /\ UniqueNames' /\ MountsNeverDangle'
      /\ Held(o, i, "old")' /\ Vacant(i, "main")'
      /\ \A y : y # o => cont'[y] = cont[y]
      /\ \A y, j, q : Held(y, j, q) /\ y # o => Held(y, j, q)'
  BY <1>1, <1>3, <1>4, RenamedNames
<1>6. task'[w].pc = "promote" /\ task'[w].inst = i /\ task'[w].def = d
      /\ task'[w].old = o /\ task'[w].new = x
  BY <1>0, <1>2, <1>4, GotoFields DEF Serial
<1>7. Candidate(task[w], "new")' /\ Parked(task[w])'
  BY <1>0, <1>2, <1>3, <1>5, <1>6 DEF Candidate, Parked
<1>8. Shape(task[w])'
  BY <1>5, <1>6, <1>7 DEF Shape, AfterDrop
<1> QED BY <1>1, <1>4, <1>5, <1>8, EnsureSerial

LEMMA SpillSerial ==
  ASSUME Serial, Inv', NEW w \in Threads, Alone(w), Spill(w), UNCHANGED storeVars
  PROVE  Serial'
<1> USE DEF AfterLook, FastLabels, SweepLabels, BuiltLabels, SwapLabels
<1>0. PICK x : x = task[w].new
  OBVIOUS
<1>1. task[w].pc = "spill" /\ UNCHANGED <<yaml, lists>>
      /\ (Exists(x) => RemoveContainer(x) /\ Goto(w, "raised"))
  BY <1>0 DEF Spill, Remove, Call, At, storeVars
<1>2. w \in Workers /\ Shape(task[w])
  BY <1>1, Busy
<1>3. RemoveContainer(x) /\ Goto(w, "raised")
  BY <1>0, <1>1, <1>2 DEF Shape, Candidate, Held, Exists
<1>4. task'[w].pc = "raised"
  BY <1>2, <1>3, GotoFields DEF Serial
<1>5. Shape(task[w])'
  BY <1>4 DEF Shape, AfterDrop
<1> QED BY <1>1, <1>3, <1>5, RemovedNames, EnsureSerial

LEMMA PromoteSerial ==
  ASSUME Serial, Inv', NEW w \in Threads, Alone(w), Promote(w), UNCHANGED storeVars
  PROVE  Serial'
<1> USE DEF AfterLook, FastLabels, SweepLabels, BuiltLabels, SwapLabels
<1>0. PICK i, o, x, d : i = task[w].inst /\ o = task[w].old /\ x = task[w].new /\ d = task[w].def
  OBVIOUS
<1>1. task[w].pc = "promote" /\ UNCHANGED <<yaml, lists>>
      /\ (CanRename(x, "main") => RenameTo(x, "main") /\ Goto(w, "start"))
  BY <1>0 DEF Promote, Rename, Call, At, storeVars
<1>2. w \in Workers /\ Shape(task[w]) /\ lists[i] # "absent"
  BY <1>0, <1>1, Busy DEF Listed
<1>3. /\ Vacant(i, "main") /\ (o = None => Vacant(i, "old")) /\ (o # None => Held(o, i, "old"))
      /\ Held(x, i, "new") /\ cont[x].def = d /\ ~cont[x].accepted
      /\ (o # None => x # o)
  BY <1>0, <1>1, <1>2 DEF Shape, Parked, Candidate, Held
<1>4. RenameTo(x, "main") /\ Goto(w, "start")
  BY <1>1, <1>3 DEF CanRename, Exists, Held, Vacant, Named
<1>5. /\ UniqueNames' /\ MountsNeverDangle'
      /\ Held(x, i, "main")' /\ Vacant(i, "new")'
      /\ cont'[x].def = cont[x].def /\ cont'[x].accepted = cont[x].accepted
      /\ \A y, j, q : Held(y, j, q) /\ y # x => Held(y, j, q)'
      /\ \A q : Vacant(i, q) /\ q # "main" => Vacant(i, q)'
  <2>1. Held(x, i, "new") /\ Vacant(i, "main") /\ RenameTo(x, "main") /\ lists[i] # "absent"
        /\ UNCHANGED lists
    BY <1>1, <1>2, <1>3, <1>4
  <2> QED BY <2>1, RenamedNames
<1>6. task'[w].pc = "start" /\ task'[w].inst = i /\ task'[w].def = d
      /\ task'[w].old = o /\ task'[w].new = x
  BY <1>0, <1>2, <1>4, GotoFields DEF Serial
<1>7. Candidate(task[w], "main")' /\ Parked(task[w])'
  BY <1>0, <1>2, <1>3, <1>5, <1>6 DEF Candidate, Parked
<1>8. Shape(task[w])'
  BY <1>5, <1>6, <1>7 DEF Shape, AfterDrop
<1> QED BY <1>1, <1>4, <1>5, <1>8, EnsureSerial

\* A refused call: the except clauses find what the try block left.
LEMMA HandlerSerial ==
  ASSUME Serial, Inv', NEW w \in Threads, Alone(w), task[w].pc \in AfterLook,
         Goto(w, Handler(task[w].pc)), UNCHANGED <<cont, yaml, lists>>
  PROVE  Serial'
<1> USE DEF AfterLook, FastLabels, SweepLabels, BuiltLabels, SwapLabels
<1>0. PICK l : l = Handler(task[w].pc)
  OBVIOUS
<1>1. w \in Workers /\ Shape(task[w]) /\ Goto(w, l) /\ l \in {"spill", "discard", "raised"}
  BY <1>0, Busy DEF Handler
<1>2. task'[w].pc = l /\ task'[w].inst = task[w].inst /\ task'[w].def = task[w].def
      /\ task'[w].old = task[w].old /\ task'[w].new = task[w].new /\ task'[w].op = task[w].op
  BY <1>1, GotoFields DEF Serial
<1>3. (l = "spill" => task[w].pc \in {"stop", "park"})
      /\ (l = "discard" => task[w].pc \in {"promote", "start", "wait"})
  BY <1>0 DEF Handler
<1>4. /\ Candidate(task[w], "new")' <=> Candidate(task[w], "new")
      /\ Candidate(task[w], "main")' <=> Candidate(task[w], "main")
      /\ Outdated(task[w])' <=> Outdated(task[w])
      /\ Parked(task[w])' <=> Parked(task[w])
      /\ \A i, s : Vacant(i, s)' <=> Vacant(i, s)
  BY <1>2 DEF Candidate, Outdated, Parked, Held, Vacant
<1>5. Shape(task[w])'
  BY <1>1, <1>2, <1>3, <1>4 DEF Shape, AfterDrop
<1> QED BY <1>1, <1>5, UnchangedMild, MildEffect, EnsureSerial

LEMMA StartNewSerial ==
  ASSUME Serial, Inv', NEW w \in Threads, Alone(w), StartNew(w), UNCHANGED storeVars
  PROVE  Serial'
<1> USE DEF AfterLook, FastLabels, SweepLabels, BuiltLabels, SwapLabels
<1>1. task[w].pc = "start" /\ UNCHANGED <<yaml, lists>>
  BY DEF StartNew, At, storeVars
<1>2. w \in Workers /\ Shape(task[w]) /\ task[w].new \in DOMAIN cont
  BY <1>1, Busy DEF Shape, Candidate, Held
<1>3. CASE CanStart(task[w].new)
  <2>1. StartContainer(task[w].new) /\ Goto(w, "wait")
    BY <1>3 DEF StartNew, Call
  <2>2. Mild
    BY <1>2, <2>1, StartMild DEF Serial
  <2>3. task'[w].pc = "wait" /\ task'[w].inst = task[w].inst /\ task'[w].def = task[w].def
        /\ task'[w].old = task[w].old /\ task'[w].new = task[w].new
    BY <1>2, <2>1, GotoFields DEF Serial
  <2>4. Shape(task[w])'
    BY <1>1, <1>2, <2>2, <2>3 DEF Shape, Candidate, Parked, Held, Vacant, AfterDrop, Mild
  <2> QED BY <1>1, <2>1, <2>2, <2>4, MildEffect, EnsureSerial
<1>4. CASE ~CanStart(task[w].new)
  <2>1. Goto(w, Handler(task[w].pc)) /\ UNCHANGED cont
    BY <1>4 DEF StartNew, Call
  <2> QED BY <1>1, <2>1, HandlerSerial
<1> QED BY <1>3, <1>4

LEMMA WaitHealthySerial ==
  ASSUME Serial, Inv', NEW w \in Threads, Alone(w), WaitHealthy(w), UNCHANGED storeVars
  PROVE  Serial'
<1> USE DEF AfterLook, FastLabels, SweepLabels, BuiltLabels, SwapLabels
<1>0. PICK i, o, x, d : i = task[w].inst /\ o = task[w].old /\ x = task[w].new /\ d = task[w].def
  OBVIOUS
<1>1. task[w].pc = "wait" /\ UNCHANGED <<yaml, lists>>
  BY DEF WaitHealthy, At, storeVars
<1>2. w \in Workers /\ Shape(task[w]) /\ task[w].op # "delete"
  BY <1>1, Busy DEF ThreadTask, RemoveLabels
<1>3. /\ Held(x, i, "main") /\ cont[x].def = d /\ Vacant(i, "new")
      /\ (o = None => Vacant(i, "old")) /\ (o # None => Held(o, i, "old"))
  BY <1>0, <1>1, <1>2 DEF Shape, Parked, Candidate
<1>4. CASE cont' = [cont EXCEPT ![x].accepted = TRUE]
           /\ Goto(w, IF task[w].old = None THEN "returned" ELSE "retire")
  <2>1. PICK l : l = (IF o = None THEN "returned" ELSE "retire")
    OBVIOUS
  <2>2. task'[w].pc = l /\ task'[w].inst = i /\ task'[w].def = d
        /\ task'[w].old = o /\ task'[w].new = x /\ task'[w].op = task[w].op
    BY <1>0, <1>2, <1>4, <2>1, GotoFields DEF Serial
  <2>3. /\ DOMAIN cont' = DOMAIN cont /\ cont'[x].accepted
        /\ \A y \in DOMAIN cont : /\ cont'[y].inst = cont[y].inst /\ cont'[y].slot = cont[y].slot
                                  /\ cont'[y].def = cont[y].def
    BY <1>3, <1>4 DEF Serial, Inv, TypeOK, EngineTypeOK, Container, Held
  <2>4. Held(x, i, "main")' /\ cont'[x].def = d /\ Vacant(i, "new")' /\ RunsAs(i, d)'
        /\ (o # None => Held(o, i, "old")')
    BY <1>3, <2>3 DEF Held, Vacant, RunsAs
  <2>5. Shape(task[w])'
    BY <1>2, <2>1, <2>2, <2>3, <2>4 DEF Shape, AfterDrop
  <2>6. UniqueNames' /\ MountsNeverDangle'
    BY <1>1, <2>3 DEF Serial, UniqueNames, MountsNeverDangle
  <2>7. l \in AfterLook \cup {"returned", "raised"} /\ Goto(w, l)
    BY <1>0, <1>4, <2>1
  <2> QED BY <1>1, <2>5, <2>6, <2>7, EnsureSerial
<1>5. CASE Goto(w, "discard") /\ UNCHANGED cont
  BY <1>1, <1>5, HandlerSerial DEF Handler
<1> QED BY <1>0, <1>4, <1>5 DEF WaitHealthy

LEMMA RetireSerial ==
  ASSUME Serial, Inv', NEW w \in Threads, Alone(w), Retire(w), UNCHANGED storeVars
  PROVE  Serial'
<1> USE DEF AfterLook, FastLabels, SweepLabels, BuiltLabels, SwapLabels
<1>0. PICK i, o, x, d : i = task[w].inst /\ o = task[w].old /\ x = task[w].new /\ d = task[w].def
  OBVIOUS
<1>1. task[w].pc = "retire" /\ UNCHANGED <<yaml, lists>>
      /\ (Exists(o) => RemoveContainer(o) /\ Goto(w, "returned"))
  BY <1>0 DEF Retire, Remove, Call, At, storeVars
<1>2. w \in Workers /\ Shape(task[w]) /\ task[w].op # "delete"
  BY <1>1, Busy DEF ThreadTask, RemoveLabels
<1>3. Held(x, i, "main") /\ cont[x].def = d /\ Held(o, i, "old") /\ x # o
  BY <1>0, <1>1, <1>2 DEF Shape, Held
<1>4. RemoveContainer(o) /\ Goto(w, "returned")
  BY <1>1, <1>3 DEF Held, Exists
<1>5. /\ UniqueNames' /\ MountsNeverDangle'
      /\ \A y, j, q : Held(y, j, q) /\ y # o => Held(y, j, q)' /\ cont'[y] = cont[y]
  BY <1>1, <1>4, RemovedNames
<1>6. task'[w].pc = "returned" /\ task'[w].inst = i /\ task'[w].def = d /\ task'[w].op = task[w].op
  BY <1>0, <1>2, <1>4, GotoFields DEF Serial
<1>7. RunsAs(i, d)'
  BY <1>3, <1>5 DEF RunsAs, Held
<1>8. Shape(task[w])'
  BY <1>2, <1>6, <1>7 DEF Shape, AfterDrop
<1> QED BY <1>1, <1>4, <1>5, <1>8, EnsureSerial

LEMMA DiscardSerial ==
  ASSUME Serial, Inv', NEW w \in Threads, Alone(w), Discard(w), UNCHANGED storeVars
  PROVE  Serial'
<1> USE DEF AfterLook, FastLabels, SweepLabels, BuiltLabels, SwapLabels
<1>0. PICK i, o, x : i = task[w].inst /\ o = task[w].old /\ x = task[w].new
  OBVIOUS
<1>a. PICK l : l = (IF o = None THEN "raised" ELSE "unpark")
  OBVIOUS
<1>1. task[w].pc = "discard" /\ UNCHANGED <<yaml, lists>>
      /\ (Exists(x) => RemoveContainer(x) /\ Goto(w, l))
  BY <1>0, <1>a DEF Discard, Remove, Call, At, storeVars
<1>2. w \in Workers /\ Shape(task[w])
  BY <1>1, Busy
<1>3. /\ \/ Held(x, i, "new") /\ Vacant(i, "main")
         \/ Held(x, i, "main") /\ Vacant(i, "new")
      /\ o # None => Held(o, i, "old") /\ x # o
  <2>1. /\ \/ Candidate(task[w], "new") /\ Vacant(i, "main")
           \/ Candidate(task[w], "main") /\ Vacant(i, "new")
        /\ Parked(task[w])
    BY <1>0, <1>1, <1>2 DEF Shape
  <2> QED BY <1>0, <2>1 DEF Candidate, Parked, Held
<1>4. RemoveContainer(x) /\ Goto(w, l)
  BY <1>1, <1>3 DEF Held, Exists
<1>5. /\ UniqueNames' /\ MountsNeverDangle'
      /\ \A y, j, q : Held(y, j, q) /\ y # x => Held(y, j, q)' /\ cont'[y] = cont[y]
      /\ \A j, q : Vacant(j, q) => Vacant(j, q)'
      /\ \A j, q : Held(x, j, q) => Vacant(j, q)'
  BY <1>1, <1>4, RemovedNames
<1>6. task'[w].pc = l /\ task'[w].inst = i /\ task'[w].old = o
  BY <1>0, <1>2, <1>4, GotoFields DEF Serial
<1>7. Vacant(i, "new")' /\ Vacant(i, "main")' /\ (o # None => Held(o, i, "old")')
  BY <1>3, <1>5
<1>8. Shape(task[w])'
  BY <1>a, <1>6, <1>7 DEF Shape, AfterDrop
<1> QED BY <1>a, <1>1, <1>4, <1>5, <1>8, EnsureSerial

LEMMA UnparkSerial ==
  ASSUME Serial, Inv', NEW w \in Threads, Alone(w), Unpark(w), UNCHANGED storeVars
  PROVE  Serial'
<1> USE DEF AfterLook, FastLabels, SweepLabels, BuiltLabels, SwapLabels
<1>0. PICK i, o : i = task[w].inst /\ o = task[w].old
  OBVIOUS
<1>1. task[w].pc = "unpark" /\ UNCHANGED <<yaml, lists>>
      /\ (CanRename(o, "main") => RenameTo(o, "main") /\ Goto(w, "revive"))
  BY <1>0 DEF Unpark, Rename, Call, At, storeVars
<1>2. w \in Workers /\ Shape(task[w]) /\ lists[i] # "absent"
  BY <1>0, <1>1, Busy DEF Listed
<1>3. Held(o, i, "old") /\ Vacant(i, "main") /\ Vacant(i, "new")
  BY <1>0, <1>1, <1>2 DEF Shape
<1>4. RenameTo(o, "main") /\ Goto(w, "revive")
  BY <1>1, <1>3 DEF CanRename, Exists, Held, Vacant, Named
<1>5. /\ UniqueNames' /\ MountsNeverDangle'
      /\ Held(o, i, "main")' /\ Vacant(i, "old")'
      /\ \A q : Vacant(i, q) /\ q # "main" => Vacant(i, q)'
  <2>1. UNCHANGED lists
    BY <1>1
  <2> QED BY <1>2, <1>3, <1>4, <2>1, RenamedNames
<1>6. task'[w].pc = "revive" /\ task'[w].inst = i /\ task'[w].old = o
  BY <1>0, <1>2, <1>4, GotoFields DEF Serial
<1>7. Vacant(i, "new")'
  BY <1>3, <1>5
<1>8. Shape(task[w])'
  BY <1>5, <1>6, <1>7 DEF Shape, AfterDrop
<1> QED BY <1>1, <1>4, <1>5, <1>8, EnsureSerial

LEMMA ReviveSerial ==
  ASSUME Serial, Inv', NEW w \in Threads, Alone(w), Revive(w), UNCHANGED storeVars
  PROVE  Serial'
<1> USE DEF AfterLook, FastLabels, SweepLabels, BuiltLabels, SwapLabels
<1>1. task[w].pc = "revive" /\ UNCHANGED <<yaml, lists>>
  BY DEF Revive, At, storeVars
<1>2. w \in Workers /\ Shape(task[w]) /\ task[w].old \in DOMAIN cont
  BY <1>1, Busy DEF Shape, Held
<1>3. CASE CanStart(task[w].old)
  <2>1. StartContainer(task[w].old) /\ Goto(w, "raised")
    BY <1>3 DEF Revive, Call
  <2>2. Mild
    BY <1>2, <2>1, StartMild DEF Serial
  <2>3. task'[w].pc = "raised"
    BY <1>2, <2>1, GotoFields DEF Serial
  <2>4. Shape(task[w])'
    BY <2>3 DEF Shape, AfterDrop
  <2> QED BY <1>1, <2>1, <2>2, <2>4, MildEffect, EnsureSerial
<1>4. CASE ~CanStart(task[w].old)
  <2>1. Goto(w, Handler(task[w].pc)) /\ UNCHANGED cont
    BY <1>4 DEF Revive, Call
  <2> QED BY <1>1, <2>1, HandlerSerial
<1> QED BY <1>3, <1>4

\* A step to a label that says nothing of containers or files.
LEMMA PlainSerial ==
  ASSUME Serial, Inv', NEW w \in Threads, Alone(w), task[w].pc \notin {"idle", "next"},
         Goto(w, "raised"), UNCHANGED <<cont, yaml, lists>>
  PROVE  Serial'
<1> USE DEF AfterLook, FastLabels, SweepLabels, BuiltLabels, SwapLabels
<1>1. /\ w \in Workers /\ w # Loop /\ task[w].op # "none" /\ ThreadTask(task[w]) /\ Stored(task[w])
  BY Busy
<1>2. task'[w].pc = "raised" /\ task'[w].inst = task[w].inst /\ task'[w].op = task[w].op
      /\ task'[w].todo = task[w].todo /\ task'[w].undo = task[w].undo /\ task'[Loop] = task[Loop]
  BY <1>1, GotoFields DEF Serial, Workers
<1>3. ThreadTask(task[w])' /\ Shape(task[w])' /\ Stored(task[w])' /\ Listed(task[w])'
  BY <1>1, <1>2 DEF ThreadTask, Shape, Stored, Listed, RemoveLabels, AfterDrop
<1> QED BY <1>2, <1>3, UnchangedMild, MildEffect, SerialStep

LEMMA FaultSerial ==
  ASSUME Serial, Inv', NEW w \in Threads, Alone(w), DockerFault(w)
  PROVE  Serial'
<1>1. UNCHANGED <<cont, yaml, lists>>
  BY DEF DockerFault, Refuse, Abort, storeVars
<1>2. CASE Refuse(w)
  <2>1. task[w].pc \in AfterLook /\ Goto(w, Handler(task[w].pc))
    BY <1>2 DEF Refuse, TryLabels, AfterLook, FastLabels, SweepLabels, BuiltLabels, SwapLabels
  <2> QED BY <1>1, <2>1, HandlerSerial
<1>3. CASE Abort(w)
  BY <1>1, <1>3, PlainSerial DEF Abort, CallLabels, TryLabels, At
<1> QED BY <1>2, <1>3 DEF DockerFault

LEMMA EnsureStepSerial ==
  ASSUME Serial, Inv', NEW w \in Threads, Alone(w), EnsureStep(w), UNCHANGED storeVars
  PROVE  Serial'
<1>1. CASE Sweep(w)
  <2>1. CASE FindStale(w, "findNew", "new", "dropNew", "findOld")
    BY <2>1, FindStaleSerial
  <2>2. CASE Remove(w, "dropNew", task[w].new, "findOld")
    BY <2>2, DropSerial
  <2>3. CASE FindStale(w, "findOld", "old", "dropOld", "create")
    BY <2>3, FindStaleSerial
  <2>4. CASE Remove(w, "dropOld", task[w].new, "create")
    BY <2>4, DropSerial
  <2> QED BY <1>1, <2>1, <2>2, <2>3, <2>4 DEF Sweep
<1>2. CASE ~Sweep(w)
  BY <1>2, LookSerial, FastSerial, FastStartSerial, CreateSerial, StopOldSerial, ParkSerial,
     SpillSerial, PromoteSerial, StartNewSerial, WaitHealthySerial, RetireSerial, DiscardSerial,
     UnparkSerial, ReviveSerial DEF EnsureStep
<1> QED BY <1>1, <1>2

-----------------------------------------------------------------------------
(* The steps of remove.                                                    *)

\* Within remove no label speaks of the store or the lists.
LEMMA RemoveSerial ==
  ASSUME Serial, Inv', NEW w \in Threads, Alone(w), task[w].op = "delete",
         task[w].pc \in RemoveLabels \cup {"returned"},
         task'[w].op = "delete", task'[w].pc \in RemoveLabels \cup {"returned"},
         task'[Loop] = task[Loop], Shape(task[w])', UniqueNames', MountsNeverDangle'
  PROVE  Serial'
<1>1. ThreadTask(task[w])' /\ Stored(task[w])' /\ Listed(task[w])'
  BY DEF ThreadTask, Stored, Listed, RemoveLabels, AfterLook, FastLabels, SweepLabels,
         BuiltLabels, SwapLabels, LoopOps
<1> QED BY <1>1, SerialStep

LEMMA RemoveBusy ==
  ASSUME Serial, NEW w \in Threads, task[w].pc \in RemoveLabels
  PROVE  /\ task[w].op = "delete" /\ w \in Workers /\ w # Loop /\ task[w].inst \in Instances
         /\ Shape(task[w]) /\ None \notin DOMAIN cont
BY Busy DEF RemoveLabels, ThreadTask

LEMMA FindMainSerial ==
  ASSUME Serial, Inv', NEW w \in Threads, Alone(w), FindMain(w, "rmFind", "rmDrop", "rmCache")
  PROVE  Serial'
<1> USE DEF FastLabels, SweepLabels, BuiltLabels, SwapLabels, RemoveLabels, AfterDrop
<1>0. PICK i : i = task[w].inst
  OBVIOUS
<1>1. PICK x \in Lookup(i, "main") :
        task' = [task EXCEPT ![w].old = x, ![w].pc = IF x = None THEN "rmCache" ELSE "rmDrop"]
  BY <1>0 DEF FindMain, Inst
<1>2. task[w].pc = "rmFind" /\ UNCHANGED <<cont, lists>>
  BY DEF FindMain, At
<1>3. task[w].op = "delete" /\ w \in Workers /\ w # Loop /\ None \notin DOMAIN cont
  BY <1>2, RemoveBusy
<1>4. /\ task'[w].pc = IF x = None THEN "rmCache" ELSE "rmDrop"
      /\ task'[w].old = x /\ task'[w].inst = i /\ task'[w].op = "delete"
      /\ task'[Loop] = task[Loop]
  BY <1>0, <1>1, <1>3 DEF Serial, Inv, TypeOK, DockerTypeOK, Task, Workers
<1>5. IF x = None THEN Vacant(i, "main") ELSE Held(x, i, "main")
  BY <1>3, LookupSlot
<1>6. IF x = None THEN Vacant(i, "main")' ELSE Held(x, i, "main")'
  BY <1>2, <1>5 DEF Vacant, Held
<1>7. Shape(task[w])'
  BY <1>4, <1>6 DEF Shape
<1> QED BY <1>2, <1>3, <1>4, <1>7, UnchangedMild, MildEffect, RemoveSerial

LEMMA RemoveDropSerial ==
  ASSUME Serial, Inv', NEW w \in Threads, Alone(w), Remove(w, "rmDrop", task[w].old, "rmCache")
  PROVE  Serial'
<1> USE DEF FastLabels, SweepLabels, BuiltLabels, SwapLabels, RemoveLabels, AfterDrop
<1>0. PICK i, x : i = task[w].inst /\ x = task[w].old
  OBVIOUS
<1>1. task[w].pc = "rmDrop" /\ UNCHANGED lists
      /\ (Exists(x) => RemoveContainer(x) /\ Goto(w, "rmCache"))
  BY <1>0 DEF Remove, Call, At
<1>2. task[w].op = "delete" /\ w \in Workers /\ w # Loop /\ Held(x, i, "main")
  BY <1>0, <1>1, RemoveBusy DEF Shape
<1>3. RemoveContainer(x) /\ Goto(w, "rmCache")
  BY <1>1, <1>2 DEF Held, Exists
<1>4. UniqueNames' /\ MountsNeverDangle' /\ Vacant(i, "main")'
  BY <1>1, <1>2, <1>3, RemovedNames
<1>5. /\ task'[w].pc = "rmCache" /\ task'[w].inst = i /\ task'[w].op = "delete"
      /\ task'[Loop] = task[Loop]
  BY <1>0, <1>2, <1>3, GotoFields DEF Serial, Workers
<1>6. Shape(task[w])'
  BY <1>4, <1>5 DEF Shape
<1> QED BY <1>1, <1>2, <1>4, <1>5, <1>6, RemoveSerial

\* The volumes, the lists, the note: the container is gone already.
LEMMA RemoveGotoSerial ==
  ASSUME Serial, Inv', NEW w \in Threads, Alone(w), task[w].op = "delete",
         task[w].pc \in AfterDrop \cup {"returned"},
         NEW l \in AfterDrop \cup {"returned"}, Goto(w, l), UNCHANGED cont,
         \A i \in Instances \ {task[w].inst} : lists'[i] = lists[i]
  PROVE  Serial'
<1> USE DEF FastLabels, SweepLabels, BuiltLabels, SwapLabels, RemoveLabels, AfterDrop
<1>0. PICK i : i = task[w].inst
  OBVIOUS
<1>1. w \in Workers /\ w # Loop /\ Vacant(i, "main")
  BY <1>0, Busy DEF Shape
<1>2. /\ task'[w].pc = l /\ task'[w].inst = i /\ task'[w].op = "delete"
      /\ task'[Loop] = task[Loop]
  BY <1>0, <1>1, GotoFields DEF Serial, Workers
<1>3. Vacant(i, "main")'
  BY <1>1 DEF Vacant
<1>4. Shape(task[w])'
  BY <1>2, <1>3 DEF Shape
<1>5. UniqueNames'
  BY DEF Serial, UniqueNames
<1>6. MountsNeverDangle'
  BY <1>0, <1>1 DEF Serial, MountsNeverDangle, Vacant, Inv, TypeOK, EngineTypeOK, Container
<1> QED BY <1>2, <1>4, <1>5, <1>6, RemoveSerial

LEMMA RemoveStepSerial ==
  ASSUME Serial, Inv', NEW w \in Threads, Alone(w), RemoveStep(w) PROVE Serial'
<1> USE DEF RemoveLabels, AfterDrop
<1>1. CASE FindMain(w, "rmFind", "rmDrop", "rmCache")
  BY <1>1, FindMainSerial
<1>2. CASE Remove(w, "rmDrop", task[w].old, "rmCache")
  BY <1>2, RemoveDropSerial
<1>3. ASSUME NEW l \in {"rmCache", "rmLogs"}, NEW v, NEW l2 \in {"rmLogs", "rmLists"},
             RemoveVolume(w, l, v, l2)
      PROVE  Serial'
  <2>1. task[w].pc = l /\ Goto(w, l2) /\ UNCHANGED <<cont, lists>>
    BY <1>3 DEF RemoveVolume, At
  <2>2. task[w].op = "delete"
    BY <2>1, RemoveBusy
  <2> QED BY <2>1, <2>2, RemoveGotoSerial
<1>4. CASE RemoveVolume(w, "rmCache", "cache", IF task[w].keep THEN "rmLists" ELSE "rmLogs")
  BY <1>3, <1>4
<1>5. CASE RemoveVolume(w, "rmLogs", "logs", "rmLists")
  BY <1>3, <1>5
<1>6. CASE DeleteLists(w)
  <2>1. /\ task[w].pc = "rmLists" /\ Goto(w, "returned") /\ UNCHANGED cont
        /\ lists' = [lists EXCEPT ![task[w].inst] = "absent"]
    BY <1>6 DEF DeleteLists, At, Inst
  <2>2. task[w].op = "delete"
    BY <2>1, RemoveBusy
  <2>3. \A i \in Instances \ {task[w].inst} : lists'[i] = lists[i]
    BY <2>1 DEF Serial, Inv, TypeOK, DockerTypeOK
  <2> QED BY <2>1, <2>2, <2>3, RemoveGotoSerial
<1> QED BY <1>1, <1>2, <1>4, <1>5, <1>6 DEF RemoveStep

-----------------------------------------------------------------------------
(* The steps of the callers.                                               *)

\* Labels that say nothing of the instance's containers.
LEMMA CallerSerial ==
  ASSUME Serial, Inv', NEW w \in Threads, Alone(w), UNCHANGED <<cont, lists>>,
         task'[w].pc \in {"idle", "next", "note", "put", "putWrite"}, task'[Loop] = task[Loop],
         ThreadTask(task[w])', Stored(task[w])'
  PROVE  Serial'
<1>1. Shape(task[w])' /\ Listed(task[w])'
  BY DEF Shape, Listed, FastLabels, SweepLabels, BuiltLabels, SwapLabels, AfterLook, AfterDrop
<1> QED BY <1>1, UnchangedMild, MildEffect, SerialStep

LEMMA NoteSerial ==
  ASSUME Serial, Inv', NEW w \in Threads, Alone(w), Note(w) PROVE Serial'
<1>1. task[w].pc = "note" /\ Goto(w, "put") /\ UNCHANGED <<cont, lists>>
  BY DEF Note, FileStep, At
<1>2. w \in Workers /\ w # Loop /\ ThreadTask(task[w]) /\ task[w].op \in {"update", "updateAll"}
  BY <1>1, Busy DEF ThreadTask
<1>3. task'[w].pc = "put" /\ task'[w].op = task[w].op /\ task'[Loop] = task[Loop]
  BY <1>1, <1>2, GotoFields DEF Serial, Workers
<1>4. ThreadTask(task[w])' /\ Stored(task[w])'
  BY <1>2, <1>3 DEF ThreadTask, Stored, LoopOps, RemoveLabels, AfterLook, FastLabels,
                    SweepLabels, BuiltLabels, SwapLabels
<1> QED BY <1>1, <1>3, <1>4, CallerSerial

LEMMA PutSerial ==
  ASSUME Serial, Inv', NEW w \in Threads, Alone(w), Put(w) PROVE Serial'
<1> USE DEF LoopOps, RemoveLabels, AfterLook, FastLabels, SweepLabels, BuiltLabels, SwapLabels
<1>0. PICK i : i = task[w].inst
  OBVIOUS
<1>1. task[w].pc \in {"put", "putWrite"} /\ UNCHANGED <<cont, lists>>
  BY DEF Put, FileStep, At
<1>2. /\ w \in Workers /\ w # Loop /\ i \in Instances /\ ThreadTask(task[w]) /\ Stored(task[w])
      /\ task[w].op \notin {"none", "delete", "reconcile"}
  BY <1>0, <1>1, Busy DEF ThreadTask
<1>3. CASE FileStep(w, "put", "putWrite") /\ Truncate(i)
  <2>1. Goto(w, "putWrite") /\ yaml' = [yaml EXCEPT ![i] = Torn]
    BY <1>3 DEF FileStep, Truncate
  <2>2. task'[w].pc = "putWrite" /\ task'[w].op = task[w].op /\ task'[w].inst = i
        /\ task'[Loop] = task[Loop]
    BY <1>0, <1>2, <2>1, GotoFields DEF Serial, Workers
  <2>3. yaml'[i] = Torn
    BY <1>2, <2>1 DEF Serial, Inv, TypeOK, StoreTypeOK
  <2>4. ThreadTask(task[w])' /\ Stored(task[w])'
    BY <1>2, <2>2, <2>3, TornAssumption DEF ThreadTask, Stored
  <2> QED BY <1>1, <2>2, <2>4, CallerSerial
<1>4. CASE FileStep(w, "putWrite", "look") /\ Write(i, task[w].def)
  <2>1. Goto(w, "look") /\ yaml' = [yaml EXCEPT ![i] = IF @ = None THEN None ELSE task[w].def]
        /\ task[w].pc = "putWrite"
    BY <1>4 DEF FileStep, Write, At
  <2>2. task'[w].pc = "look" /\ task'[w].op = task[w].op /\ task'[w].inst = i
        /\ task'[w].def = task[w].def /\ task'[Loop] = task[Loop]
    BY <1>0, <1>2, <2>1, GotoFields DEF Serial, Workers
  <2>3. yaml'[i] = task[w].def
    BY <1>0, <1>2, <2>1 DEF Stored, Serial, Inv, TypeOK, StoreTypeOK
  <2>4. ThreadTask(task[w])' /\ Stored(task[w])'
    BY <1>2, <2>2, <2>3 DEF ThreadTask, Stored
  <2>5. Shape(task[w])' /\ Listed(task[w])'
    BY <2>2 DEF Shape, Listed, AfterDrop
  <2> QED BY <1>1, <2>2, <2>4, <2>5, UnchangedMild, MildEffect, SerialStep
<1> QED BY <1>0, <1>3, <1>4 DEF Put, Inst

\* A task that ends or goes back to the batch loop.
LEMMA IdleSerial ==
  ASSUME Serial, Inv', NEW w \in Threads, Alone(w), UNCHANGED <<cont, lists>>,
         task' = [task EXCEPT ![w] = Idle]
  PROVE  Serial'
<1>1. task'[w] = Idle /\ task'[Loop] = task[Loop]
  BY WorkersAssumption DEF Serial, Inv, TypeOK, DockerTypeOK, Workers
<1>2. ThreadTask(task[w])' /\ Stored(task[w])'
  BY <1>1 DEF ThreadTask, Stored, Idle, LoopOps, RemoveLabels, AfterLook, FastLabels,
              SweepLabels, BuiltLabels, SwapLabels
<1>3. task'[w].pc = "idle"
  BY <1>1 DEF Idle
<1> QED BY <1>1, <1>2, <1>3, CallerSerial

LEMMA FinishFields ==
  ASSUME Inv, NEW w \in Workers, NEW error \in BOOLEAN, Finish(w, error)
  PROVE  \/ task' = [task EXCEPT ![w] = Idle]
         \/ /\ task[w].op \in {"reconcile", "updateAll"}
            /\ task'[w].op = task[w].op /\ task'[w].pc = "next" /\ task'[w].inst = None
            /\ task'[w].todo = task[w].todo /\ task'[w].goal = task[w].goal /\ ~task'[w].undo
            /\ task'[w].old = None /\ task'[w].new = None
            /\ task'[w].failed = IF error \/ task[w].undo THEN task[w].failed \cup {task[w].inst}
                                 ELSE task[w].failed
            /\ \A v \in Workers \ {w} : task'[v] = task[v]
BY DEF Inv, TypeOK, DockerTypeOK, Finish, Idle

LEMMA FinishSerial ==
  ASSUME Serial, Inv', NEW w \in Threads, Alone(w), task[w].pc \notin {"idle", "next"},
         NEW error \in BOOLEAN, Finish(w, error), UNCHANGED <<cont, yaml, lists>>
  PROVE  Serial'
<1>1. w \in Workers /\ w # Loop /\ Stored(task[w])
  BY Busy
<1>2. CASE task' = [task EXCEPT ![w] = Idle]
  BY <1>2, IdleSerial
<1>3. CASE /\ task[w].op \in {"reconcile", "updateAll"}
           /\ task'[w].op = task[w].op /\ task'[w].pc = "next"
           /\ task'[w].todo = task[w].todo
           /\ \A v \in Workers \ {w} : task'[v] = task[v]
  <2>1. task'[Loop] = task[Loop]
    BY <1>1, <1>3 DEF Workers
  <2>2. ThreadTask(task[w])' /\ Stored(task[w])'
    BY <1>1, <1>3 DEF ThreadTask, Stored, LoopOps, RemoveLabels, AfterLook, FastLabels,
                SweepLabels, BuiltLabels, SwapLabels
  <2> QED BY <1>3, <2>1, <2>2, CallerSerial
<1> QED BY <1>1, <1>2, <1>3, FinishFields DEF Serial

LEMMA UndoFields ==
  ASSUME Inv, NEW w \in Workers, Undo(w)
  PROVE  /\ task'[w].pc = "put" /\ task'[w].undo /\ task'[w].def = task[w].base
         /\ task'[w].op = task[w].op /\ task'[w].inst = task[w].inst
         /\ task'[w].base = task[w].base /\ task'[w].goal = task[w].goal
         /\ task'[w].old = task[w].old /\ task'[w].new = task[w].new
         /\ task'[w].todo = task[w].todo /\ task'[w].failed = task[w].failed
         /\ \A v \in Workers \ {w} : task'[v] = task[v]
BY DEF Inv, TypeOK, DockerTypeOK, Undo, Task

LEMMA UndoSerial ==
  ASSUME Serial, Inv', NEW w \in Threads, Alone(w), task[w].op \in {"update", "updateAll"},
         task[w].pc \notin {"idle", "next"}, Undo(w), UNCHANGED <<cont, yaml, lists>>
  PROVE  Serial'
<1>1. w \in Workers /\ w # Loop
  BY Busy
<1>2. task'[w].pc = "put" /\ task'[w].op = task[w].op /\ task'[Loop] = task[Loop]
  BY <1>1, UndoFields DEF Serial, Workers
<1>3. ThreadTask(task[w])' /\ Stored(task[w])'
  BY <1>2 DEF ThreadTask, Stored, LoopOps, RemoveLabels, AfterLook, FastLabels,
              SweepLabels, BuiltLabels, SwapLabels
<1> QED BY <1>2, <1>3, CallerSerial

LEMMA DeleteFilesSerial ==
  ASSUME Serial, Inv', NEW w \in Threads, Alone(w), DeleteFiles(w) PROVE Serial'
<1>1. CASE FileStep(w, "rmPrev", "rmYaml")
  <2>1. task[w].pc = "rmPrev" /\ Goto(w, "rmYaml") /\ UNCHANGED <<cont, lists>>
    BY <1>1 DEF FileStep, At
  <2>2. task[w].op = "delete"
    BY <2>1, RemoveBusy DEF RemoveLabels
  <2> QED BY <2>1, <2>2, RemoveGotoSerial DEF AfterDrop
<1>2. CASE task' = [task EXCEPT ![w] = Idle] /\ UNCHANGED <<cont, lists>>
  BY <1>2, IdleSerial
<1> QED BY <1>1, <1>2 DEF DeleteFiles

LEMMA ReturnedSerial ==
  ASSUME Serial, Inv', NEW w \in Threads, Alone(w), Returned(w) PROVE Serial'
<1>1. task[w].pc = "returned" /\ UNCHANGED <<cont, yaml, lists>>
  BY DEF Returned, At, storeVars
<1>2. w \in Workers /\ w # Loop /\ ThreadTask(task[w]) /\ Stored(task[w]) /\ Shape(task[w])
      /\ task[w].op # "none"
  BY <1>1, Busy
<1>3. CASE task[w].op = "delete"
  <2>1. Goto(w, "rmPrev")
    BY <1>3 DEF Returned
  <2> QED BY <1>1, <1>3, <2>1, RemoveGotoSerial DEF AfterDrop
<1>4. CASE task[w].op # "delete" /\ Updating(w)
  <2> USE DEF LoopOps, RemoveLabels, AfterLook, FastLabels, SweepLabels, BuiltLabels, SwapLabels
  <2>1. Goto(w, "verify") /\ task[w].op \in {"update", "updateAll"} /\ ~task[w].undo
    BY <1>4 DEF Returned, Updating
  <2>2. /\ task'[w].pc = "verify" /\ task'[w].op = task[w].op /\ task'[w].undo = task[w].undo
        /\ task'[w].inst = task[w].inst /\ task'[w].def = task[w].def
        /\ task'[Loop] = task[Loop]
    BY <1>2, <2>1, GotoFields DEF Serial, Workers
  <2>3. RunsAs(task[w].inst, task[w].def)
    BY <1>1, <1>2, <1>4 DEF Shape
  <2>4. RunsAs(task[w].inst, task[w].def)'
    BY <1>1, <2>2, <2>3 DEF RunsAs, Held
  <2>5. ThreadTask(task[w])' /\ Stored(task[w])' /\ Listed(task[w])' /\ Shape(task[w])'
    BY <1>1, <1>2, <1>4, <2>1, <2>2, <2>4 DEF ThreadTask, Stored, Listed, Shape, AfterDrop
  <2> QED BY <1>1, <2>2, <2>5, UnchangedMild, MildEffect, SerialStep
<1>5. CASE task[w].op # "delete" /\ ~Updating(w)
  BY <1>1, <1>5, FinishSerial DEF Returned
<1> QED BY <1>3, <1>4, <1>5

LEMMA RaisedSerial ==
  ASSUME Serial, Inv', NEW w \in Threads, Alone(w), Raised(w) PROVE Serial'
<1>1. task[w].pc = "raised" /\ UNCHANGED <<cont, yaml, lists>>
  BY DEF Raised, At, storeVars
<1> QED BY <1>1, UndoSerial, FinishSerial DEF Raised, Updating

LEMMA VerifySerial ==
  ASSUME Serial, Inv', NEW w \in Threads, Alone(w), Verify(w) \/ VerifyAborts(w) PROVE Serial'
<1>1. task[w].pc = "verify" /\ UNCHANGED <<cont, yaml, lists>>
  BY DEF Verify, VerifyAborts, At, storeVars
<1>2. task[w].op \in {"update", "updateAll"}
  BY <1>1, Busy DEF ThreadTask
<1>3. Undo(w) \/ Finish(w, TRUE) \/ Finish(w, FALSE)
  BY DEF Verify, VerifyAborts
<1> QED BY <1>1, <1>2, <1>3, UndoSerial, FinishSerial

\* What the loops of reconcile_all and update_all take from their snapshot.
LEMMA NextFields ==
  ASSUME Inv, NEW w \in Workers, NextInstance(w)
  PROVE  /\ task[w].pc = "next" /\ UNCHANGED <<cont, vols, yaml, prev, lists>>
         /\ \/ Pending(w) = {} /\ task' = [task EXCEPT ![w] = Idle]
            \/ \E i \in First(w) :
                 /\ task'[w].op = task[w].op /\ task'[w].goal = task[w].goal
                 /\ task'[w].todo = [task[w].todo EXCEPT ![i] = None]
                 /\ ~task'[w].undo /\ task'[w].old = None /\ task'[w].new = None
                 /\ \A v \in Workers \ {w} : task'[v] = task[v]
                 /\ \/ /\ task[w].op = "reconcile" /\ task'[w].pc = "look"
                       /\ task'[w].inst = i /\ task'[w].def = task[w].todo[i]
                       /\ task'[w].failed = task[w].failed
                    \/ /\ task[w].op # "reconcile" /\ task'[w].pc = "next"
                       /\ task'[w].inst = None
                       /\ IF task[w].todo[i].image = task[w].goal
                          THEN task'[w].failed = task[w].failed
                          ELSE Get(i) = None /\ task'[w].failed = task[w].failed \cup {i}
                    \/ /\ task[w].op # "reconcile" /\ task'[w].pc = "note"
                       /\ task[w].todo[i].image # task[w].goal
                       /\ task'[w].inst = i /\ task'[w].base = Get(i) /\ Get(i) # None
                       /\ task'[w].def = [Get(i) EXCEPT !.image = task[w].goal]
                       /\ task'[w].failed = task[w].failed
<1>1. task \in [Workers -> Task] /\ task[w].pc = "next"
      /\ UNCHANGED <<cont, vols, yaml, prev, lists>>
  BY DEF Inv, TypeOK, DockerTypeOK, NextInstance, At, storeVars
<1>2. CASE Pending(w) = {} /\ task' = [task EXCEPT ![w] = Idle]
  BY <1>1, <1>2
<1>3. ASSUME NEW i \in First(w),
             LET t == task[w]
                 taken == [Idle EXCEPT !.op = t.op, !.goal = t.goal, !.failed = t.failed,
                                       !.todo = [t.todo EXCEPT ![i] = None]]
             IN IF t.op = "reconcile"
                THEN task' = [task EXCEPT ![w] =
                                [taken EXCEPT !.pc = "look", !.inst = i, !.def = t.todo[i]]]
                ELSE IF t.todo[i].image = t.goal
                THEN task' = [task EXCEPT ![w] = [taken EXCEPT !.pc = "next"]]
                ELSE IF Get(i) = None
                THEN task' = [task EXCEPT ![w] =
                                [taken EXCEPT !.pc = "next", !.failed = t.failed \cup {i}]]
                ELSE task' = [task EXCEPT ![w] =
                                [taken EXCEPT !.pc = "note", !.inst = i, !.base = Get(i),
                                   !.def = [Get(i) EXCEPT !.image = t.goal]]]
      PROVE  /\ task'[w].op = task[w].op /\ task'[w].goal = task[w].goal
             /\ task'[w].todo = [task[w].todo EXCEPT ![i] = None]
             /\ ~task'[w].undo /\ task'[w].old = None /\ task'[w].new = None
             /\ \A v \in Workers \ {w} : task'[v] = task[v]
             /\ \/ /\ task[w].op = "reconcile" /\ task'[w].pc = "look"
                   /\ task'[w].inst = i /\ task'[w].def = task[w].todo[i]
                   /\ task'[w].failed = task[w].failed
                \/ /\ task[w].op # "reconcile" /\ task'[w].pc = "next"
                   /\ task'[w].inst = None
                   /\ IF task[w].todo[i].image = task[w].goal
                      THEN task'[w].failed = task[w].failed
                      ELSE Get(i) = None /\ task'[w].failed = task[w].failed \cup {i}
                \/ /\ task[w].op # "reconcile" /\ task'[w].pc = "note"
                   /\ task[w].todo[i].image # task[w].goal
                   /\ task'[w].inst = i /\ task'[w].base = Get(i) /\ Get(i) # None
                   /\ task'[w].def = [Get(i) EXCEPT !.image = task[w].goal]
                   /\ task'[w].failed = task[w].failed
  <2> DEFINE t == task[w]
             taken == [Idle EXCEPT !.op = t.op, !.goal = t.goal, !.failed = t.failed,
                                   !.todo = [t.todo EXCEPT ![i] = None]]
  <2>1. /\ taken.op = t.op /\ taken.goal = t.goal /\ taken.failed = t.failed
        /\ taken.todo = [t.todo EXCEPT ![i] = None] /\ ~taken.undo /\ taken.inst = None
        /\ taken.old = None /\ taken.new = None
        /\ DOMAIN taken = DOMAIN Idle
    BY DEF Idle
  <2>2. DOMAIN Idle = {"op", "pc", "undo", "keep", "inst", "def", "base", "goal", "old", "new",
                       "todo", "failed"}
    BY DEF Idle
  <2>3. CASE t.op = "reconcile"
    <3>1. task' = [task EXCEPT ![w] = [taken EXCEPT !.pc = "look", !.inst = i, !.def = t.todo[i]]]
      BY <1>3, <2>3
    <3> HIDE DEF taken
    <3>2. task'[w] = [taken EXCEPT !.pc = "look", !.inst = i, !.def = t.todo[i]]
          /\ \A v \in Workers \ {w} : task'[v] = task[v]
      BY <1>1, <3>1
    <3> QED BY <2>1, <2>2, <2>3, <3>2
  <2>4. CASE t.op # "reconcile" /\ t.todo[i].image = t.goal
    <3>1. task' = [task EXCEPT ![w] = [taken EXCEPT !.pc = "next"]]
      BY <1>3, <2>4
    <3> HIDE DEF taken
    <3>2. task'[w] = [taken EXCEPT !.pc = "next"]
          /\ \A v \in Workers \ {w} : task'[v] = task[v]
      BY <1>1, <3>1
    <3> QED BY <2>1, <2>2, <2>4, <3>2
  <2>5. CASE t.op # "reconcile" /\ t.todo[i].image # t.goal /\ Get(i) = None
    <3>1. task' = [task EXCEPT ![w] = [taken EXCEPT !.pc = "next", !.failed = t.failed \cup {i}]]
      BY <1>3, <2>5
    <3> HIDE DEF taken
    <3>2. task'[w] = [taken EXCEPT !.pc = "next", !.failed = t.failed \cup {i}]
          /\ \A v \in Workers \ {w} : task'[v] = task[v]
      BY <1>1, <3>1
    <3> QED BY <2>1, <2>2, <2>5, <3>2
  <2>6. CASE t.op # "reconcile" /\ t.todo[i].image # t.goal /\ Get(i) # None
    <3>1. task' = [task EXCEPT ![w] = [taken EXCEPT !.pc = "note", !.inst = i, !.base = Get(i),
                                   !.def = [Get(i) EXCEPT !.image = t.goal]]]
      BY <1>3, <2>6
    <3> HIDE DEF taken
    <3>2. task'[w] = [taken EXCEPT !.pc = "note", !.inst = i, !.base = Get(i),
                                   !.def = [Get(i) EXCEPT !.image = t.goal]]
          /\ \A v \in Workers \ {w} : task'[v] = task[v]
      BY <1>1, <3>1
    <3> QED BY <2>1, <2>2, <2>6, <3>2
  <2> QED BY <2>3, <2>4, <2>5, <2>6
<1>4. \/ Pending(w) = {} /\ task' = [task EXCEPT ![w] = Idle]
      \/ \E i \in First(w) :
           LET t == task[w]
               taken == [Idle EXCEPT !.op = t.op, !.goal = t.goal, !.failed = t.failed,
                                     !.todo = [t.todo EXCEPT ![i] = None]]
           IN IF t.op = "reconcile"
              THEN task' = [task EXCEPT ![w] =
                              [taken EXCEPT !.pc = "look", !.inst = i, !.def = t.todo[i]]]
              ELSE IF t.todo[i].image = t.goal
              THEN task' = [task EXCEPT ![w] = [taken EXCEPT !.pc = "next"]]
              ELSE IF Get(i) = None
              THEN task' = [task EXCEPT ![w] =
                              [taken EXCEPT !.pc = "next", !.failed = t.failed \cup {i}]]
              ELSE task' = [task EXCEPT ![w] =
                              [taken EXCEPT !.pc = "note", !.inst = i, !.base = Get(i),
                                 !.def = [Get(i) EXCEPT !.image = t.goal]]]
  BY DEF NextInstance
<1> QED BY <1>1, <1>2, <1>3, <1>4

LEMMA NextInstanceSerial ==
  ASSUME Serial, Inv', NEW w \in Threads, Alone(w), NextInstance(w) PROVE Serial'
<1> USE DEF LoopOps, RemoveLabels, AfterLook, FastLabels, SweepLabels, BuiltLabels, SwapLabels
<1>1. w \in Workers /\ w # Loop /\ Loop \in Workers
  BY WorkersAssumption DEF Workers
<1>2. task[w].pc = "next" /\ UNCHANGED <<cont, yaml, lists>>
  BY <1>1, NextFields DEF Serial
<1>3. /\ task[w].op \in {"reconcile", "updateAll"} /\ Stored(task[w])
      /\ task[w].todo \in [Instances -> Def \cup {None}]
  BY <1>1, <1>2 DEF Serial, Inv, WellFormed, TypeOK, DockerTypeOK, Task
<1>4. CASE Pending(w) = {} /\ task' = [task EXCEPT ![w] = Idle]
  BY <1>2, <1>4, IdleSerial
<1>5. ASSUME NEW i \in First(w), task'[w].op = task[w].op,
             task'[w].todo = [task[w].todo EXCEPT ![i] = None], ~task'[w].undo,
             \A v \in Workers \ {w} : task'[v] = task[v],
             \/ /\ task[w].op = "reconcile" /\ task'[w].pc = "look"
                /\ task'[w].inst = i /\ task'[w].def = task[w].todo[i]
             \/ task[w].op # "reconcile" /\ task'[w].pc \in {"next", "note"}
      PROVE  Serial'
  <2>1. i \in Instances /\ task[w].todo[i] # None /\ task'[Loop] = task[Loop]
    BY <1>1, <1>5 DEF First, Pending
  <2>2. \A j \in Instances : task'[w].todo[j] # None => task'[w].todo[j] = task[w].todo[j]
    BY <1>3, <1>5
  <2>3. Stored(task[w])'
    BY <1>2, <1>3, <1>5, <2>1, <2>2 DEF Stored
  <2>4. ThreadTask(task[w])'
    BY <1>3, <1>5 DEF ThreadTask
  <2>5. CASE task'[w].pc = "look"
    <3>1. Shape(task[w])' /\ Listed(task[w])'
      BY <2>5 DEF Shape, Listed, AfterDrop
    <3> QED BY <1>2, <2>1, <2>3, <2>4, <3>1, UnchangedMild, MildEffect, SerialStep
  <2>6. CASE task'[w].pc \in {"next", "note"}
    BY <1>2, <2>1, <2>3, <2>4, <2>6, CallerSerial
  <2> QED BY <1>5, <2>5, <2>6
<1> QED BY <1>1, <1>3, <1>4, <1>5, NextFields DEF Serial

\* A step of w changes no other task, and w is not idle.
LEMMA StepOthers ==
  ASSUME Inv, NEW w \in Workers, Step(w)
  PROVE  task[w].pc # "idle" /\ \A v \in Workers \ {w} : task'[v] = task[v]
<1> DEFINE Others == \A v \in Workers \ {w} : task'[v] = task[v]
<1>0. task \in [Workers -> Task]
  BY DEF Inv, TypeOK, DockerTypeOK
<1>1. ASSUME NEW l, Goto(w, l) PROVE Others
  BY <1>0, <1>1 DEF Goto
<1>2. CASE DockerStep(w)
  <2>1. CASE EnsureStep(w)
    BY <1>0, <1>1, <2>1 DEF EnsureStep, Look, Fast, FastStart, Sweep, FindStale, Remove, Call,
       Create, StopOld, Park, Rename, Spill, Promote, StartNew, WaitHealthy, Retire, Discard,
       Unpark, Revive, At
  <2>2. CASE RemoveStep(w)
    BY <1>0, <1>1, <2>2 DEF RemoveStep, FindMain, Remove, Call, RemoveVolume, DeleteLists, At
  <2>3. CASE LifecycleStep(w)
    <3>1. CASE FindMain(w, "lcFind", "lcAct", "returned")
      BY <1>0, <3>1 DEF FindMain, At
    <3>2. CASE LifecycleAct(w)
      <4>1. task[w].pc = "lcAct" /\ \E l : Goto(w, l)
        BY <3>2 DEF LifecycleAct, At, Call
      <4> QED BY <1>1, <4>1
    <3> QED BY <2>3, <3>1, <3>2 DEF LifecycleStep
  <2> QED BY <1>2, <2>1, <2>2, <2>3 DEF DockerStep
<1>3. CASE Note(w) \/ Put(w) \/ DeleteFiles(w)
  BY <1>0, <1>1, <1>3 DEF Note, Put, DeleteFiles, FileStep, At
<1>4. CASE NextInstance(w)
  BY <1>0, <1>4, NextFields
<1>5. ASSUME NEW error \in BOOLEAN, Finish(w, error) PROVE Others
  BY <1>0, <1>5, FinishFields
<1>6. ASSUME Undo(w) PROVE Others
  BY <1>6, UndoFields
<1>7. CASE Returned(w) \/ Raised(w) \/ Verify(w) \/ VerifyAborts(w)
  <2>1. task[w].pc \in {"returned", "raised", "verify"}
    BY <1>7 DEF Returned, Raised, Verify, VerifyAborts, At
  <2>2. (\E l : Goto(w, l)) \/ (\E e \in BOOLEAN : Finish(w, e)) \/ Undo(w)
    BY <1>7 DEF Returned, Raised, Verify, VerifyAborts
  <2> QED BY <1>1, <1>5, <1>6, <2>1, <2>2
<1>8. CASE DockerFault(w)
  BY <1>0, <1>1, <1>8 DEF DockerFault, Refuse, Abort, TryLabels, CallLabels, At
<1> QED BY <1>2, <1>3, <1>4, <1>7, <1>8 DEF Step, Work

\* What a step of a thread does to the containers, by its label.
Effect(t) ==
  \/ UNCHANGED cont
  \/ t.pc \in {"dropNew", "dropOld", "spill", "discard"} /\ RemoveContainer(t.new)
  \/ t.pc \in {"retire", "rmDrop"} /\ RemoveContainer(t.old)
  \/ /\ t.pc = "create"
     /\ \E x \in FreshIds : CreateOn(x, t.inst, t.def)
  \/ t.pc = "stop" /\ StopContainer(t.old)
  \/ t.pc = "park" /\ RenameTo(t.old, "old")
  \/ t.pc = "promote" /\ RenameTo(t.new, "main")
  \/ t.pc = "unpark" /\ RenameTo(t.old, "main")
  \/ t.pc \in {"fastStart", "revive"} /\ StartContainer(t.old)
  \/ t.pc = "start" /\ StartContainer(t.new)
  \/ /\ t.pc = "wait" /\ Passes(t.new)
     /\ cont' = [cont EXCEPT ![t.new].accepted = TRUE]

LEMMA ThreadEffect ==
  ASSUME Serial, NEW w \in Threads, Step(w) PROVE Effect(task[w])
<1> DEFINE t == task[w]
<1>1. CASE EnsureStep(w)
  <2>1. CASE Look(w) \/ Fast(w) \/ FindStale(w, "findNew", "new", "dropNew", "findOld")
             \/ FindStale(w, "findOld", "old", "dropOld", "create")
    BY <2>1 DEF Look, Fast, FindStale, Effect
  <2>2. CASE Remove(w, "dropNew", t.new, "findOld") \/ Remove(w, "dropOld", t.new, "create")
             \/ Spill(w) \/ Retire(w) \/ Discard(w)
    BY <2>2 DEF Remove, Call, Spill, Retire, Discard, At, Effect
  <2>3. CASE Create(w)
    <3>1. FreshIds \in SUBSET Ids
      BY DEF FreshIds
    <3> QED BY <2>3, <3>1, PickAssumption DEF Create, At, Inst, Effect
  <2>4. CASE StopOld(w) \/ FastStart(w) \/ StartNew(w) \/ Revive(w)
    BY <2>4 DEF StopOld, FastStart, StartNew, Revive, Call, At, Effect
  <2>5. CASE Park(w) \/ Promote(w) \/ Unpark(w)
    BY <2>5 DEF Park, Promote, Unpark, Rename, Call, At, Effect
  <2>6. CASE WaitHealthy(w)
    BY <2>6 DEF WaitHealthy, At, Effect
  <2> QED BY <1>1, <2>1, <2>2, <2>3, <2>4, <2>5, <2>6 DEF EnsureStep, Sweep
<1>2. CASE RemoveStep(w)
  BY <1>2 DEF RemoveStep, FindMain, Remove, Call, RemoveVolume, DeleteLists, At, Effect
<1>3. ~LifecycleStep(w)
  BY DEF LifecycleStep, FindMain, LifecycleAct, At, Serial, ThreadTask
<1>4. CASE ~DockerStep(w)
  BY <1>4 DEF Step, Work, DockerFault, Refuse, Abort, Note, Put, DeleteFiles, FileStep,
     NextInstance, Returned, Raised, Verify, VerifyAborts, Effect
<1> QED BY <1>1, <1>2, <1>3, <1>4 DEF DockerStep

\* The store forgets a definition only at the end of a delete.
LEMMA YamlStep ==
  ASSUME Serial, NEW w \in Threads, Step(w), NEW i \in Instances
  PROVE  \/ yaml'[i] = yaml[i]
         \/ /\ i = task[w].inst /\ task[w].pc \in {"put", "putWrite"}
            /\ yaml[i] # None /\ task[w].pc = "putWrite" => yaml'[i] = task[w].def
            /\ task[w].pc = "put" => yaml'[i] = Torn
            /\ UNCHANGED <<cont, lists, vols, prev>>
         \/ /\ i = task[w].inst /\ task[w].pc = "rmYaml" /\ yaml'[i] = None
            /\ task' = [task EXCEPT ![w] = Idle]
            /\ UNCHANGED <<cont, lists, vols, prev>>
<1>1. yaml \in [Instances -> Def \cup {Torn, None}]
  BY DEF Serial, Inv, TypeOK, StoreTypeOK
<1>2. CASE Put(w)
  BY <1>1, <1>2 DEF Put, FileStep, At, Truncate, Write, Inst
<1>3. CASE DeleteFiles(w)
  BY <1>1, <1>3 DEF DeleteFiles, FileStep, At, Unlink, Inst
<1>4. CASE ~Put(w) /\ ~DeleteFiles(w)
  BY <1>4 DEF Step, Work, DockerStep, DockerFault, Note, NextInstance, Returned, Raised, Verify,
     VerifyAborts, storeVars
<1> QED BY <1>2, <1>3, <1>4

\* A thread touches the containers of the instance it works on, and no other.
LEMMA OthersUntouched ==
  ASSUME Serial, NEW w \in Threads, Step(w), NEW x \in DOMAIN cont, cont[x].inst # task[w].inst
  PROVE  x \in DOMAIN cont' /\ cont'[x] = cont[x]
<1> USE DEF AfterLook, FastLabels, SweepLabels, BuiltLabels, SwapLabels
<1> DEFINE t == task[w]
           Same == x \in DOMAIN cont' /\ cont'[x] = cont[x]
<1> SUFFICES Same
  OBVIOUS
<1>1. t.pc \notin {"idle", "next"} => Shape(t)
  BY Busy
<1>2. t.pc \in {"dropNew", "dropOld", "spill", "discard", "promote", "start", "wait"} => t.new # x
  BY <1>1 DEF Shape, Candidate, Held
<1>3. t.pc \in {"retire", "rmDrop", "stop", "park", "unpark", "fastStart", "revive"} => t.old # x
  BY <1>1 DEF Shape, Outdated, Held
<1>a. PICK o, n : o = t.old /\ n = t.new
  OBVIOUS
<1>4. ASSUME NEW y, y # x, NEW s,
             \/ RemoveContainer(y) \/ StopContainer(y) \/ StartContainer(y) \/ RenameTo(y, s)
             \/ cont' = [cont EXCEPT ![y].accepted = TRUE]
      PROVE  Same
  BY <1>4 DEF RemoveContainer, StopContainer, StartContainer, RenameTo
<1>5. ASSUME NEW y \in FreshIds, CreateOn(y, t.inst, t.def) PROVE Same
  BY <1>5 DEF CreateOn, FreshIds
<1>6. CASE UNCHANGED cont
  BY <1>6
<1> HIDE DEF Same
<1>7. CASE t.pc \in {"dropNew", "dropOld", "spill", "discard", "promote", "start", "wait"}
  <2>1. \/ UNCHANGED cont \/ RemoveContainer(n) \/ RenameTo(n, "main") \/ StartContainer(n)
        \/ cont' = [cont EXCEPT ![n].accepted = TRUE]
    BY <1>7, <1>a, ThreadEffect DEF Effect
  <2> QED BY <1>2, <1>4, <1>6, <1>7, <1>a, <2>1
<1>8. CASE t.pc \in {"retire", "rmDrop", "stop", "park", "unpark", "fastStart", "revive"}
  <2>1. \/ UNCHANGED cont \/ RemoveContainer(o) \/ StopContainer(o) \/ StartContainer(o)
        \/ RenameTo(o, "old") \/ RenameTo(o, "main")
    BY <1>8, <1>a, ThreadEffect DEF Effect
  <2> QED BY <1>3, <1>4, <1>6, <1>8, <1>a, <2>1
<1>9. CASE t.pc = "create" \/ UNCHANGED cont
  BY <1>5, <1>6, <1>9, ThreadEffect DEF Effect
<1>10. \/ t.pc \in {"dropNew", "dropOld", "spill", "discard", "promote", "start", "wait"}
       \/ t.pc \in {"retire", "rmDrop", "stop", "park", "unpark", "fastStart", "revive"}
       \/ t.pc = "create" \/ UNCHANGED cont
  BY ThreadEffect DEF Effect
<1> QED BY <1>7, <1>8, <1>9, <1>10

LEMMA ListsStep ==
  ASSUME Serial, NEW w \in Threads, Step(w), NEW i \in Instances, i # task[w].inst
  PROVE  lists'[i] = lists[i]
<1>1. lists \in [Instances -> {"absent", "empty", "filled"}]
  BY DEF Serial, Inv, TypeOK, DockerTypeOK
<1>2. CASE Look(w) \/ DeleteLists(w)
  BY <1>1, <1>2 DEF Look, DeleteLists, Inst
<1>3. ~LifecycleStep(w)
  BY DEF LifecycleStep, FindMain, LifecycleAct, At, Serial, ThreadTask
<1>4. CASE ~Look(w) /\ ~DeleteLists(w)
  BY <1>3, <1>4 DEF Step, Work, DockerStep, EnsureStep, Fast, FastStart, Sweep, FindStale, Remove,
     Create, StopOld, Park, Rename, Spill, Promote, StartNew, WaitHealthy, Retire, Discard,
     Unpark, Revive, RemoveStep, FindMain, RemoveVolume, DockerFault, Refuse, Abort, Note, Put,
     DeleteFiles, FileStep, NextInstance, Returned, Raised, Verify, VerifyAborts
<1> QED BY <1>2, <1>4

\* A container keeps its instance, and a new one is of the instance its
\* thread works on.
LEMMA NewIsOwn ==
  ASSUME Serial, NEW w \in Threads, Step(w), NEW x \in DOMAIN cont'
  PROVE  cont'[x].inst = IF x \in DOMAIN cont THEN cont[x].inst ELSE task[w].inst
<1> DEFINE Kept == x \in DOMAIN cont /\ cont'[x].inst = cont[x].inst
<1>0. \A y \in DOMAIN cont : cont[y] \in Container
  BY DEF Serial, Inv, TypeOK, EngineTypeOK
<1>1. ASSUME NEW y, RemoveContainer(y) PROVE Kept
  BY <1>1 DEF RemoveContainer
<1>2. ASSUME NEW y, StopContainer(y) PROVE Kept
  BY <1>0, <1>2 DEF StopContainer, Halted, Container
<1>3. ASSUME NEW y, StartContainer(y) PROVE Kept
  BY <1>0, <1>3 DEF StartContainer, Started, Container
<1>4. ASSUME NEW y, NEW s, RenameTo(y, s) PROVE Kept
  BY <1>0, <1>4 DEF RenameTo, Container
<1>5. ASSUME NEW y, cont' = [cont EXCEPT ![y].accepted = TRUE] PROVE Kept
  BY <1>0, <1>5 DEF Container
<1>6. ASSUME NEW y \in FreshIds, NEW i, NEW d, CreateOn(y, i, d)
      PROVE  Kept \/ (x \notin DOMAIN cont /\ cont'[x].inst = i)
  BY <1>6 DEF CreateOn, New, FreshIds
<1>7. ASSUME UNCHANGED cont PROVE Kept
  BY <1>7
<1> HIDE DEF Kept
<1>8. PICK o, n, i, d : o = task[w].old /\ n = task[w].new /\ i = task[w].inst /\ d = task[w].def
  OBVIOUS
<1>9. Kept \/ (x \notin DOMAIN cont /\ cont'[x].inst = i)
  <2>1. \/ UNCHANGED cont
        \/ RemoveContainer(o) \/ RemoveContainer(n) \/ StopContainer(o)
        \/ StartContainer(o) \/ StartContainer(n)
        \/ RenameTo(o, "old") \/ RenameTo(o, "main") \/ RenameTo(n, "main")
        \/ cont' = [cont EXCEPT ![n].accepted = TRUE]
        \/ \E y \in FreshIds : CreateOn(y, i, d)
    BY <1>8, ThreadEffect DEF Effect
  <2> QED BY <1>1, <1>2, <1>4, <1>6, <1>7, <1>3, <1>5, <2>1
<1> QED BY <1>8, <1>9 DEF Kept

\* A thread leaves every instance but its own alone.
LEMMA StepElsewhere ==
  ASSUME Serial, NEW w \in Threads, Step(w), NEW i \in Instances, i # task[w].inst
  PROVE  Untouched(i)
<1>1. yaml'[i] = yaml[i] /\ lists'[i] = lists[i]
  BY YamlStep, ListsStep
<1>2. \A x \in DOMAIN cont : cont[x].inst = i => x \in DOMAIN cont' /\ cont'[x] = cont[x]
  BY OthersUntouched
<1>3. ASSUME NEW x \in DOMAIN cont', cont'[x].inst = i
      PROVE  x \in DOMAIN cont /\ cont[x].inst = i
  BY <1>3, NewIsOwn
<1> QED BY <1>1, <1>2, <1>3 DEF Untouched

\* What another thread has claimed is no business of a thread that works.
LEMMA NotClaimed ==
  ASSUME Serial, Apart, NEW w \in Threads, task[w].pc # "idle", NEW v \in Threads \ {w},
         NEW i \in Claims(v)
  PROVE  i \in Instances /\ i # task[w].inst
<1>1. i \in Instances
  BY DEF Claims
<1> QED BY <1>1 DEF Apart, Claims, Free, Inst

LEMMA StepSerial ==
  ASSUME Serial, Inv', Apart, NEW w \in Threads, Step(w) PROVE Serial'
<1>1. task[w].pc # "idle" /\ \A v \in Workers \ {w} : task'[v] = task[v]
  BY StepOthers DEF Serial, Workers
<1>2. Alone(w)
  BY <1>1, NotClaimed, StepElsewhere, LoopWorker DEF Alone
<1>3. CASE DockerStep(w)
  <2>1. ~LifecycleStep(w)
    BY DEF LifecycleStep, FindMain, LifecycleAct, At, Serial, ThreadTask
  <2> QED BY <1>2, <1>3, <2>1, EnsureStepSerial, RemoveStepSerial DEF DockerStep
<1>4. CASE ~DockerStep(w)
  BY <1>2, <1>4, FaultSerial, NoteSerial, PutSerial, DeleteFilesSerial, NextInstanceSerial,
     ReturnedSerial, RaisedSerial, VerifySerial DEF Step, Work
<1> QED BY <1>3, <1>4

-----------------------------------------------------------------------------
(* Requests, the event loop and what nobody asked for.                     *)

\* The records requests begin with.
BeginTask(t) ==
  /\ ~t.undo
  /\ \/ t.op \in {"create", "patch"} \cap Ops /\ t.pc = "put"
     \/ t.op = "rollback" /\ t.pc = "put" /\ t.def.image = prev[t.inst]
     \/ t.op = "delete" /\ t.pc = "rmFind" /\ t.inst \in Instances /\ yaml[t.inst] \in Def
     \/ t.op = "reconcile" /\ t.pc = "next" /\ t.inst = None /\ t.todo = List
     \/ t.op = "update" /\ t.pc = "note" /\ t.base = Get(t.inst)
     \/ t.op = "updateAll" /\ t.pc = "next" /\ t.inst = None /\ t.todo = List

LEMMA BeginSerial ==
  ASSUME Serial, Inv', NEW w \in Threads, NEW t, BeginTask(t), Begin(w, t)
  PROVE  Serial'
<1> USE DEF LoopOps, RemoveLabels, AfterLook, FastLabels, SweepLabels, BuiltLabels, SwapLabels
<1>1. /\ task'[w] = t /\ UNCHANGED <<cont, yaml, lists>> /\ w # Loop
      /\ \A v \in Workers \ {w} : task'[v] = task[v]
  BY WorkersAssumption DEF Begin, storeVars, Serial, Inv, TypeOK, DockerTypeOK, Workers
<1>2. Alone(w)
  BY <1>1, LoopWorker DEF Alone, Untouched
<1>3. List' = List
  BY <1>1 DEF List, Get
<1>4. ThreadTask(task[w])'
  BY <1>1 DEF ThreadTask, BeginTask
<1>5. t.op = "reconcile" => \A i \in Instances : t.todo[i] # None => yaml[i] = t.todo[i]
  BY DEF BeginTask, List, Get
<1>6. Stored(task[w])' /\ Shape(task[w])' /\ Listed(task[w])'
  BY <1>1, <1>5 DEF Stored, Shape, Listed, BeginTask, AfterDrop
<1>7. task'[Loop] = task[Loop]
  BY <1>1 DEF Workers
<1> QED BY <1>1, <1>2, <1>4, <1>6, <1>7, UnchangedMild, MildEffect, SerialStep

\* What a request does: it begins a task, or edits a list.
LEMMA RequestBegins ==
  ASSUME Request
  PROVE  \/ \E w \in Threads : \E t : BeginTask(t) /\ Begin(w, t) /\ Free(w)
         \/ \E op \in LoopOps, i \in Instances : Lifecycle(op, i)
         \/ \E i \in Instances : EditLists(i)
<1>1. ASSUME NEW w \in Threads, NEW i \in Instances, NEW op \in {"create", "patch", "rollback"},
             op = "rollback" \/ op \in Ops, NEW d, op = "rollback" => d.image = prev[i], Free(w),
             Begin(w, [Idle EXCEPT !.op = op, !.pc = "put", !.inst = i, !.def = d])
      PROVE  \E t : BeginTask(t) /\ Begin(w, t) /\ Free(w)
  <2>1. BeginTask([Idle EXCEPT !.op = op, !.pc = "put", !.inst = i, !.def = d])
    BY <1>1 DEF BeginTask, Idle
  <2> QED BY <1>1, <2>1
<1>2. ASSUME NEW w \in Threads, NEW i \in Instances, NEW keep \in BOOLEAN,
             DeleteInstance(w, i, keep)
      PROVE  \E t : BeginTask(t) /\ Begin(w, t) /\ Free(w)
  <2>1. BeginTask([Idle EXCEPT !.op = "delete", !.pc = "rmFind", !.inst = i, !.keep = keep])
    BY <1>2 DEF BeginTask, Idle, DeleteInstance, Get
  <2> QED BY <1>2, <2>1 DEF DeleteInstance
<1>3. ASSUME NEW w \in Threads, NEW i \in Instances, NEW m \in Images, Update(w, i, m)
      PROVE  \E t : BeginTask(t) /\ Begin(w, t) /\ Free(w)
  <2>1. BeginTask([Idle EXCEPT !.op = "update", !.pc = "note", !.inst = i, !.base = Get(i),
                     !.def = [Get(i) EXCEPT !.image = m], !.goal = m])
    BY DEF BeginTask, Idle
  <2> QED BY <1>3, <2>1 DEF Update
<1>4. ASSUME NEW w \in Threads, ReconcileAll(w)
      PROVE  \E t : BeginTask(t) /\ Begin(w, t) /\ Free(w)
  <2>1. BeginTask([Idle EXCEPT !.op = "reconcile", !.pc = "next", !.todo = List])
    BY DEF BeginTask, Idle
  <2> QED BY <1>4, <2>1 DEF ReconcileAll
<1>5. ASSUME NEW w \in Threads, NEW m \in Images, UpdateAll(w, m)
      PROVE  \E t : BeginTask(t) /\ Begin(w, t) /\ Free(w)
  <2>1. BeginTask([Idle EXCEPT !.op = "updateAll", !.pc = "next", !.goal = m, !.todo = List])
    BY DEF BeginTask, Idle
  <2> QED BY <1>5, <2>1 DEF UpdateAll
<1>6. \A w \in Threads, i \in Instances : \A d :
        CreateInstance(w, i, d) \/ PatchInstance(w, i, d) \/ Rollback(w, i)
          => \E t : BeginTask(t) /\ Begin(w, t) /\ Free(w)
  <2>1. ASSUME NEW w \in Threads, NEW i \in Instances, Rollback(w, i)
        PROVE  \E t : BeginTask(t) /\ Begin(w, t) /\ Free(w)
    <3>1. Get(i) \in Def
      BY <2>1 DEF Rollback, Get
    <3>2. [Get(i) EXCEPT !.image = prev[i]].image = prev[i]
      BY <3>1 DEF Def
    <3> QED BY <1>1, <2>1, <3>2 DEF Rollback
  <2> QED BY <1>1, <2>1 DEF CreateInstance, PatchInstance
<1> QED BY <1>2, <1>3, <1>4, <1>5, <1>6 DEF Request

LEMMA LifecycleSerial ==
  ASSUME Serial, Inv', NEW op \in LoopOps, NEW i \in Instances, Lifecycle(op, i)
  PROVE  Serial'
<1> DEFINE t == [Idle EXCEPT !.op = op, !.pc = "lcFind", !.inst = i]
<1>1. t.op = op /\ t.pc = "lcFind"
  BY DEF Idle
<1>2. task' = [task EXCEPT ![Loop] = t] /\ UNCHANGED <<cont, yaml, lists>>
  BY DEF Lifecycle, Begin, storeVars
<1> HIDE DEF t
<1>3. task'[Loop] = t /\ \A w \in Threads : task'[w] = task[w]
  BY <1>2, LoopWorker DEF Serial, Inv, TypeOK, DockerTypeOK
<1>4. LoopTask(task[Loop])'
  BY <1>1, <1>3 DEF LoopTask, LoopOps
<1> QED BY <1>2, <1>3, <1>4, UnchangedMild, MildStep

LEMMA LoopLabel ==
  ASSUME Serial, task[Loop].pc # "idle"
  PROVE  /\ task[Loop].pc \in {"lcFind", "lcAct", "returned", "raised"}
         /\ task[Loop].op \in LoopOps /\ task[Loop] \in Task
BY LoopWorker DEF Serial, LoopTask, Inv, TypeOK, DockerTypeOK

\* start, stop and restart leave names, definitions and files alone.
LEMMA LoopStep ==
  ASSUME Serial, Inv', Step(Loop)
  PROVE  Mild /\ UNCHANGED <<yaml, lists>> /\ LoopTask(task[Loop])'
<1>1. /\ task[Loop].pc \in {"lcFind", "lcAct", "returned", "raised"}
      /\ task[Loop].op \in LoopOps /\ task[Loop] \in Task
  BY StepOthers, LoopWorker, LoopLabel DEF Serial
<1>2. ASSUME NEW l \in {"lcAct", "returned", "raised"}, Goto(Loop, l)
      PROVE  LoopTask(task[Loop])'
  <2>1. task'[Loop].pc = l /\ task'[Loop].op = task[Loop].op
    BY <1>2, LoopWorker, GotoFields DEF Serial
  <2> QED BY <1>1, <2>1 DEF LoopTask, LoopOps
<1>3. CASE FindMain(Loop, "lcFind", "lcAct", "returned") /\ UNCHANGED storeVars
  <2>1. PICK x : task' = [task EXCEPT ![Loop].old = x,
                            ![Loop].pc = IF x = None THEN "returned" ELSE "lcAct"]
    BY <1>3 DEF FindMain
  <2>2. task'[Loop].pc \in {"returned", "lcAct"} /\ task'[Loop].op = task[Loop].op
    BY <1>1, <2>1, LoopWorker DEF Serial, Inv, TypeOK, DockerTypeOK, Task
  <2> QED BY <1>1, <1>3, <2>2, UnchangedMild DEF FindMain, LoopTask, LoopOps, storeVars
<1>4. CASE LifecycleAct(Loop) /\ UNCHANGED storeVars
  <2>0. PICK x : x = task[Loop].old
    OBVIOUS
  <2>1. UNCHANGED <<yaml, lists>> /\ task[Loop].pc = "lcAct"
    BY <1>4 DEF LifecycleAct, storeVars, At
  <2>2. \/ Exists(x) /\ StartContainer(x) /\ Goto(Loop, "returned")
        \/ Exists(x) /\ StopContainer(x) /\ Goto(Loop, "returned")
        \/ Exists(x) /\ cont' = [cont EXCEPT ![x] = Started(@)] /\ Goto(Loop, "returned")
        \/ UNCHANGED cont /\ Goto(Loop, "raised")
    BY <1>4, <2>0, <2>1 DEF LifecycleAct, Call, CanStart, Handler, StartContainer, StopContainer
  <2> QED BY <1>2, <2>1, <2>2, StartMild, StopMild, RestartMild, UnchangedMild DEF Exists, Serial
<1>5. CASE DockerFault(Loop)
  <2>1. Goto(Loop, "raised") /\ UNCHANGED <<cont, yaml, lists>>
    BY <1>1, <1>5 DEF DockerFault, Refuse, Abort, TryLabels, storeVars
  <2> QED BY <1>2, <2>1, UnchangedMild
<1>6. CASE Returned(Loop) \/ Raised(Loop)
  <2>1. task' = [task EXCEPT ![Loop] = Idle] /\ UNCHANGED <<cont, yaml, lists>>
    BY <1>1, <1>6 DEF Returned, Raised, Finish, Updating, storeVars, LoopOps
  <2>2. task'[Loop] = Idle
    BY <2>1, LoopWorker DEF Serial, Inv, TypeOK, DockerTypeOK
  <2>3. LoopTask(task[Loop])'
    BY <2>2 DEF LoopTask, Idle, LoopOps
  <2> QED BY <2>1, <2>3, UnchangedMild
<1>7. ~(EnsureStep(Loop) \/ RemoveStep(Loop) \/ Note(Loop) \/ Put(Loop) \/ DeleteFiles(Loop)
        \/ NextInstance(Loop) \/ Verify(Loop) \/ VerifyAborts(Loop))
  BY <1>1 DEF EnsureStep, Look, Fast, FastStart, Sweep, FindStale, Remove, Create, StopOld, Park,
     Rename, Spill, Promote, StartNew, WaitHealthy, Retire, Discard, Unpark, Revive, RemoveStep,
     FindMain, RemoveVolume, DeleteLists, Note, Put, DeleteFiles, FileStep, NextInstance,
     Verify, VerifyAborts, At
<1> QED BY <1>3, <1>4, <1>5, <1>6, <1>7 DEF Step, Work, DockerStep, LifecycleStep

LEMMA LoopSerial == ASSUME Serial, Inv', Step(Loop) PROVE Serial'
<1>1. \A w \in Threads : task'[w] = task[w]
  BY StepOthers, LoopWorker DEF Serial
<1> QED BY <1>1, LoopStep, MildStep

LEMMA EnvironmentMild == ASSUME Inv, Environment PROVE Mild
<1>1. PICK x \in DOMAIN cont : Probe(x) \/ Exit(x) \/ PolicyRestart(x)
  BY DEF Environment, EngineNext
<1>2. cont[x] \in Container
  BY DEF Inv, TypeOK, EngineTypeOK
<1>3. CASE Probe(x)
  <2>1. PICK h : cont' = [cont EXCEPT ![x].health = h]
    BY <1>3 DEF Probe
  <2> QED BY <1>2, <2>1 DEF Container, Mild
<1>4. CASE Exit(x)
  BY <1>2, <1>4 DEF Exit, Halted, Container, Mild
<1>5. CASE PolicyRestart(x)
  BY <1>2, <1>5 DEF PolicyRestart, Started, Container, Mild
<1> QED BY <1>1, <1>3, <1>4, <1>5

LEMMA RebootMild == ASSUME Inv, Reboot PROVE Mild
BY DEF Reboot, HostDown, Halted, Inv, TypeOK, EngineTypeOK, Container, Mild

LEMMA AllIdleSerial ==
  ASSUME Serial, Inv', Mild, UNCHANGED <<yaml, lists>>, task' = [w \in Workers |-> Idle]
  PROVE  Serial'
<1> USE DEF LoopOps, RemoveLabels, AfterLook, FastLabels, SweepLabels, BuiltLabels, SwapLabels
<1>1. UniqueNames' /\ MountsNeverDangle'
  BY MildEffect
<1>2. LoopTask(task[Loop])'
  BY LoopWorker DEF LoopTask, Idle
<1>3. \A w \in Threads : task'[w].pc = "idle" /\ task'[w].op = "none"
  BY LoopWorker DEF Idle
<1>4. ASSUME NEW w \in Threads
      PROVE  (ThreadTask(task[w]) /\ Shape(task[w]) /\ Stored(task[w]) /\ Listed(task[w]))'
  <2>1. task'[w].pc = "idle" /\ task'[w].op = "none"
    BY <1>3
  <2> QED BY <2>1 DEF ThreadTask, Shape, Stored, Listed, AfterDrop
<1> QED BY <1>1, <1>2, <1>4 DEF Serial

LEMMA EditListsSerial ==
  ASSUME Serial, Inv', NEW i \in Instances, EditLists(i) PROVE Serial'
<1>1. UNCHANGED <<cont, yaml, task>> /\ \A j \in Instances : lists'[j] = "absent" => lists[j] = "absent"
  BY DEF EditLists, Serial, Inv, TypeOK, DockerTypeOK, storeVars
<1> QED BY <1>1, UnchangedMild, MildStep DEF Serial

LEMMA InitSerial == Init => Serial
<1> SUFFICES ASSUME Init PROVE Serial
  OBVIOUS
<1> USE DEF LoopOps, RemoveLabels, AfterLook, FastLabels, SweepLabels, BuiltLabels, SwapLabels
<1>1. Inv
  BY InitInv
<1>2. PICK known \in SUBSET Instances : \E d \in [known -> [image : CanPass, port : Ports]] :
        /\ cont = [x \in {FirstId[i] : i \in known} |->
                     LET i == CHOOSE j \in known : FirstId[j] = x IN
                     [New(i, d[i]) EXCEPT !.slot = "main", !.state = "running",
                        !.health = IF d[i].image \in Unchecked THEN "none" ELSE "healthy",
                        !.accepted = TRUE]]
        /\ lists = [i \in Instances |-> IF i \in known THEN "filled" ELSE "absent"]
  BY DEF Init
<1>3. PICK d \in [known -> [image : CanPass, port : Ports]] :
        /\ cont = [x \in {FirstId[i] : i \in known} |->
                     LET i == CHOOSE j \in known : FirstId[j] = x IN
                     [New(i, d[i]) EXCEPT !.slot = "main", !.state = "running",
                        !.health = IF d[i].image \in Unchecked THEN "none" ELSE "healthy",
                        !.accepted = TRUE]]
        /\ lists = [i \in Instances |-> IF i \in known THEN "filled" ELSE "absent"]
  BY <1>2
<1>4. \A x \in DOMAIN cont : cont[x].inst \in known /\ FirstId[cont[x].inst] = x
  BY <1>3 DEF New
<1>5. UniqueNames
  BY <1>4 DEF UniqueNames
<1>6. MountsNeverDangle
  BY <1>3, <1>4 DEF MountsNeverDangle
<1>7. \A w \in Workers : task[w] = Idle
  BY DEF Init
<1>8. LoopTask(task[Loop])
  BY <1>7, LoopWorker DEF LoopTask, Idle
<1>9. \A w \in Threads : ThreadTask(task[w]) /\ Shape(task[w]) /\ Stored(task[w]) /\ Listed(task[w])
  BY <1>7, LoopWorker DEF ThreadTask, Shape, Stored, Listed, Idle, AfterDrop
<1> QED BY <1>1, <1>5, <1>6, <1>8, <1>9 DEF Serial

LEMMA NextSerial == Serial /\ Apart /\ [Next]_vars => Serial'
<1> SUFFICES ASSUME Serial, Apart, [Next]_vars PROVE Serial'
  OBVIOUS
<1>0. Inv'
  BY NextInv DEF Serial
<1>1. CASE Request
  BY <1>0, <1>1, RequestBegins, BeginSerial, LifecycleSerial, EditListsSerial
<1>2. ASSUME NEW w \in Workers, Step(w) PROVE Serial'
  BY <1>0, <1>2, StepSerial, LoopSerial DEF Workers
<1>3. CASE Environment
  BY <1>0, <1>3, EnvironmentMild, MildStep DEF Environment, storeVars, Serial
<1>4. CASE Crash
  BY <1>0, <1>4, UnchangedMild, AllIdleSerial DEF Crash, storeVars
<1>5. CASE Reboot
  BY <1>0, <1>5, RebootMild, AllIdleSerial DEF Reboot, storeVars, Serial
<1>6. CASE UNCHANGED vars
  BY <1>0, <1>6, UnchangedMild, MildStep DEF vars, Serial
<1> QED BY <1>1, <1>2, <1>3, <1>4, <1>5, <1>6 DEF Next

\* Serial holds in every reachable state while no two requests are after one
\* instance, through every fault, abort, crash and reboot: each call
\* ensure_running, remove and update make finds the containers where the calls
\* of the same request left them, whatever is done to other instances meanwhile.
THEOREM SerialInvariant == Spec /\ []Apart => []Serial
<1> QED BY InitSerial, NextSerial, PTL DEF Spec

\* No container that carries an instance's name runs over a deleted list
\* directory: remove() deletes the lists only after the container, and every
\* container that takes the name is created after ensure() made them.
THEOREM NoDanglingMounts == Spec /\ []Apart => []MountsNeverDangle
<1>1. Serial => MountsNeverDangle
  BY DEF Serial
<1> QED BY <1>1, SerialInvariant, PTL

-----------------------------------------------------------------------------
(* What a step does to the containers, by label.                           *)

LEMMA LoopEffect ==
  ASSUME Serial, Step(Loop)
  PROVE  \/ UNCHANGED cont
         \/ /\ task[Loop].pc = "lcAct" /\ task[Loop].old \in DOMAIN cont
            /\ \/ task[Loop].op = "start" /\ StartContainer(task[Loop].old)
               \/ task[Loop].op = "stop" /\ StopContainer(task[Loop].old)
               \/ task[Loop].op = "restart" /\ cont' = [cont EXCEPT ![task[Loop].old] = Started(@)]
<1>1. /\ task[Loop].pc \in {"lcFind", "lcAct", "returned", "raised"}
      /\ task[Loop].op \in LoopOps /\ task[Loop] \in Task
  BY StepOthers, LoopWorker, LoopLabel DEF Serial
<1>2. CASE LifecycleAct(Loop)
  <2>0. PICK x : x = task[Loop].old
    OBVIOUS
  <2>1. task[Loop].pc = "lcAct"
    BY <1>2 DEF LifecycleAct, At
  <2>2. \/ Exists(x) /\ StartContainer(x) /\ task[Loop].op = "start"
        \/ Exists(x) /\ StopContainer(x) /\ task[Loop].op = "stop"
        \/ Exists(x) /\ cont' = [cont EXCEPT ![x] = Started(@)] /\ task[Loop].op = "restart"
        \/ UNCHANGED cont
    BY <1>1, <1>2, <2>0
       DEF LifecycleAct, Call, CanStart, StartContainer, StopContainer, LoopOps
  <2> QED BY <2>0, <2>1, <2>2 DEF Exists
<1>3. CASE ~LifecycleAct(Loop)
  BY <1>1, <1>3 DEF Step, Work, DockerStep, EnsureStep, Look, Fast, FastStart, Sweep, FindStale,
     Remove, Create, StopOld, Park, Rename, Spill, Promote, StartNew, WaitHealthy, Retire,
     Discard, Unpark, Revive, RemoveStep, FindMain, RemoveVolume, DeleteLists, LifecycleStep,
     DockerFault, Refuse, Abort, Note, Put, DeleteFiles, FileStep, NextInstance, Returned,
     Raised, Verify, VerifyAborts, At
<1> QED BY <1>2, <1>3

\* What the Engine and the containers do on their own: no call stopped a
\* container, and none starts that was never started.
Autonomous ==
  /\ Mild
  /\ \A x \in DOMAIN cont : /\ cont'[x].manual = cont[x].manual
                            /\ cont'[x].state = "created" <=> cont[x].state = "created"

LEMMA EngineAutonomous == ASSUME Inv, Environment \/ Reboot PROVE Autonomous
<1>1. CASE Reboot
  BY <1>1, RebootMild DEF Reboot, HostDown, Halted, Inv, TypeOK, EngineTypeOK, Container, Autonomous
<1>2. CASE Environment
  <2>1. PICK x \in DOMAIN cont : Probe(x) \/ Exit(x) \/ PolicyRestart(x)
    BY <1>2 DEF Environment, EngineNext
  <2>2. cont[x] \in Container
    BY DEF Inv, TypeOK, EngineTypeOK
  <2>3. CASE Probe(x)
    <3>1. PICK h : cont' = [cont EXCEPT ![x].health = h]
      BY <2>3 DEF Probe
    <3> QED BY <1>2, <2>2, <3>1, EnvironmentMild DEF Container, Autonomous
  <2>4. CASE Exit(x)
    BY <1>2, <2>2, <2>4, EnvironmentMild DEF Exit, Halted, Container, Autonomous, Running
  <2>5. CASE PolicyRestart(x)
    BY <1>2, <2>2, <2>5, EnvironmentMild DEF PolicyRestart, Started, Container, Autonomous
  <2> QED BY <2>1, <2>3, <2>4, <2>5
<1> QED BY <1>1, <1>2

\* A container keeps its instance, its definition and its gate; a new one
\* has an id no task holds.
LEMMA ContainersKeep ==
  ASSUME Serial, [Next]_vars, NEW x \in DOMAIN cont'
  PROVE  \/ /\ x \in DOMAIN cont
            /\ cont'[x].inst = cont[x].inst /\ cont'[x].def = cont[x].def
            /\ cont[x].accepted => cont'[x].accepted
         \/ /\ x \notin DOMAIN cont /\ x \in FreshIds /\ ~cont'[x].accepted /\ cont'[x].slot = "new"
<1> DEFINE Kept == /\ x \in DOMAIN cont
                   /\ cont'[x].inst = cont[x].inst /\ cont'[x].def = cont[x].def
                   /\ cont[x].accepted => cont'[x].accepted
<1>0. \A y \in DOMAIN cont : cont[y] \in Container
  BY DEF Serial, Inv, TypeOK, EngineTypeOK
<1>1. ASSUME Mild PROVE Kept
  BY <1>1 DEF Mild
<1>2. ASSUME NEW w \in Threads, Step(w)
      PROVE  Kept \/ (/\ x \notin DOMAIN cont /\ x \in FreshIds
                      /\ ~cont'[x].accepted /\ cont'[x].slot = "new")
  <2>1. ASSUME NEW y, RemoveContainer(y) PROVE Kept
    BY <2>1 DEF RemoveContainer
  <2>2. ASSUME NEW y, NEW s, RenameTo(y, s) PROVE Kept
    BY <1>0, <2>2 DEF RenameTo, Container
  <2>3. ASSUME NEW y, StartContainer(y) PROVE Kept
    BY <1>0, <2>3 DEF StartContainer, Started, Container
  <2>6. ASSUME NEW y, StopContainer(y) PROVE Kept
    BY <1>0, <2>6 DEF StopContainer, Halted, Container
  <2>4. ASSUME NEW y, cont' = [cont EXCEPT ![y].accepted = TRUE] PROVE Kept
    BY <1>0, <2>4 DEF Container
  <2>5. ASSUME NEW y \in FreshIds, NEW i, NEW d, CreateOn(y, i, d)
        PROVE  Kept \/ (/\ x \notin DOMAIN cont /\ x \in FreshIds
                        /\ ~cont'[x].accepted /\ cont'[x].slot = "new")
    <3>1. CASE x = y
      BY <2>5, <3>1 DEF CreateOn, New, FreshIds
    <3>2. CASE x # y
      BY <2>5, <3>2 DEF CreateOn
    <3> QED BY <3>1, <3>2
  <2> HIDE DEF Kept
  <2>7. CASE UNCHANGED cont
    BY <1>1, <2>7, UnchangedMild
  <2> QED BY <1>2, <2>1, <2>2, <2>3, <2>4, <2>5, <2>6, <2>7, ThreadEffect DEF Effect
<1>3. ASSUME Step(Loop) PROVE Mild
  BY <1>3, LoopStep, NextInv DEF Serial
<1>4. CASE Environment \/ Crash \/ Reboot \/ Request \/ UNCHANGED vars
  <2>1. Mild
    BY <1>4, EngineAutonomous, RequestBegins, UnchangedMild
       DEF Autonomous, Crash, Begin, Lifecycle, EditLists, vars, Serial
  <2> QED BY <1>1, <2>1
<1> QED BY <1>1, <1>2, <1>3, <1>4 DEF Next, Workers

-----------------------------------------------------------------------------
(* A matching container is left alone.                                     *)

\* The container a lifecycle call is about to act on is the instance's: ids
\* are not handed out again while a task holds them.
LoopHolds ==
  task[Loop].pc = "lcAct" /\ task[Loop].old \in DOMAIN cont =>
    cont[task[Loop].old].inst = task[Loop].inst

LEMMA LoopHoldsNext == ASSUME Serial, LoopHolds, [Next]_vars PROVE LoopHolds'
<1>1. CASE task'[Loop] = task[Loop]
  <2>1. task[Loop].old \notin FreshIds
    BY LoopWorker DEF FreshIds
  <2> QED BY <1>1, <2>1, ContainersKeep DEF LoopHolds
<1>2. CASE task'[Loop].pc # "lcAct"
  BY <1>2 DEF LoopHolds
<1>3. CASE Step(Loop) /\ task'[Loop].pc = "lcAct"
  <2>1. PICK x \in Lookup(task[Loop].inst, "main") :
          /\ task' = [task EXCEPT ![Loop].old = x,
                        ![Loop].pc = IF x = None THEN "returned" ELSE "lcAct"]
          /\ UNCHANGED cont
    <3>1. task[Loop].pc \in {"lcFind", "lcAct", "returned", "raised"}
          /\ task[Loop].op \in LoopOps /\ task[Loop] \in Task
      BY <1>3, StepOthers, LoopWorker, LoopLabel DEF Serial
    <3>2. CASE FindMain(Loop, "lcFind", "lcAct", "returned")
      BY <3>2 DEF FindMain, Inst
    <3>3. CASE ~FindMain(Loop, "lcFind", "lcAct", "returned")
      <4>1. \A l : Goto(Loop, l) => l = "lcAct"
        BY <1>3, LoopWorker, GotoFields DEF Serial
      <4>2. ~(\E e \in BOOLEAN : Finish(Loop, e)) /\ ~Undo(Loop)
        <5>1. ~(task' = [task EXCEPT ![Loop] = Idle])
          BY <1>3, LoopWorker DEF Serial, Idle, Inv, TypeOK, DockerTypeOK
        <5> QED BY <1>3, <5>1, LoopWorker, FinishFields, UndoFields DEF Serial
      <4> QED BY <1>3, <3>1, <3>3, <4>1, <4>2
        DEF Step, Work, DockerStep, EnsureStep, Look, Fast, FastStart, Sweep, FindStale,
        Remove, Create, StopOld, Park, Rename, Spill, Promote, StartNew, WaitHealthy, Retire,
        Discard, Unpark, Revive, RemoveStep, FindMain, RemoveVolume, DeleteLists, LifecycleStep,
        LifecycleAct, DockerFault, Refuse, Abort, Note, Put, DeleteFiles, FileStep, NextInstance,
        Returned, Raised, Verify, VerifyAborts, At, Handler, Call
    <3> QED BY <3>2, <3>3
  <2>2. task'[Loop].old = x /\ task'[Loop].inst = task[Loop].inst
    BY <2>1, LoopWorker DEF Serial, Inv, TypeOK, DockerTypeOK, Task
  <2>3. x \in DOMAIN cont => cont[x].inst = task[Loop].inst
    BY <2>1, NoneAssumption DEF Lookup, Named, Serial, Inv, TypeOK, EngineTypeOK
  <2> QED BY <2>1, <2>2, <2>3 DEF LoopHolds
<1>4. CASE Crash \/ Reboot
  <2>1. task'[Loop] = Idle
    BY <1>4, LoopWorker DEF Crash, Reboot
  <2> QED BY <2>1 DEF LoopHolds, Idle
<1>5. CASE Request
  <2>1. ASSUME NEW w \in Threads, NEW t, Begin(w, t) PROVE task'[Loop] = task[Loop]
    BY <2>1, LoopWorker DEF Begin, Serial, Inv, TypeOK, DockerTypeOK
  <2>2. ASSUME NEW op, NEW i, Lifecycle(op, i) PROVE task'[Loop].pc # "lcAct"
    BY <2>2, LoopWorker DEF Lifecycle, Begin, Serial, Inv, TypeOK, DockerTypeOK, Idle
  <2>3. ASSUME NEW i, EditLists(i) PROVE task'[Loop] = task[Loop]
    BY <2>3 DEF EditLists
  <2> QED BY <1>1, <1>2, <1>5, <2>1, <2>2, <2>3, RequestBegins
<1>6. CASE Environment \/ UNCHANGED vars
  BY <1>1, <1>6 DEF Environment, vars
<1>7. ASSUME NEW w \in Threads, Step(w) PROVE task'[Loop] = task[Loop]
  BY <1>7, StepOthers, LoopWorker DEF Serial
<1> QED BY <1>1, <1>2, <1>3, <1>4, <1>5, <1>6, <1>7 DEF Next, Workers

MatchingStep ==
  \A x \in DOMAIN cont :
    LET c == cont[x] IN
    (/\ c.slot = "main" /\ c.accepted /\ c.def = yaml[c.inst] /\ ~c.manual
     /\ ~Deleting(c.inst) /\ ~Stopping(c.inst))
      => /\ x \in DOMAIN cont'
         /\ cont'[x].slot = "main" /\ ~cont'[x].manual

LEMMA MatchingNext == ASSUME Serial, LoopHolds, [Next]_vars PROVE MatchingStep
<1> SUFFICES ASSUME NEW x \in DOMAIN cont, cont[x].slot = "main", cont[x].accepted,
                    cont[x].def = yaml[cont[x].inst], ~cont[x].manual,
                    ~Deleting(cont[x].inst), ~Stopping(cont[x].inst)
             PROVE  x \in DOMAIN cont' /\ cont'[x].slot = "main" /\ ~cont'[x].manual
  BY DEF MatchingStep
<1> DEFINE Left == x \in DOMAIN cont' /\ cont'[x].slot = "main" /\ ~cont'[x].manual
<1>0. \A y \in DOMAIN cont : cont[y] \in Container
  BY DEF Serial, Inv, TypeOK, EngineTypeOK
<1>1. ASSUME NEW w \in Threads, Step(w) PROVE Left
  <2> USE DEF AfterLook, FastLabels, SweepLabels, BuiltLabels, SwapLabels
  <2> DEFINE t == task[w]
  <2>1. task[w].pc = "idle" \/ task[w].pc = "next" \/ (Shape(t) /\ Stored(t) /\ ThreadTask(t))
    BY Busy
  <2>2. CASE UNCHANGED cont
    BY <2>2
  <2>3. ASSUME NEW y, RemoveContainer(y), y # x PROVE Left
    BY <2>3 DEF RemoveContainer
  <2>4. ASSUME NEW y, NEW s, RenameTo(y, s), y # x PROVE Left
    BY <2>4 DEF RenameTo
  <2>5. ASSUME NEW y, StartContainer(y) PROVE Left
    BY <1>0, <2>5 DEF StartContainer, Started, Container
  <2>6. ASSUME NEW y, StopContainer(y), y # x PROVE Left
    BY <2>6 DEF StopContainer
  <2>7. ASSUME NEW y, cont' = [cont EXCEPT ![y].accepted = TRUE] PROVE Left
    BY <1>0, <2>7 DEF Container
  <2>8. ASSUME NEW y \in FreshIds, NEW i, NEW d, CreateOn(y, i, d) PROVE Left
    BY <2>8 DEF CreateOn, FreshIds
  <2>9. t.pc \in {"dropNew", "dropOld", "spill", "discard"} => t.new # x
    BY <2>1 DEF Shape, Candidate, Held
  <2>10. t.pc = "retire" => t.old # x
    BY <2>1 DEF Shape, Held
  <2>11. t.pc = "rmDrop" => t.old # x
    BY <2>1, LoopWorker DEF Shape, Held, ThreadTask, RemoveLabels, Deleting, Inst
  <2>12. t.pc \in {"stop", "park"} => t.old # x
    BY <2>1 DEF Shape, Outdated, Held, Stored
  <2>13. t.pc = "promote" => t.new # x
    BY <2>1 DEF Shape, Candidate, Held
  <2>14. t.pc = "unpark" => t.old # x
    BY <2>1 DEF Shape, Held
  <2> HIDE DEF Left
  <2> QED BY <1>1, <2>2, <2>3, <2>4, <2>5, <2>6, <2>7, <2>8, <2>9, <2>10, <2>11, <2>12, <2>13,
             <2>14, ThreadEffect DEF Effect
<1>2. CASE Step(Loop)
  <2>0. PICK y : y = task[Loop].old
    OBVIOUS
  <2>1. CASE UNCHANGED cont
    BY <2>1
  <2>2. CASE StartContainer(y)
    BY <1>0, <2>2 DEF StartContainer, Started, Container
  <2>3. CASE cont' = [cont EXCEPT ![y] = Started(@)]
    BY <1>0, <2>3 DEF Started, Container
  <2>4. CASE task[Loop].pc = "lcAct" /\ y \in DOMAIN cont /\ task[Loop].op = "stop" /\ StopContainer(y)
    <3>1. y # x
      BY <2>0, <2>4 DEF LoopHolds, Stopping, Inst
    <3> QED BY <2>4, <3>1 DEF StopContainer
  <2> QED BY <1>2, <2>0, <2>1, <2>2, <2>3, <2>4, LoopEffect
<1>3. CASE Environment \/ Reboot
  <2>1. Autonomous
    BY <1>3, EngineAutonomous DEF Serial
  <2> QED BY <2>1 DEF Autonomous, Mild
<1>4. CASE Crash \/ Request \/ UNCHANGED vars
  BY <1>4, RequestBegins DEF Crash, Begin, Lifecycle, EditLists, vars
<1> QED BY <1>1, <1>2, <1>3, <1>4 DEF Next, Workers

\* Whatever fails around it, a container that runs as its instance is defined
\* is not stopped, renamed or removed by anything but a delete or a stop: the
\* label comparison of ensure_running keeps every reconcile off it.
THEOREM MatchingUntouched == Spec /\ []Apart => MatchingLeftAlone
<1>1. Init => LoopHolds
  <2>1. Init => task[Loop] = Idle
    BY LoopWorker DEF Init
  <2> QED BY <2>1 DEF LoopHolds, Idle
<1>2. Serial /\ LoopHolds /\ [Next]_vars => LoopHolds'
  BY LoopHoldsNext
<1>3. Serial /\ LoopHolds /\ [Next]_vars => [MatchingStep]_vars
  BY MatchingNext
<1>4. MatchingLeftAlone <=> [][MatchingStep]_vars
  BY PTL DEF MatchingLeftAlone, MatchingStep
<1> QED BY <1>1, <1>2, <1>3, <1>4, SerialInvariant, PTL DEF Spec

-----------------------------------------------------------------------------
(* The labels a thread's step leads to.                                    *)

Follows(l) ==
  (IF l \in CallLabels THEN {"raised"} ELSE {}) \cup
  CASE l = "look" -> {"fast", "findNew"}
    [] l = "fast" -> {"returned", "fastStart"}
    [] l = "fastStart" -> {"returned"}
    [] l = "findNew" -> {"dropNew", "findOld"}
    [] l = "dropNew" -> {"findOld"}
    [] l = "findOld" -> {"dropOld", "create"}
    [] l = "dropOld" -> {"create"}
    [] l = "create" -> {"promote", "stop"}
    [] l = "stop" -> {"park", "spill"}
    [] l = "park" -> {"promote", "spill"}
    [] l = "promote" -> {"start", "discard"}
    [] l = "start" -> {"wait", "discard"}
    [] l = "wait" -> {"returned", "retire", "discard"}
    [] l = "retire" -> {"returned"}
    [] l = "discard" -> {"unpark"}
    [] l = "unpark" -> {"revive"}
    [] l = "rmFind" -> {"rmDrop", "rmCache"}
    [] l = "rmDrop" -> {"rmCache"}
    [] l = "rmCache" -> {"rmLogs", "rmLists"}
    [] l = "rmLogs" -> {"rmLists"}
    [] l = "rmLists" -> {"returned"}
    [] l = "rmPrev" -> {"rmYaml"}
    [] l = "rmYaml" -> {"idle"}
    [] l = "note" -> {"put"}
    [] l = "put" -> {"putWrite"}
    [] l = "putWrite" -> {"look"}
    [] l = "next" -> {"idle", "look", "next", "note"}
    [] l = "returned" -> {"raised", "rmPrev", "verify", "idle", "next"}
    [] l \in {"raised", "verify"} -> {"put", "idle", "next"}
    [] OTHER -> {}

\* The labels at which a request ends, or its batch goes on.
Turns == {"next", "returned", "raised", "verify", "rmYaml"}

\* Within ensure_running and remove a task keeps its request; `old` and
\* `new` change where a lookup or a create answers.
KeepsRequest(w) ==
  /\ task'[w].op = task[w].op /\ task'[w].undo = task[w].undo /\ task'[w].keep = task[w].keep
  /\ task'[w].inst = task[w].inst /\ task'[w].def = task[w].def /\ task'[w].base = task[w].base
  /\ task'[w].goal = task[w].goal /\ task'[w].todo = task[w].todo
  /\ task'[w].failed = task[w].failed
  /\ task[w].pc \notin {"look", "rmFind"} => task'[w].old = task[w].old
  /\ task[w].pc \notin {"look", "findNew", "findOld", "create"} => task'[w].new = task[w].new

LEMMA EnsureLabelStep ==
  ASSUME Serial, NEW w \in Threads, EnsureStep(w)
  PROVE  task'[w].pc \in Follows(task[w].pc) /\ KeepsRequest(w) /\ task[w].pc \notin Turns
<1> USE DEF KeepsRequest, Follows, CallLabels, TryLabels, Turns
<1>0. w \in Workers /\ task \in [Workers -> Task] /\ task[w] \in Task
  BY LoopWorker DEF Serial, Inv, TypeOK, DockerTypeOK
<1>1. ASSUME NEW l, Goto(w, l) PROVE task'[w].pc = l /\ KeepsRequest(w)
  BY <1>0, <1>1, GotoFields DEF Serial
<1>2. CASE Look(w)
  <2>1. PICK x, l : task' = [task EXCEPT ![w].old = x, ![w].new = None, ![w].pc = l]
                    /\ l \in {"fast", "findNew"} /\ task[w].pc = "look"
    BY <1>2 DEF Look, At
  <2> QED BY <1>0, <2>1 DEF Task
<1>3. CASE Fast(w)
  <2>1. PICK l \in {"raised", "returned", "fastStart"} : Goto(w, l) /\ task[w].pc = "fast"
    BY <1>3 DEF Fast, At
  <2> QED BY <1>1, <2>1
<1>4. CASE Sweep(w)
  <2>1. CASE FindStale(w, "findNew", "new", "dropNew", "findOld")
    <3>1. PICK x, l : task' = [task EXCEPT ![w].new = x, ![w].pc = l]
                    /\ l \in {"dropNew", "findOld"} /\ task[w].pc = "findNew"
      BY <2>1 DEF FindStale, At
    <3> QED BY <1>0, <3>1 DEF Task
  <2>2. CASE FindStale(w, "findOld", "old", "dropOld", "create")
    <3>1. PICK x, l : task' = [task EXCEPT ![w].new = x, ![w].pc = l]
                    /\ l \in {"dropOld", "create"} /\ task[w].pc = "findOld"
      BY <2>2 DEF FindStale, At
    <3> QED BY <1>0, <3>1 DEF Task
  <2>3. CASE Remove(w, "dropNew", task[w].new, "findOld") \/ Remove(w, "dropOld", task[w].new, "create")
    BY <1>1, <2>3 DEF Remove, Call, Handler, At
  <2> QED BY <1>4, <2>1, <2>2, <2>3 DEF Sweep
<1>5. CASE Create(w)
  <2>1. CASE Goto(w, "raised")
    BY <1>1, <1>5, <2>1 DEF Create, At
  <2>2. CASE ~Goto(w, "raised")
    <3>1. PICK x, l : task' = [task EXCEPT ![w].new = x, ![w].pc = l]
                    /\ l \in {"promote", "stop"} /\ task[w].pc = "create"
      BY <1>5, <2>2 DEF Create, At
    <3> QED BY <1>0, <3>1 DEF Task
  <2> QED BY <2>1, <2>2
<1>6. CASE FastStart(w) \/ StopOld(w) \/ StartNew(w) \/ Revive(w)
  BY <1>1, <1>6 DEF FastStart, StopOld, StartNew, Revive, Call, Handler, At
<1>7. CASE Park(w) \/ Promote(w) \/ Unpark(w)
  BY <1>1, <1>7 DEF Park, Promote, Unpark, Rename, Call, Handler, At
<1>8. CASE Spill(w) \/ Retire(w) \/ Discard(w)
  BY <1>1, <1>8 DEF Spill, Retire, Discard, Remove, Call, Handler, At
<1>9. CASE WaitHealthy(w)
  BY <1>1, <1>9 DEF WaitHealthy, At
<1> QED BY <1>2, <1>3, <1>4, <1>5, <1>6, <1>7, <1>8, <1>9 DEF EnsureStep

LEMMA RemoveLabelStep ==
  ASSUME Serial, NEW w \in Threads, RemoveStep(w)
  PROVE  task'[w].pc \in Follows(task[w].pc) /\ KeepsRequest(w) /\ task[w].pc \notin Turns
<1> USE DEF KeepsRequest, Follows, CallLabels, TryLabels, Turns
<1>0. w \in Workers /\ task \in [Workers -> Task] /\ task[w] \in Task
  BY LoopWorker DEF Serial, Inv, TypeOK, DockerTypeOK
<1>1. ASSUME NEW l, Goto(w, l) PROVE task'[w].pc = l /\ KeepsRequest(w)
  BY <1>0, <1>1, GotoFields DEF Serial
<1>2. CASE FindMain(w, "rmFind", "rmDrop", "rmCache")
  <2>1. PICK x, l : task' = [task EXCEPT ![w].old = x, ![w].pc = l]
                    /\ l \in {"rmDrop", "rmCache"} /\ task[w].pc = "rmFind"
    BY <1>2 DEF FindMain, At
  <2> QED BY <1>0, <2>1 DEF Task
<1>3. CASE ~FindMain(w, "rmFind", "rmDrop", "rmCache")
  BY <1>1, <1>3 DEF RemoveStep, Remove, Call, Handler, RemoveVolume, DeleteLists, At
<1> QED BY <1>2, <1>3

LEMMA LabelStep ==
  ASSUME Serial, NEW w \in Threads, Step(w)
  PROVE  /\ task'[w].pc \in Follows(task[w].pc)
         /\ task[w].pc \notin Turns => KeepsRequest(w)
<1> USE DEF KeepsRequest, Follows, CallLabels, TryLabels, Turns
<1>0. w \in Workers /\ task \in [Workers -> Task] /\ task[w] \in Task
  BY LoopWorker DEF Serial, Inv, TypeOK, DockerTypeOK
<1>1. ASSUME NEW l, Goto(w, l) PROVE task'[w].pc = l /\ KeepsRequest(w)
  BY <1>0, <1>1, GotoFields DEF Serial
<1>2. CASE DockerStep(w)
  <2>1. ~LifecycleStep(w)
    BY DEF LifecycleStep, FindMain, LifecycleAct, At, Serial, ThreadTask
  <2> QED BY <1>2, <2>1, EnsureLabelStep, RemoveLabelStep DEF DockerStep
<1>3. CASE DockerFault(w)
  <2>1. CASE Refuse(w)
    BY <1>1, <2>1 DEF Refuse, Handler
  <2>2. CASE Abort(w)
    BY <1>1, <2>2 DEF Abort, At
  <2> QED BY <1>3, <2>1, <2>2 DEF DockerFault
<1>4. CASE Note(w) \/ Put(w)
  BY <1>1, <1>4 DEF Note, Put, FileStep, At
<1>5. CASE DeleteFiles(w)
  <2>1. CASE FileStep(w, "rmPrev", "rmYaml")
    BY <1>1, <2>1 DEF FileStep, At
  <2>2. CASE task[w].pc = "rmYaml" /\ task' = [task EXCEPT ![w] = Idle]
    BY <1>0, <2>2 DEF Idle
  <2> QED BY <1>5, <2>1, <2>2 DEF DeleteFiles, At
<1>6. CASE NextInstance(w)
  <2>1. task[w].pc = "next"
    BY <1>6 DEF NextInstance, At
  <2>2. CASE task' = [task EXCEPT ![w] = Idle]
    BY <1>0, <2>1, <2>2 DEF Idle
  <2>3. CASE task'[w].pc \in {"look", "next", "note"}
    BY <2>1, <2>3
  <2> QED BY <1>0, <1>6, <2>2, <2>3, NextFields DEF Serial
<1>7. CASE Returned(w) \/ Raised(w) \/ Verify(w) \/ VerifyAborts(w)
  <2>1. ASSUME NEW e \in BOOLEAN, Finish(w, e) PROVE task'[w].pc \in {"idle", "next"}
    <3>1. task' = [task EXCEPT ![w] = Idle] => task'[w].pc = "idle"
      BY <1>0 DEF Idle
    <3> QED BY <1>0, <2>1, <3>1, FinishFields DEF Serial
  <2>2. Undo(w) => task'[w].pc = "put"
    BY <1>0, UndoFields DEF Serial
  <2>3. CASE Returned(w)
    BY <1>1, <2>1, <2>3 DEF Returned, At
  <2>4. CASE Raised(w)
    BY <2>1, <2>2, <2>4 DEF Raised, At
  <2>5. CASE Verify(w) \/ VerifyAborts(w)
    BY <2>1, <2>2, <2>5 DEF Verify, VerifyAborts, At
  <2> QED BY <1>7, <2>3, <2>4, <2>5
<1> QED BY <1>2, <1>3, <1>4, <1>5, <1>6, <1>7 DEF Step, Work

\* How a request ends, or its batch goes on.
LEMMA TurnStep ==
  ASSUME Serial, NEW w \in Threads, Step(w), task[w].pc \in Turns
  PROVE  /\ UNCHANGED <<cont, vols, lists, prev>>
         /\ \/ task[w].pc = "returned" /\ task[w].op = "delete" /\ Goto(w, "rmPrev")
            \/ task[w].pc = "returned" /\ task[w].op # "delete" /\ Updating(w) /\ Goto(w, "verify")
            \/ task[w].pc = "returned" /\ task[w].op # "delete" /\ ~Updating(w) /\ Finish(w, FALSE)
            \/ task[w].pc = "returned" /\ task[w].op # "delete" /\ "abort" \in Hazards
               /\ Goto(w, "raised")
            \/ task[w].pc = "raised" /\ Updating(w) /\ Undo(w)
            \/ task[w].pc = "raised" /\ ~Updating(w) /\ Finish(w, TRUE)
            \/ task[w].pc = "verify" /\ Verify(w)
            \/ task[w].pc = "verify" /\ VerifyAborts(w)
            \/ task[w].pc = "next" /\ NextInstance(w)
            \/ task[w].pc = "rmYaml" /\ task' = [task EXCEPT ![w] = Idle]
<1>1. ~DockerStep(w) /\ ~Refuse(w) /\ ~Note(w) /\ ~Put(w)
  <2>1. ~EnsureStep(w)
    BY DEF Turns, EnsureStep, Look, Fast, FastStart, Sweep, FindStale, Remove, Create, StopOld,
       Park, Rename, Spill, Promote, StartNew, WaitHealthy, Retire, Discard, Unpark, Revive, At
  <2> QED BY <2>1 DEF Turns, DockerStep, RemoveStep, FindMain, Remove, RemoveVolume, DeleteLists,
       LifecycleStep, LifecycleAct, Refuse, CallLabels, TryLabels, Note, Put, FileStep, At
<1>2. CASE Returned(w)
  BY <1>2 DEF Returned, At, storeVars
<1>3. CASE Raised(w)
  BY <1>3 DEF Raised, At, storeVars
<1>4. CASE Verify(w) \/ VerifyAborts(w)
  BY <1>4 DEF Verify, VerifyAborts, At, storeVars
<1>5. CASE NextInstance(w)
  BY <1>5 DEF NextInstance, At, storeVars
<1>6. CASE DeleteFiles(w)
  BY <1>6 DEF DeleteFiles, FileStep, At, Turns
<1>7. CASE Abort(w) /\ UNCHANGED storeVars
  BY <1>7 DEF Abort, At, storeVars, Turns, CallLabels, TryLabels
<1> QED BY <1>1, <1>2, <1>3, <1>4, <1>5, <1>6, <1>7 DEF Step, Work, DockerFault

-----------------------------------------------------------------------------
(* A deleted instance stays off, unless an admin starts it meanwhile.      *)

Cold(x) == cont[x].state = "created" \/ cont[x].manual
NoStarts == Ops \cap {"start", "restart"} = {}

Off ==
  /\ task[Loop].op \notin {"start", "restart"}
  /\ \A x \in DOMAIN cont : cont[x].slot = "old" => Cold(x)
  /\ \A w \in Threads : At(w, "park") => Cold(task[w].old)
  /\ NothingServesUndefined

\* Every container under an instance's name that a step starts is one of an
\* instance that is stored.
LEMMA StoredDef ==
  ASSUME Serial, NEW w \in Threads, task[w].pc \in AfterLook
  PROVE  /\ yaml[task[w].inst] = task[w].def /\ task[w].def \in Def /\ task[w].def # None
         /\ Shape(task[w])
<1>1. task[w].pc \notin {"idle", "next"} /\ task[w].pc \in EnsureLabels
  BY DEF AfterLook, FastLabels, SweepLabels, BuiltLabels, SwapLabels, EnsureLabels
<1>2. task[w].def \in Def
  BY <1>1, LoopWorker DEF Serial, Inv, WellFormed
<1> QED BY <1>1, <1>2, Busy, NoneAssumption DEF Stored, Def

LEMMA OffThread ==
  ASSUME Serial, Off, Apart, NEW w \in Threads, Step(w), Serial'
  PROVE  Off'
<1> USE DEF AfterLook, FastLabels, SweepLabels, BuiltLabels, SwapLabels
<1> DEFINE t == task[w]
<1>0. \A y \in DOMAIN cont : cont[y] \in Container
  BY DEF Serial, Inv, TypeOK, EngineTypeOK
<1>1. task'[Loop] = task[Loop] /\ t.pc # "idle"
  BY StepOthers, LoopWorker DEF Serial
<1>2. /\ t.pc \in AfterLook => yaml[t.inst] # None /\ Shape(t)
      /\ t.pc = "rmYaml" => Shape(t)
  BY StoredDef, Busy
<1>3. ASSUME NEW x \in DOMAIN cont', cont'[x].slot = "old" PROVE Cold(x)'
  <2>1. CASE x \in DOMAIN cont /\ cont'[x] = cont[x]
    BY <1>3, <2>1 DEF Off, Cold
  <2>2. CASE ~(x \in DOMAIN cont /\ cont'[x] = cont[x])
    <3>1. ASSUME NEW y, RemoveContainer(y) PROVE FALSE
      BY <2>2, <3>1 DEF RemoveContainer
    <3>2. ASSUME NEW y \in FreshIds, NEW i, NEW d, CreateOn(y, i, d) PROVE FALSE
      BY <1>3, <2>2, <3>2 DEF CreateOn, New, FreshIds
    <3>3. ASSUME NEW y, StopContainer(y) PROVE Cold(x)'
      BY <1>0, <2>2, <3>3 DEF StopContainer, Halted, Container, Cold
    <3>4. ASSUME NEW y, NEW s, RenameTo(y, s) PROVE x = y /\ s = "old" /\ (Cold(x) => Cold(x)')
      BY <1>0, <1>3, <2>2, <3>4 DEF RenameTo, Container, Cold
    <3>5. t.pc = "park" => Cold(t.old)
      BY DEF Off, At
    <3>6. ASSUME NEW y, NEW j, Held(y, j, "main"), StartContainer(y) PROVE FALSE
      BY <1>0, <1>3, <2>2, <3>6 DEF StartContainer, Started, Container, Held
    <3>7. ASSUME NEW y, cont' = [cont EXCEPT ![y].accepted = TRUE] PROVE Cold(x)'
      <4>1. x \in DOMAIN cont /\ cont[x].slot = "old" /\ cont'[x].state = cont[x].state
            /\ cont'[x].manual = cont[x].manual
        BY <1>0, <1>3, <3>7 DEF Container
      <4> QED BY <4>1 DEF Off, Cold
    <3>8. /\ t.pc \in {"fastStart", "revive"} => Held(t.old, t.inst, "main")
          /\ t.pc = "start" => Held(t.new, t.inst, "main")
      BY <1>2 DEF Shape, Candidate
    <3>9. ~(UNCHANGED cont)
      BY <2>2
    <3>10. \A y, s : RenameTo(y, s) => x = y /\ s = "old" /\ (Cold(x) => Cold(x)')
      BY <3>4
    <3>11. t.pc = "park" /\ RenameTo(t.old, "old") => Cold(x)'
      BY <3>5, <3>10
    <3>12. ~(t.pc = "promote" /\ RenameTo(t.new, "main")) /\ ~(t.pc = "unpark" /\ RenameTo(t.old, "main"))
      BY <3>10
    <3> QED BY <3>1, <3>2, <3>3, <3>6, <3>7, <3>8, <3>9, <3>11, <3>12, ThreadEffect DEF Effect
  <2> QED BY <2>1, <2>2
<1>4. ASSUME NEW v \in Threads, At(v, "park")' PROVE Cold(task[v].old)'
  <2>1. CASE v = w
    <3>1. t.pc = "stop" /\ task'[w].old = t.old
      BY <1>4, <2>1, LabelStep DEF At, Follows, Turns, KeepsRequest
    <3>2. Held(t.old, t.inst, "main")
      BY <1>2, <3>1 DEF Shape, Outdated
    <3>3. StopContainer(t.old)
      <4>1. UNCHANGED cont \/ StopContainer(t.old)
        BY <3>1, ThreadEffect DEF Effect
      <4>2. StopOld(w)
        <5>1. ~Refuse(w) /\ ~Abort(w)
          <6>1. \A l : Goto(w, l) => l = "park"
            BY <1>4, <2>1, LoopWorker, GotoFields DEF Serial, At
          <6> QED BY <3>1, <6>1 DEF Refuse, Abort, Handler
        <5> QED BY <3>1, <5>1
          DEF Step, Work, DockerStep, EnsureStep, Look, Fast, FastStart, Sweep, FindStale,
          Remove, Create, Park, Rename, Spill, Promote, StartNew, WaitHealthy, Retire,
          Discard, Unpark, Revive, RemoveStep, FindMain, RemoveVolume, DeleteLists, LifecycleStep,
          LifecycleAct, DockerFault, Note, Put, DeleteFiles, FileStep, NextInstance, Returned,
          Raised, Verify, VerifyAborts, At
      <4> QED BY <3>2, <4>2 DEF StopOld, Call, Exists, Held
    <3>4. Cold(t.old)'
      BY <1>0, <3>1, <3>2, <3>3 DEF StopContainer, Halted, Container, Cold, Held
    <3> QED BY <2>1, <3>1, <3>4 DEF Cold
  <2>2. CASE v # w
    <3>1. task'[v] = task[v]
      BY <2>2, StepOthers, LoopWorker DEF Serial
    <3>2. Held(task[v].old, task[v].inst, "main") /\ Cold(task[v].old)
      BY <1>4, <3>1, Busy DEF At, Off, Shape, Outdated
    <3>3. task[v].inst # t.inst
      <4>1. task[v].pc = "park" /\ task[v].inst \in Claims(v)
        BY <1>4, <3>1, Busy DEF Claims, Free, Inst, At
      <4> QED BY <1>1, <2>2, <4>1, NotClaimed
    <3> QED BY <3>1, <3>2, <3>3, OthersUntouched DEF Held, Cold
  <2> QED BY <2>1, <2>2
<1>5. NothingServesUndefined'
  <2> SUFFICES ASSUME NEW x \in DOMAIN cont', yaml'[cont'[x].inst] = None PROVE Cold(x)'
    BY DEF NothingServesUndefined, Cold
  <2>0. cont'[x].inst \in Instances
    BY DEF Serial, Inv, TypeOK, EngineTypeOK, Container
  <2>1. CASE yaml[cont'[x].inst] # None
    <3>1. t.pc = "rmYaml" /\ UNCHANGED cont /\ cont[x].inst = t.inst
      <4>1. UNCHANGED cont
        BY <2>0, <2>1, YamlStep
      <4>2. t.pc \in {"put", "putWrite"} => t.def # None
        BY Busy, LoopWorker, NoneAssumption DEF Serial, Inv, WellFormed, EnsureLabels, Def
      <4>3. cont'[x].inst = t.inst /\ t.pc = "rmYaml"
        BY <2>0, <2>1, <4>2, YamlStep, TornAssumption
      <4> QED BY <4>1, <4>3
    <3>2. cont[x].slot # "main"
      BY <1>2, <3>1 DEF Shape, Vacant, AfterDrop
    <3>3. Cold(x)
      BY <1>0, <3>1, <3>2 DEF Off, Cold, Serial, Inv, SpareNeverServes, Container
    <3> QED BY <3>1, <3>3 DEF Cold
  <2>2. CASE yaml[cont'[x].inst] = None
    <3>1. CASE x \in DOMAIN cont /\ cont'[x].inst = cont[x].inst /\ ~(Cold(x) => Cold(x)')
      <4>1. Cold(x)
        BY <2>2, <3>1 DEF Off, NothingServesUndefined, Cold
      <4> HIDE DEF t
      <4>2. ASSUME NEW y, NEW j, Held(y, j, "main"), StartContainer(y) PROVE x = y
        BY <3>1, <4>2 DEF StartContainer, Cold
      <4>3. ASSUME NEW y, RemoveContainer(y) PROVE FALSE
        BY <3>1, <4>3 DEF RemoveContainer, Cold
      <4>4. ASSUME NEW y \in FreshIds, NEW i, NEW d, CreateOn(y, i, d) PROVE FALSE
        BY <3>1, <4>4 DEF CreateOn, FreshIds, Cold
      <4>5. ASSUME NEW y, StopContainer(y) PROVE FALSE
        BY <1>0, <3>1, <4>5 DEF StopContainer, Halted, Container, Cold
      <4>6. ASSUME NEW y, NEW s, RenameTo(y, s) PROVE FALSE
        BY <1>0, <3>1, <4>6 DEF RenameTo, Container, Cold
      <4>7. ASSUME NEW y, cont' = [cont EXCEPT ![y].accepted = TRUE] PROVE FALSE
        BY <1>0, <3>1, <4>7 DEF Container, Cold
      <4>8. ~(UNCHANGED cont)
        BY <3>1 DEF Cold
      <4>9. /\ task[w].pc \in {"fastStart", "revive"} => Held(task[w].old, task[w].inst, "main")
            /\ task[w].pc = "start" => Held(task[w].new, task[w].inst, "main")
        BY <1>2 DEF Shape, Candidate, t
      <4>10. \/ x = task[w].old /\ task[w].pc \in {"fastStart", "revive"}
             \/ x = task[w].new /\ task[w].pc = "start"
        <5>1. ~(task[w].pc = "wait" /\ Passes(task[w].new)
                /\ cont' = [cont EXCEPT ![task[w].new].accepted = TRUE])
          BY <4>7
        <5>2. (\A y, s : ~RenameTo(y, s)) /\ (\A y : ~RemoveContainer(y) /\ ~StopContainer(y))
              /\ ~(UNCHANGED cont) /\ \A y \in FreshIds : \A i, d : ~CreateOn(y, i, d)
          BY <4>3, <4>4, <4>5, <4>6, <4>8
        <5> QED BY <4>2, <4>9, <5>1, <5>2, ThreadEffect DEF Effect
      <4> QED BY <1>2, <2>2, <3>1, <4>9, <4>10 DEF Held, t
    <3>2. CASE x \notin DOMAIN cont
      <4>1. ASSUME NEW y \in FreshIds, NEW i, NEW d, CreateOn(y, i, d) PROVE Cold(x)'
        BY <3>2, <4>1 DEF CreateOn, New, Cold
      <4>2. ~(UNCHANGED cont) /\ \A y : ~RemoveContainer(y) /\ ~StopContainer(y) /\ ~StartContainer(y)
              /\ ~(cont' = [cont EXCEPT ![y].accepted = TRUE]) /\ \A s : ~RenameTo(y, s)
        BY <3>2 DEF RemoveContainer, StopContainer, StartContainer, RenameTo
      <4> QED BY <4>1, <4>2, ThreadEffect DEF Effect
    <3>3. x \in DOMAIN cont => cont'[x].inst = cont[x].inst
      BY ContainersKeep DEF Next, Workers
    <3> QED BY <2>2, <3>1, <3>2, <3>3 DEF Off, NothingServesUndefined, Cold
  <2> QED BY <2>1, <2>2
<1> QED BY <1>1, <1>3, <1>4, <1>5 DEF Off

LEMMA OffCalm ==
  ASSUME Serial, Off, UNCHANGED yaml, Mild, \A x \in DOMAIN cont : Cold(x) => Cold(x)',
         task'[Loop].op \notin {"start", "restart"},
         \A w \in Threads : At(w, "park")' => task'[w] = task[w]
  PROVE  Off'
<1>1. \A x \in DOMAIN cont' : cont'[x].slot = "old" => Cold(x)'
  BY DEF Off, Mild
<1>2. ASSUME NEW w \in Threads, At(w, "park")' PROVE Cold(task[w].old)'
  <2>1. task'[w] = task[w] /\ task[w].pc = "park"
    BY <1>2 DEF At
  <2>2. Held(task[w].old, task[w].inst, "main")
    BY <2>1, Busy DEF Shape, Outdated, BuiltLabels
  <2> QED BY <2>1, <2>2 DEF Off, At, Held, Cold
<1>3. NothingServesUndefined'
  BY DEF Off, NothingServesUndefined, Mild, Cold
<1> QED BY <1>1, <1>2, <1>3 DEF Off

\* A lifecycle call stays the one it is until it is over.
LEMMA LoopOp == ASSUME Serial, Step(Loop) PROVE task'[Loop].op \in {task[Loop].op, "none"}
<1>1. ASSUME NEW l, Goto(Loop, l) PROVE task'[Loop].op = task[Loop].op
  BY <1>1, LoopWorker, GotoFields DEF Serial
<1>2. task' = [task EXCEPT ![Loop] = Idle] => task'[Loop].op = "none"
  BY LoopWorker DEF Serial, Inv, TypeOK, DockerTypeOK, Idle
<1>3. /\ task[Loop].pc \in {"lcFind", "lcAct", "returned", "raised"}
      /\ task[Loop].op \in LoopOps /\ task[Loop] \in Task
  BY StepOthers, LoopWorker, LoopLabel DEF Serial
<1>4. CASE task' = [task EXCEPT ![Loop] = Idle] \/ \E l : Goto(Loop, l)
  BY <1>1, <1>2, <1>4
<1>5. CASE FindMain(Loop, "lcFind", "lcAct", "returned")
  <2>1. PICK x, l : task' = [task EXCEPT ![Loop].old = x, ![Loop].pc = l]
    BY <1>5 DEF FindMain
  <2> QED BY <1>3, <2>1, LoopWorker DEF Serial, Inv, TypeOK, DockerTypeOK, Task
<1>6. CASE LifecycleAct(Loop) \/ DockerFault(Loop)
  BY <1>4, <1>6 DEF LifecycleAct, Call, DockerFault, Refuse, Abort
<1>7. CASE Returned(Loop) \/ Raised(Loop)
  BY <1>3, <1>4, <1>7 DEF Returned, Raised, Finish, Updating, LoopOps
<1>8. ~(EnsureStep(Loop) \/ RemoveStep(Loop) \/ Note(Loop) \/ Put(Loop) \/ DeleteFiles(Loop)
        \/ NextInstance(Loop) \/ Verify(Loop) \/ VerifyAborts(Loop))
  BY <1>3 DEF EnsureStep, Look, Fast, FastStart, Sweep, FindStale, Remove, Create, StopOld, Park,
     Rename, Spill, Promote, StartNew, WaitHealthy, Retire, Discard, Unpark, Revive, RemoveStep,
     FindMain, RemoveVolume, DeleteLists, Note, Put, DeleteFiles, FileStep, NextInstance,
     Verify, VerifyAborts, At
<1> QED BY <1>5, <1>6, <1>7, <1>8 DEF Step, Work, DockerStep, LifecycleStep

LEMMA OffNext ==
  ASSUME NoStarts, Serial, Off, Apart, Serial', [Next]_vars PROVE Off'
<1>0. \A y \in DOMAIN cont : cont[y] \in Container
  BY DEF Serial, Inv, TypeOK, EngineTypeOK
<1>1. ASSUME NEW w \in Threads, Step(w) PROVE Off'
  BY <1>1, OffThread
<1>2. CASE Step(Loop)
  <2>1. Mild /\ UNCHANGED yaml
    BY <1>2, LoopStep DEF Serial
  <2>2. \A w \in Threads : task'[w] = task[w]
    BY <1>2, StepOthers, LoopWorker DEF Serial
  <2>3. task[Loop].op \notin {"start", "restart"}
    BY DEF Off
  <2>4. \A x \in DOMAIN cont : Cold(x) => Cold(x)'
    BY <1>0, <1>2, <2>3, LoopEffect DEF StopContainer, Halted, Container, Cold
  <2>5. task'[Loop].op \notin {"start", "restart"}
    BY <1>2, <2>3, LoopOp
  <2> QED BY <2>1, <2>2, <2>4, <2>5, OffCalm
<1>3. CASE Environment \/ Reboot
  <2>1. Autonomous /\ UNCHANGED yaml
    BY <1>3, EngineAutonomous DEF Serial, Environment, Reboot, storeVars
  <2>2. \A x \in DOMAIN cont : Cold(x) => Cold(x)'
    BY <2>1 DEF Autonomous, Cold
  <2>3. CASE Environment
    BY <2>1, <2>2, <2>3, OffCalm DEF Autonomous, Environment, Off
  <2>4. CASE Reboot
    <3>1. \A w \in Workers : task'[w].op = "none" /\ task'[w].pc = "idle"
      BY <2>4 DEF Reboot, Idle
    <3> QED BY <2>1, <2>2, <3>1, LoopWorker, OffCalm DEF Autonomous, At
  <2> QED BY <1>3, <2>3, <2>4
<1>4. CASE Crash
  <2>1. \A w \in Workers : task'[w].op = "none" /\ task'[w].pc = "idle"
    BY <1>4 DEF Crash, Idle
  <2> QED BY <1>4, <2>1, LoopWorker, UnchangedMild, OffCalm DEF Crash, At, storeVars, Cold
<1>5. CASE Request
  <2>1. ASSUME NEW w \in Threads, NEW t, BeginTask(t), Begin(w, t) PROVE Off'
    <3>1. task'[w] = t /\ \A v \in Workers \ {w} : task'[v] = task[v]
      BY <2>1, LoopWorker DEF Begin, Serial, Inv, TypeOK, DockerTypeOK
    <3>2. t.pc # "park" /\ task'[Loop] = task[Loop]
      BY <2>1, <3>1, LoopWorker DEF BeginTask
    <3>3. \A v \in Threads : At(v, "park")' => task'[v] = task[v]
      BY <3>1, <3>2, LoopWorker DEF At
    <3> QED BY <2>1, <3>2, <3>3, UnchangedMild, OffCalm DEF Begin, storeVars, Cold, Off
  <2>2. ASSUME NEW op \in LoopOps, NEW i \in Instances, Lifecycle(op, i) PROVE Off'
    <3>1. task'[Loop].op = op /\ \A w \in Threads : task'[w] = task[w]
      BY <2>2, LoopWorker DEF Lifecycle, Begin, Serial, Inv, TypeOK, DockerTypeOK, Idle
    <3>2. op \notin {"start", "restart"}
      BY <2>2 DEF Lifecycle, NoStarts
    <3> QED BY <2>2, <3>1, <3>2, UnchangedMild, OffCalm DEF Lifecycle, Begin, storeVars, Cold
  <2>3. ASSUME NEW i, EditLists(i) PROVE Off'
    BY <2>3, UnchangedMild, OffCalm DEF EditLists, storeVars, Cold, Off
  <2> QED BY <1>5, <2>1, <2>2, <2>3, RequestBegins
<1>6. CASE UNCHANGED vars
  BY <1>6, UnchangedMild, OffCalm DEF vars, Cold, Off
<1> QED BY <1>1, <1>2, <1>3, <1>4, <1>5, <1>6 DEF Next, Workers

\* What the state is at the start, in the terms of the proofs.
LEMMA InitialHost ==
  ASSUME Init
  PROVE  /\ \A x \in DOMAIN cont :
              /\ cont[x].slot = "main" /\ cont[x].accepted /\ cont[x].def = yaml[cont[x].inst]
              /\ cont[x].state = "running" /\ ~cont[x].manual
              /\ cont[x].inst \in Instances /\ yaml[cont[x].inst] \in Def
         /\ \A i \in Instances : /\ yaml[i] \in Def \cup {None}
                                 /\ yaml[i] # None => RunsAs(i, yaml[i])
                                 /\ prev[i] = None
         /\ \A w \in Workers : task[w] = Idle
<1>1. PICK known \in SUBSET Instances : \E d \in [known -> [image : CanPass, port : Ports]] :
        /\ cont = [x \in {FirstId[i] : i \in known} |->
                     LET i == CHOOSE j \in known : FirstId[j] = x IN
                     [New(i, d[i]) EXCEPT !.slot = "main", !.state = "running",
                        !.health = IF d[i].image \in Unchecked THEN "none" ELSE "healthy",
                        !.accepted = TRUE]]
        /\ yaml = [i \in Instances |-> IF i \in known THEN d[i] ELSE None]
  BY DEF Init
<1>2. PICK d \in [known -> [image : CanPass, port : Ports]] :
        /\ cont = [x \in {FirstId[i] : i \in known} |->
                     LET i == CHOOSE j \in known : FirstId[j] = x IN
                     [New(i, d[i]) EXCEPT !.slot = "main", !.state = "running",
                        !.health = IF d[i].image \in Unchecked THEN "none" ELSE "healthy",
                        !.accepted = TRUE]]
        /\ yaml = [i \in Instances |-> IF i \in known THEN d[i] ELSE None]
  BY <1>1
<1>3. \A i \in known : d[i] \in Def
  BY ImagesAssumption DEF Def
<1>4. \A x \in DOMAIN cont :
        /\ cont[x].inst \in known /\ FirstId[cont[x].inst] = x
        /\ cont[x].slot = "main" /\ cont[x].accepted /\ cont[x].def = d[cont[x].inst]
        /\ cont[x].state = "running" /\ ~cont[x].manual
  <2> SUFFICES ASSUME NEW x \in DOMAIN cont
               PROVE  /\ cont[x].inst \in known /\ FirstId[cont[x].inst] = x
                      /\ cont[x].slot = "main" /\ cont[x].accepted /\ cont[x].def = d[cont[x].inst]
                      /\ cont[x].state = "running" /\ ~cont[x].manual
    OBVIOUS
  <2> DEFINE i == CHOOSE j \in known : FirstId[j] = x
  <2>1. i \in known /\ FirstId[i] = x
    BY <1>2
  <2>2. cont[x] = [New(i, d[i]) EXCEPT !.slot = "main", !.state = "running",
                     !.health = IF d[i].image \in Unchecked THEN "none" ELSE "healthy",
                     !.accepted = TRUE]
    BY <1>2
  <2> HIDE DEF i
  <2> QED BY <2>1, <2>2 DEF New
<1>5. \A i \in known : FirstId[i] \in DOMAIN cont /\ cont[FirstId[i]].inst = i
  <2> SUFFICES ASSUME NEW i \in known PROVE FirstId[i] \in DOMAIN cont /\ cont[FirstId[i]].inst = i
    OBVIOUS
  <2>1. FirstId[i] \in DOMAIN cont
    BY <1>2
  <2>2. cont[FirstId[i]].inst \in known /\ FirstId[cont[FirstId[i]].inst] = FirstId[i]
    BY <1>4, <2>1
  <2> QED BY <2>1, <2>2, OpsAssumption
<1>6. \A i \in Instances : yaml[i] # None => i \in known /\ yaml[i] = d[i]
  BY <1>2
<1>7. \A i \in known : yaml[i] = d[i] /\ i \in Instances
  BY <1>2
<1>8. \A i \in Instances : /\ yaml[i] \in Def \cup {None}
                           /\ yaml[i] # None => RunsAs(i, yaml[i])
  <2>1. \A i \in Instances : yaml[i] \in Def \cup {None}
    BY <1>2, <1>3
  <2>2. \A i \in known : RunsAs(i, d[i])
    BY <1>4, <1>5 DEF RunsAs, Held
  <2> QED BY <1>6, <2>1, <2>2
<1> QED BY <1>3, <1>4, <1>7, <1>8 DEF Init

\* A deleted instance stays off: no container is left that serves, or that a
\* reboot or the restart policy would start, once its definition is gone.
\* Proved where admins start and restart nothing meanwhile: a start that looked
\* the container up before a replacement parked it starts it under .old.
THEOREM DeletedStaysOff == NoStarts => (Spec /\ []Apart => []NothingServesUndefined)
<1> SUFFICES ASSUME NoStarts PROVE Spec /\ []Apart => []NothingServesUndefined
  OBVIOUS
<1>1. Init => Off
  <2> SUFFICES ASSUME Init PROVE Off
    OBVIOUS
  <2>1. \A w \in Workers : task[w].op = "none" /\ task[w].pc = "idle"
    BY InitialHost DEF Idle
  <2> QED BY <2>1, InitialHost, LoopWorker, NoneAssumption
     DEF Off, NothingServesUndefined, At, Def
<1>2. Serial /\ Off /\ Apart /\ Serial' /\ [Next]_vars => Off'
  BY OffNext
<1>3. Off => NothingServesUndefined
  BY DEF Off
<1> QED BY <1>1, <1>2, <1>3, SerialInvariant, PTL DEF Spec

-----------------------------------------------------------------------------
(* What ensure_running has found in service stays there.                   *)

\* No admin stops a container; and none that runs goes down by itself.
NeverStopped == "stop" \notin Ops
Undisturbed == NeverStopped /\ CanFail = {}

RunsFor(x, i, d) ==
  /\ Held(x, i, "main") /\ cont[x].def = d
  /\ NeverStopped => Up(x)
  /\ Undisturbed => cont[x].state = "running"
InPlace(i, d) == \E x \in DOMAIN cont : RunsFor(x, i, d)

\* What the engine, the restart policy and a start or restart do on their own.
Lifts ==
  /\ DOMAIN cont' = DOMAIN cont
  /\ \A x \in DOMAIN cont :
       /\ cont'[x].inst = cont[x].inst /\ cont'[x].slot = cont[x].slot
       /\ Up(x) => Up(x)'
       /\ cont'[x].state = "running" => ~cont'[x].manual

NoneManual == \A x \in DOMAIN cont : cont[x].state = "running" => ~cont[x].manual

LEMMA UnchangedLifts == ASSUME UNCHANGED cont, NoneManual PROVE Lifts
BY DEF Lifts, Up, Exists, NoneManual

LEMMA StartLifts ==
  ASSUME Inv, NoneManual, NEW x \in DOMAIN cont,
         StartContainer(x) \/ cont' = [cont EXCEPT ![x] = Started(@)]
  PROVE  Lifts /\ Up(x)'
<1>1. cont[x] \in Container
  BY DEF Inv, TypeOK, EngineTypeOK
<1>2. /\ DOMAIN cont' = DOMAIN cont /\ \A y \in DOMAIN cont : y # x => cont'[y] = cont[y]
      /\ (cont'[x] = cont[x] /\ cont[x].state = "running") \/ cont'[x] = Started(cont[x])
  BY DEF StartContainer
<1>3. /\ cont'[x].inst = cont[x].inst /\ cont'[x].slot = cont[x].slot
      /\ cont'[x].state = "running" /\ ~cont'[x].manual
  <2>1. CASE cont'[x] = cont[x] /\ cont[x].state = "running"
    BY <2>1 DEF NoneManual
  <2>2. CASE cont'[x] = Started(cont[x])
    BY <1>1, <2>2 DEF Started, Container
  <2> QED BY <1>2, <2>1, <2>2
<1> QED BY <1>2, <1>3 DEF Lifts, Up, Exists, NoneManual

LEMMA EnvironmentLifts == ASSUME Inv, NoneManual, Environment PROVE Lifts
<1>1. PICK x \in DOMAIN cont : Probe(x) \/ Exit(x) \/ PolicyRestart(x)
  BY DEF Environment, EngineNext
<1>2. cont[x] \in Container
  BY DEF Inv, TypeOK, EngineTypeOK
<1>3. CASE Probe(x)
  <2>1. PICK h : cont' = [cont EXCEPT ![x].health = h]
    BY <1>3 DEF Probe
  <2> QED BY <1>2, <2>1 DEF Container, Lifts, Up, Exists, NoneManual
<1>4. CASE Exit(x)
  BY <1>2, <1>4 DEF Exit, Running, Halted, Container, Lifts, Up, Exists, NoneManual
<1>5. CASE PolicyRestart(x)
  BY <1>5, StartLifts DEF PolicyRestart
<1> QED BY <1>1, <1>3, <1>4, <1>5

LEMMA LoopLifts ==
  ASSUME Serial, NoneManual, task[Loop].op # "stop", Step(Loop) PROVE Lifts
BY LoopEffect, StartLifts, UnchangedLifts DEF Serial

LEMMA ManualStep ==
  ASSUME Serial, NoneManual, NEW w \in Threads, Step(w) PROVE NoneManual'
<1>0. \A x \in DOMAIN cont : cont[x] \in Container
  BY DEF Serial, Inv, TypeOK, EngineTypeOK
<1>1. ASSUME NEW x, RemoveContainer(x) PROVE NoneManual'
  BY <1>1 DEF RemoveContainer, NoneManual
<1>2. ASSUME NEW x, NEW s, RenameTo(x, s) \/ cont' = [cont EXCEPT ![x].accepted = TRUE]
      PROVE  NoneManual'
  BY <1>0, <1>2 DEF RenameTo, NoneManual, Container
<1>3. ASSUME NEW x, StopContainer(x) PROVE NoneManual'
  <2>1. DOMAIN cont' = DOMAIN cont /\ \A y \in DOMAIN cont : y # x => cont'[y] = cont[y]
    BY <1>3 DEF StopContainer
  <2>2. x \in DOMAIN cont => cont'[x] = cont[x] \/ cont'[x].state # "running"
    BY <1>0, <1>3 DEF StopContainer, Halted, Container
  <2> QED BY <2>1, <2>2 DEF NoneManual
<1>4. ASSUME NEW x, StartContainer(x) PROVE NoneManual'
  <2>1. CASE x \in DOMAIN cont
    BY <1>4, <2>1, StartLifts DEF Serial, Lifts, NoneManual
  <2>2. CASE x \notin DOMAIN cont
    BY <1>4, <2>2 DEF StartContainer, NoneManual
  <2> QED BY <2>1, <2>2
<1>5. ASSUME NEW x, NEW i, NEW d, CreateOn(x, i, d) PROVE NoneManual'
  BY <1>5 DEF CreateOn, New, NoneManual
<1>6. CASE \E x \in FreshIds : CreateOn(x, task[w].inst, task[w].def)
  BY <1>5, <1>6
<1>7. CASE ~\E x \in FreshIds : CreateOn(x, task[w].inst, task[w].def)
  BY <1>1, <1>2, <1>3, <1>4, <1>7, ThreadEffect, UnchangedLifts DEF Effect, Lifts, NoneManual
<1> QED BY <1>6, <1>7

\* A container that an API call stopped does not run until one starts it.
LEMMA ManualNext == ASSUME Serial, NoneManual, [Next]_vars PROVE NoneManual'
<1>0. \A x \in DOMAIN cont : cont[x] \in Container
  BY DEF Serial, Inv, TypeOK, EngineTypeOK
<1>1. ASSUME Lifts PROVE NoneManual'
  BY <1>1 DEF Lifts, NoneManual
<1>2. CASE UNCHANGED cont
  BY <1>1, <1>2, UnchangedLifts
<1>3. ASSUME NEW w \in Threads, Step(w) PROVE NoneManual'
  BY <1>3, ManualStep
<1>4. CASE Step(Loop)
  <2>1. PICK y : y = task[Loop].old
    OBVIOUS
  <2>2. CASE StopContainer(y)
    BY <1>0, <2>2 DEF StopContainer, Halted, Container, NoneManual
  <2>3. CASE y \in DOMAIN cont /\ (StartContainer(y) \/ cont' = [cont EXCEPT ![y] = Started(@)])
    BY <1>1, <2>3, StartLifts DEF Serial
  <2> QED BY <1>2, <1>4, <2>1, <2>2, <2>3, LoopEffect
<1>5. CASE Environment
  BY <1>1, <1>5, EnvironmentLifts DEF Serial
<1>6. CASE Reboot
  BY <1>0, <1>6 DEF Reboot, HostDown, Halted, Container, NoneManual
<1>7. CASE Crash \/ Request \/ UNCHANGED vars
  BY <1>2, <1>7, RequestBegins DEF Crash, Begin, Lifecycle, EditLists, vars
<1> QED BY <1>3, <1>4, <1>5, <1>6, <1>7 DEF Next, Workers

\* The old container is removed, and a replacement returns, after the gate.
Gated(t) ==
  /\ t.pc = "retire" => RunsFor(t.new, t.inst, t.def)
  /\ t.pc \in {"returned", "verify"} /\ t.op # "delete" => InPlace(t.inst, t.def)

Gating ==
  /\ NoneManual
  /\ NeverStopped => task[Loop].op # "stop"
  /\ \A w \in Threads : Gated(task[w])

\* Containers that go on under their names and, undisturbed, go on running.
Lasting(x) ==
  /\ x \in DOMAIN cont' /\ cont'[x].inst = cont[x].inst /\ cont'[x].slot = cont[x].slot
  /\ cont'[x].def = cont[x].def
  /\ NeverStopped /\ Up(x) => Up(x)'
  /\ Undisturbed /\ cont[x].state = "running" => cont'[x].state = "running"

LEMMA LastingRuns ==
  ASSUME NEW x, NEW i, NEW d, RunsFor(x, i, d), Lasting(x) PROVE RunsFor(x, i, d)' /\ x \in DOMAIN cont'
BY DEF RunsFor, Lasting, Held, Undisturbed, NeverStopped

LEMMA LastingInPlace ==
  ASSUME NEW i, NEW d, InPlace(i, d), \A x \in DOMAIN cont : cont[x].inst = i => Lasting(x)
  PROVE  InPlace(i, d)'
BY LastingRuns DEF InPlace, RunsFor, Held

\* A thread whose instance's containers last stays gated.
LEMMA GatedLasts ==
  ASSUME NEW t, Gated(t), \A x \in DOMAIN cont : cont[x].inst = t.inst => Lasting(x)
  PROVE  Gated(t)'
<1>1. ASSUME NEW x, NEW i, NEW d, i = t.inst, RunsFor(x, i, d) PROVE RunsFor(x, i, d)'
  BY <1>1, LastingRuns DEF RunsFor, Held
<1>2. ASSUME NEW i, NEW d, i = t.inst, InPlace(i, d) PROVE InPlace(i, d)'
  BY <1>2, LastingInPlace
<1> QED BY <1>1, <1>2 DEF Gated

LEMMA UnchangedLasts == ASSUME UNCHANGED cont PROVE \A x \in DOMAIN cont : Lasting(x)
BY DEF Lasting, Up, Exists

LEMMA LoopLasts ==
  ASSUME Serial, NeverStopped => task[Loop].op # "stop", Step(Loop)
  PROVE  \A x \in DOMAIN cont : Lasting(x)
<1>0. \A x \in DOMAIN cont : cont[x] \in Container
  BY DEF Serial, Inv, TypeOK, EngineTypeOK
<1>1. PICK y : y = task[Loop].old
  OBVIOUS
<1>2. CASE UNCHANGED cont
  BY <1>2, UnchangedLasts
<1>3. CASE StartContainer(y) \/ cont' = [cont EXCEPT ![y] = Started(@)]
  <2>1. \A x \in DOMAIN cont : x \in DOMAIN cont' /\ cont'[x] \in {cont[x], Started(cont[x])}
    BY <1>3 DEF StartContainer
  <2> QED BY <1>0, <2>1 DEF Started, Container, Lasting, Up, Exists
<1>4. CASE task[Loop].op = "stop" /\ StopContainer(y)
  <2>1. ~Undisturbed /\ ~NeverStopped
    BY <1>4 DEF Undisturbed
  <2> QED BY <1>0, <1>4, <2>1 DEF StopContainer, Halted, Container, Lasting
<1> QED BY <1>1, <1>2, <1>3, <1>4, LoopEffect

LEMMA EnvironmentLasts ==
  ASSUME Serial, Environment PROVE \A x \in DOMAIN cont : Lasting(x)
<1>0. \A x \in DOMAIN cont : cont[x] \in Container
  BY DEF Serial, Inv, TypeOK, EngineTypeOK
<1>1. PICK y \in DOMAIN cont : Probe(y) \/ Exit(y) \/ PolicyRestart(y)
  BY DEF Environment, EngineNext
<1>2. CASE Probe(y)
  <2>1. PICK h : cont' = [cont EXCEPT ![y].health = h]
    BY <1>2 DEF Probe
  <2> QED BY <1>0, <2>1 DEF Container, Lasting, Up, Exists
<1>3. CASE Exit(y)
  <2>1. ~Undisturbed
    BY <1>3 DEF Exit, Undisturbed
  <2> QED BY <1>0, <1>3, <2>1 DEF Exit, Running, Halted, Container, Lasting, Up, Exists
<1>4. CASE PolicyRestart(y)
  BY <1>0, <1>4 DEF PolicyRestart, Started, Container, Lasting, Up, Exists
<1> QED BY <1>1, <1>2, <1>3, <1>4

\* What a thread does at the labels that find its instance in service.
LEMMA GateStep ==
  ASSUME Serial, NEW w \in Threads, Step(w), task[w].pc \in {"fast", "fastStart", "wait"}
  PROVE  \/ task[w].pc = "fast" /\ Fast(w)
         \/ task[w].pc = "fastStart" /\ FastStart(w)
         \/ task[w].pc = "wait" /\ WaitHealthy(w)
         \/ task'[w].pc \in {"raised", "discard"} /\ UNCHANGED cont
<1>1. CASE EnsureStep(w)
  BY <1>1 DEF EnsureStep, Look, Sweep, FindStale, Remove, Create, StopOld, Park, Rename, Spill,
     Promote, StartNew, Retire, Discard, Unpark, Revive, Fast, FastStart, WaitHealthy, At
<1>2. CASE DockerFault(w)
  <2>1. UNCHANGED cont /\ \E l \in {"raised", "discard"} : Goto(w, l)
    BY <1>2 DEF DockerFault, Refuse, Abort, Handler
  <2> QED BY <2>1, LoopWorker, GotoFields DEF Serial
<1> QED BY <1>1, <1>2 DEF Step, Work, DockerStep, RemoveStep, FindMain, Remove, RemoveVolume,
     DeleteLists, LifecycleStep, LifecycleAct, Note, Put, FileStep, DeleteFiles, NextInstance,
     Returned, Raised, Verify, VerifyAborts, At

\* A thread within ensure_running comes by its gates.
LEMMA GatedEnsure ==
  ASSUME Serial, NoneManual, NEW w \in Threads, Step(w), Gated(task[w]), task[w].pc \notin Turns
  PROVE  Gated(task[w])'
<1> USE DEF AfterLook, FastLabels, SweepLabels, BuiltLabels, SwapLabels
<1> DEFINE t == task[w]
<1>0. /\ task'[w].pc \in Follows(t.pc) /\ KeepsRequest(w) /\ t.pc # "idle"
      /\ \A y \in DOMAIN cont : cont[y] \in Container
  BY LabelStep, StepOthers, LoopWorker DEF Serial, Inv, TypeOK, EngineTypeOK
<1>1. Shape(t) /\ ThreadTask(t) /\ t.inst \in Instances
  BY <1>0, Busy DEF Turns
<1>a. PICK o, n, k, d : o = t.old /\ n = t.new /\ k = t.inst /\ d = t.def
  OBVIOUS
<1>2. task'[w].pc = "retire" => t.pc = "wait"
  BY <1>0 DEF Follows, CallLabels, TryLabels, Turns
<1>3. task'[w].pc = "returned" => t.pc \in {"fast", "fastStart", "wait", "retire", "rmLists"}
  BY <1>0 DEF Follows, CallLabels, TryLabels, Turns
<1>4. task'[w].pc # "verify"
  BY <1>0 DEF Follows, CallLabels, TryLabels, Turns
<1>5. ASSUME t.pc = "wait", task'[w].pc \in {"retire", "returned"}
      PROVE  RunsFor(n, k, d)' /\ n \in DOMAIN cont' /\ task'[w].new = n
  <2>1. WaitHealthy(w) /\ task'[w].pc \notin {"raised", "discard"}
    BY <1>5, GateStep
  <2>2. Passes(n) /\ cont' = [cont EXCEPT ![n].accepted = TRUE]
    BY <1>a, <2>1, LoopWorker, GotoFields DEF WaitHealthy, Serial
  <2>3. /\ Held(n, k, "main") /\ cont[n].def = d /\ cont[n].state = "running"
        /\ ~cont[n].manual
    BY <1>1, <1>5, <1>a, <2>2 DEF Shape, Candidate, Passes, Running, NoneManual, Exists
  <2>4. RunsFor(n, k, d)' /\ n \in DOMAIN cont'
    BY <1>0, <2>2, <2>3 DEF RunsFor, Held, Container, Up, Exists
  <2> QED BY <1>0, <1>5, <1>a, <2>4 DEF KeepsRequest, Turns
<1>6. CASE task'[w].pc = "returned" /\ t.pc # "rmLists"
  <2>1. ASSUME NEW x \in DOMAIN cont', RunsFor(x, k, d)' PROVE Gated(task[w])'
    BY <1>0, <1>6, <1>a, <2>1 DEF Gated, InPlace, KeepsRequest
  <2>2. CASE t.pc = "fast"
    <3>1. Running(o) /\ UNCHANGED cont
      BY <1>6, <1>a, <2>2, GateStep, LoopWorker, GotoFields DEF Fast, Serial
    <3>2. RunsFor(o, k, d)' /\ o \in DOMAIN cont'
      BY <1>1, <1>a, <2>2, <3>1 DEF Shape, RunsFor, Held, Running, Exists, Up, NoneManual
    <3> QED BY <2>1, <3>2
  <2>3. CASE t.pc = "fastStart"
    <3>1. FastStart(w)
      BY <1>6, <2>3, GateStep
    <3>2. StartContainer(o)
      BY <1>6, <1>a, <2>3, <3>1, LoopWorker, GotoFields DEF FastStart, Call, Handler, Serial
    <3>3. Held(o, k, "main") /\ cont[o].def = d
      BY <1>1, <1>a, <2>3 DEF Shape
    <3>4. Up(o)'
      BY <3>2, <3>3, StartLifts DEF Held, Serial
    <3>5. RunsFor(o, k, d)' /\ o \in DOMAIN cont'
      BY <1>0, <3>2, <3>3, <3>4 DEF StartContainer, Started, RunsFor, Held, Container
    <3> QED BY <2>1, <3>5
  <2>4. CASE t.pc = "wait"
    BY <1>5, <1>6, <2>1, <2>4
  <2>5. CASE t.pc = "retire"
    <3>1. RunsFor(n, k, d) /\ n # o
      BY <1>1, <1>a, <2>5 DEF Gated, Shape, Held
    <3>2. UNCHANGED cont \/ RemoveContainer(o)
      BY <1>a, <2>5, ThreadEffect DEF Effect
    <3>3. n \in DOMAIN cont' /\ cont'[n] = cont[n]
      BY <3>1, <3>2 DEF RemoveContainer, RunsFor, Held
    <3> QED BY <2>1, <3>1, <3>3 DEF RunsFor, Held, Up, Exists
  <2> QED BY <1>3, <1>6, <2>2, <2>3, <2>4, <2>5
<1>7. CASE task'[w].pc = "retire"
  <2>1. RunsFor(task[w].new, task[w].inst, task[w].def)'
    BY <1>0, <1>2, <1>5, <1>7, <1>a DEF KeepsRequest
  <2> QED BY <1>7, <2>1 DEF Gated
<1>8. CASE t.pc = "rmLists" /\ task'[w].pc = "returned"
  BY <1>0, <1>1, <1>8 DEF Gated, KeepsRequest, ThreadTask, RemoveLabels
<1>9. CASE task'[w].pc \notin {"retire", "returned"}
  BY <1>4, <1>9 DEF Gated
<1> QED BY <1>6, <1>7, <1>8, <1>9

\* What it found is still there when the updater looks at it.
LEMMA GatedTurn ==
  ASSUME Serial, NEW w \in Threads, Step(w), Gated(task[w]), task[w].pc \in Turns
  PROVE  Gated(task[w])'
<1>1. w \in Workers /\ task'[w].pc \in Follows(task[w].pc) /\ UNCHANGED cont
  BY LabelStep, TurnStep, LoopWorker
<1>2. task'[w].pc \notin {"retire", "returned"}
  BY <1>1 DEF Follows, Turns, CallLabels, TryLabels
<1>3. CASE task'[w].pc = "verify"
  <2>1. task[w].pc = "returned"
    BY <1>1, <1>3 DEF Follows, Turns, CallLabels, TryLabels
  <2>2. \A e \in BOOLEAN : ~Finish(w, e)
    <3>1. ~(task' = [task EXCEPT ![w] = Idle])
      BY <1>1, <1>3 DEF Idle, Serial, Inv, TypeOK, DockerTypeOK
    <3> QED BY <1>1, <1>3, <3>1, FinishFields DEF Serial
  <2>3. ~Goto(w, "rmPrev") /\ ~Goto(w, "raised")
    BY <1>1, <1>3, GotoFields DEF Serial
  <2>4. Goto(w, "verify") /\ task[w].op # "delete"
    BY <2>1, <2>2, <2>3, TurnStep
  <2>5. task'[w].inst = task[w].inst /\ task'[w].def = task[w].def
    BY <1>1, <2>4, GotoFields DEF Serial
  <2>6. InPlace(task[w].inst, task[w].def)
    BY <2>1, <2>4 DEF Gated
  <2> QED BY <1>1, <1>3, <2>5, <2>6 DEF Gated, InPlace, RunsFor, Held, Up, Exists
<1> QED BY <1>2, <1>3 DEF Gated

LEMMA GatingNext == Serial /\ Apart /\ Gating /\ [Next]_vars => Gating'
<1> SUFFICES ASSUME Serial, Apart, Gating, [Next]_vars PROVE Gating'
  OBVIOUS
<1>0. NoneManual' /\ task \in [Workers -> Task]
  BY ManualNext DEF Gating, Serial, Inv, TypeOK, DockerTypeOK
<1>1. ASSUME \A x \in DOMAIN cont : Lasting(x), NEW w \in Threads, task'[w] = task[w]
      PROVE  Gated(task[w])'
  <2>1. PICK t : t = task[w]
    OBVIOUS
  <2>2. Gated(t)'
    BY <1>1, <2>1, GatedLasts DEF Gating
  <2> QED BY <1>1, <2>1, <2>2 DEF Gated
<1>2. ASSUME NEW w \in Threads, NEW t, BeginTask(t), Begin(w, t) PROVE Gating'
  <2>1. task'[w] = t /\ (\A v \in Workers \ {w} : task'[v] = task[v]) /\ UNCHANGED cont
    BY <1>0, <1>2, LoopWorker DEF Begin
  <2>2. Gated(task[w])'
    BY <1>2, <2>1 DEF BeginTask, Gated
  <2>3. \A v \in Threads \ {w} : Gated(task[v])'
    BY <1>1, <2>1, LoopWorker, UnchangedLasts
  <2> QED BY <1>0, <2>1, <2>2, <2>3, LoopWorker DEF Gating
<1>3. ASSUME NEW op \in LoopOps, NEW i \in Instances, Lifecycle(op, i) PROVE Gating'
  <2>1. /\ \A w \in Threads : task'[w] = task[w]
        /\ UNCHANGED cont
        /\ task'[Loop].op = op /\ op \in Ops
    BY <1>0, <1>3, LoopWorker DEF Lifecycle, Begin, Idle
  <2> QED BY <1>0, <1>1, <2>1, UnchangedLasts DEF Gating, NeverStopped
<1>4. CASE (\E i \in Instances : EditLists(i)) \/ UNCHANGED vars
  BY <1>0, <1>1, <1>4, UnchangedLasts DEF EditLists, vars, Gating
<1>5. ASSUME NEW w \in Threads, Step(w) PROVE Gating'
  <2>1. task[w].pc # "idle" /\ \A v \in Workers \ {w} : task'[v] = task[v]
    BY <1>5, LoopWorker, StepOthers DEF Serial
  <2>2. ASSUME NEW v \in Threads, v # w PROVE Gated(task[v])'
    <3>1. PICK t : t = task[v]
      OBVIOUS
    <3>2. CASE t.pc \in {"retire", "returned", "verify"}
      <4>1. t.inst \in Claims(v)
        BY <3>1, <3>2, <2>2, Busy DEF Claims, Free, Inst
      <4>2. t.inst # task[w].inst
        BY <2>1, <2>2, <4>1, NotClaimed
      <4>3. \A x \in DOMAIN cont : cont[x].inst = t.inst => Lasting(x)
        BY <1>5, <4>2, OthersUntouched DEF Lasting, Up, Exists
      <4>4. Gated(t)'
        BY <2>2, <3>1, <4>3, GatedLasts DEF Gating
      <4> QED BY <2>1, <2>2, <3>1, <4>4, LoopWorker DEF Gated
    <3>3. CASE t.pc \notin {"retire", "returned", "verify"}
      BY <2>1, <2>2, <3>1, <3>3, LoopWorker DEF Gated
    <3> QED BY <3>2, <3>3
  <2>3. Gated(task[w])'
    BY <1>5, GatedEnsure, GatedTurn DEF Gating
  <2> QED BY <1>0, <2>1, <2>2, <2>3, LoopWorker DEF Gating
<1>6. CASE Step(Loop)
  <2>1. \A w \in Threads : task'[w] = task[w]
    BY <1>6, LoopWorker, StepOthers DEF Serial
  <2>2. NeverStopped => task'[Loop].op # "stop"
    BY <1>6, LoopOp DEF Gating
  <2> QED BY <1>0, <1>1, <1>6, <2>1, <2>2, LoopLasts DEF Gating
<1>7. CASE Environment
  BY <1>0, <1>1, <1>7, EnvironmentLasts DEF Environment, Gating
<1>8. CASE Crash \/ Reboot
  BY <1>0, <1>8, LoopWorker DEF Crash, Reboot, Idle, Gating, Gated
<1> QED BY <1>2, <1>3, <1>4, <1>5, <1>6, <1>7, <1>8, RequestBegins DEF Next, Workers

LEMMA GatingInit == Init => Gating
<1> SUFFICES ASSUME Init PROVE Gating
  OBVIOUS
<1>1. \A w \in Workers : task[w].op = "none" /\ task[w].pc = "idle"
  BY InitialHost DEF Idle
<1> QED BY <1>1, InitialHost, LoopWorker DEF Gating, Gated, NoneManual

\* The invariant of every request that ends in ensure_running: when it returns,
\* the container under the instance's name was made from the definition and,
\* if no admin stopped it, is in service, whatever failed, was cut off or went
\* down before.
THEOREM GatingInvariant == Spec /\ []Apart => []Gating
<1> QED BY GatingInit, GatingNext, SerialInvariant, PTL DEF Spec

-----------------------------------------------------------------------------
(* A reconcile restores what it visits.                                    *)

Restored(i) == yaml[i] \in Def => InPlace(i, yaml[i])

\* A reconcile has restored what is behind it, except what it reports.
Visits(t) ==
  t.op = "reconcile" =>
    \A j \in Instances \ t.failed :
      (t.pc = "next" \/ j # t.inst) /\ t.todo[j] = None => Restored(j)

Visiting == \A w \in Threads : Visits(task[w])

LEMMA LastingRestored ==
  ASSUME NEW i, Restored(i), yaml'[i] = yaml[i],
         \A x \in DOMAIN cont : cont[x].inst = i => Lasting(x)
  PROVE  Restored(i)'
<1>1. PICK d : d = yaml[i]
  OBVIOUS
<1>2. d \in Def => InPlace(i, d)'
  BY <1>1, LastingInPlace DEF Restored
<1> QED BY <1>1, <1>2 DEF Restored, InPlace

\* A step outside the threads under which every container lasts.
LEMMA VisitsLast ==
  ASSUME Visiting, \A w \in Threads : task'[w] = task[w], UNCHANGED yaml,
         \A x \in DOMAIN cont : Lasting(x)
  PROVE  Visiting'
<1>1. \A j \in Instances : Restored(j) => Restored(j)'
  BY LastingRestored
<1> QED BY <1>1 DEF Visiting, Visits

\* The step of a reconcile within ensure_running.
LEMMA VisitEnsure ==
  ASSUME Serial, NEW w \in Threads, Step(w), Visits(task[w]), task[w].op = "reconcile",
         task[w].pc \notin Turns
  PROVE  Visits(task[w])'
<1> DEFINE t == task[w]
<1>0. /\ task'[w].pc \in Follows(t.pc) /\ KeepsRequest(w) /\ t.pc # "idle"
  BY LabelStep, StepOthers, LoopWorker DEF Serial
<1>1. ThreadTask(t) /\ t.inst \in Instances
  BY <1>0, Busy DEF Turns
<1>2. t.pc \notin {"put", "putWrite", "note"} /\ t.pc \notin RemoveLabels
  BY <1>1 DEF ThreadTask
<1>4. task'[w].pc # "next"
  BY <1>0, <1>2 DEF Follows, CallLabels, TryLabels, Turns, RemoveLabels
<1>5. ASSUME NEW j \in Instances \ t.failed, j # t.inst, t.todo[j] = None PROVE Restored(j)'
  <2>1. Restored(j)
    BY <1>5 DEF Visits
  <2>2. \A x \in DOMAIN cont : cont[x].inst = j => Lasting(x)
    BY <1>5, OthersUntouched DEF Lasting, Up, Exists
  <2>3. yaml'[j] = yaml[j]
    BY <1>5, YamlStep
  <2> QED BY <2>1, <2>2, <2>3, LastingRestored
<1> QED BY <1>0, <1>4, <1>5 DEF Visits, KeepsRequest

\* The step of a reconcile from one instance to the next.
LEMMA VisitTurn ==
  ASSUME Serial, NEW w \in Threads, Step(w), Visits(task[w]), Gated(task[w]), task[w].op = "reconcile",
         task[w].pc \in Turns
  PROVE  Visits(task[w])'
<1> DEFINE t == task[w]
<1>0. w \in Workers /\ t \in Task /\ task \in [Workers -> Task] /\ ThreadTask(t) /\ Stored(t)
  BY LoopWorker DEF Serial, Inv, TypeOK, DockerTypeOK
<1>1. t.pc \in {"next", "returned", "raised"} /\ t.op # "delete" /\ ~Updating(w)
  BY <1>0 DEF ThreadTask, Turns, RemoveLabels, Updating
<1>2. UNCHANGED <<cont, yaml>>
  <2>1. ASSUME NEW i \in Instances PROVE yaml'[i] = yaml[i]
    BY <1>1, YamlStep
  <2>2. yaml \in [Instances -> Def \cup {Torn, None}] /\ yaml' \in [Instances -> Def \cup {Torn, None}]
    BY <1>0, NextInv DEF Serial, Inv, TypeOK, StoreTypeOK, Next
  <2>3. UNCHANGED yaml
    BY <2>1, <2>2
  <2> QED BY <2>3, TurnStep
<1>3. \A j : Restored(j) => Restored(j)'
  BY <1>2 DEF Restored, InPlace, RunsFor, Held, Up, Exists
<1>4. CASE task' = [task EXCEPT ![w] = Idle]
  BY <1>0, <1>4 DEF Visits, Idle
<1>5. ASSUME NEW error \in BOOLEAN, Finish(w, error), t.pc = "returned" \/ error
      PROVE  Visits(task[w])'
  <2>1. CASE /\ task'[w].op = t.op /\ task'[w].pc = "next" /\ task'[w].todo = t.todo
             /\ task'[w].failed = IF error \/ t.undo THEN t.failed \cup {t.inst} ELSE t.failed
    <3>1. ASSUME NEW j \in Instances \ task'[w].failed, t.todo[j] = None PROVE Restored(j)
      <4>1. CASE j # t.inst
        BY <2>1, <3>1, <4>1 DEF Visits
      <4>2. CASE j = t.inst
        <5>1. t.pc = "returned" /\ yaml[j] = t.def
          BY <1>0, <1>1, <1>5, <2>1, <3>1, <4>2 DEF Stored
        <5> QED BY <1>1, <4>2, <5>1 DEF Gated, Restored
      <4> QED BY <4>1, <4>2
    <3> QED BY <1>3, <2>1, <3>1 DEF Visits
  <2> QED BY <1>0, <1>4, <1>5, <2>1, FinishFields DEF Serial
<1>6. CASE NextInstance(w)
  <2>1. ASSUME NEW i \in First(w), task'[w].todo = [t.todo EXCEPT ![i] = None],
               task'[w].pc = "look", task'[w].inst = i, task'[w].failed = t.failed
        PROVE  Visits(task[w])'
    <3>1. t.pc = "next" /\ t.todo \in [Instances -> Def \cup {None}]
      BY <1>0, <1>6 DEF NextInstance, At, Task
    <3>2. ASSUME NEW j \in Instances \ t.failed, j # i, task'[w].todo[j] = None
          PROVE  Restored(j)'
      <4>1. t.todo[j] = None
        BY <2>1, <3>1, <3>2
      <4> QED BY <1>3, <3>1, <3>2, <4>1 DEF Visits
    <3> QED BY <2>1, <3>2 DEF Visits
  <2> QED BY <1>0, <1>4, <1>6, <2>1, NextFields DEF Serial
<1>7. CASE t.pc = "returned" /\ Goto(w, "raised")
  <2>1. /\ task'[w].pc = "raised" /\ task'[w].op = t.op /\ task'[w].inst = t.inst
        /\ task'[w].todo = t.todo /\ task'[w].failed = t.failed
    BY <1>0, <1>7, GotoFields DEF Serial
  <2> QED BY <1>3, <1>7, <2>1 DEF Visits
<1> QED BY <1>1, <1>5, <1>6, <1>7, TurnStep

\* A thread goes on with the request it has, or is done.
LEMMA ThreadOp ==
  ASSUME Serial, NEW w \in Threads, Step(w)
  PROVE  task'[w].op = task[w].op \/ (task'[w].op = "none" /\ task'[w].pc = "idle")
<1>0. w \in Workers /\ task \in [Workers -> Task]
  BY LoopWorker DEF Serial, Inv, TypeOK, DockerTypeOK
<1>1. CASE task' = [task EXCEPT ![w] = Idle]
  BY <1>0, <1>1 DEF Idle
<1>2. ASSUME NEW error \in BOOLEAN, Finish(w, error)
      PROVE  task'[w].op = task[w].op \/ (task'[w].op = "none" /\ task'[w].pc = "idle")
  BY <1>0, <1>1, <1>2, FinishFields DEF Serial
<1>3. CASE NextInstance(w)
  BY <1>0, <1>1, <1>3, NextFields DEF Serial
<1>4. CASE \E l : Goto(w, l)
  BY <1>0, <1>4, GotoFields DEF Serial
<1>5. CASE Undo(w)
  BY <1>0, <1>5, UndoFields DEF Serial
<1>6. CASE Verify(w) \/ VerifyAborts(w)
  <2>1. (\E e \in BOOLEAN : Finish(w, e)) \/ Undo(w)
    BY <1>6 DEF Verify, VerifyAborts
  <2> QED BY <1>2, <1>5, <2>1
<1>7. CASE task[w].pc \in Turns
  BY <1>1, <1>2, <1>3, <1>4, <1>5, <1>6, <1>7, TurnStep
<1> QED BY <1>7, LabelStep DEF KeepsRequest

\* What a request can begin: a batch that has visited nothing.
LEMMA BegunVisits ==
  ASSUME NEW t, BeginTask(t) PROVE Visits(t)
<1>1. \A j \in Instances : t.op = "reconcile" /\ t.todo[j] = None => yaml[j] \notin Def
  BY NoneAssumption DEF BeginTask, List, Get, Def
<1> QED BY <1>1 DEF BeginTask, Visits, Restored

LEMMA VisitingInit == Init => Visiting
<1> SUFFICES ASSUME Init PROVE Visiting
  OBVIOUS
<1>1. \A w \in Workers : task[w].op = "none"
  BY DEF Init, Idle
<1> QED BY <1>1, LoopWorker DEF Visiting, Visits

LEMMA VisitingNext == Serial /\ OneRequest /\ Gating /\ Visiting /\ [Next]_vars => Visiting'
<1> SUFFICES ASSUME Serial, OneRequest, Gating, Visiting, [Next]_vars PROVE Visiting'
  OBVIOUS
<1>0. task \in [Workers -> Task]
  BY DEF Serial, Inv, TypeOK, DockerTypeOK
<1>1. ASSUME NEW w \in Threads, NEW t, BeginTask(t), Begin(w, t) PROVE Visiting'
  <2>1. task'[w] = t /\ (\A v \in Workers \ {w} : task'[v] = task[v]) /\ UNCHANGED <<cont, yaml>>
    BY <1>0, <1>1, LoopWorker DEF Begin, storeVars
  <2>2. \A v \in Threads : Visits(task'[v])
    BY <1>1, <2>1, LoopWorker, BegunVisits DEF Visiting
  <2>3. \A j : Restored(j)' = Restored(j)
    BY <2>1 DEF Restored, InPlace, RunsFor, Held, Up, Exists
  <2> QED BY <2>2, <2>3 DEF Visiting, Visits
<1>2. ASSUME NEW op \in LoopOps, NEW i \in Instances, Lifecycle(op, i) PROVE Visiting'
  <2>1. (\A w \in Threads : task'[w] = task[w]) /\ UNCHANGED <<cont, yaml>>
    BY <1>0, <1>2, LoopWorker DEF Lifecycle, Begin, storeVars
  <2> QED BY <2>1, UnchangedLasts, VisitsLast
<1>3. ASSUME NEW i \in Instances, EditLists(i) PROVE Visiting'
  BY <1>3, UnchangedLasts, VisitsLast DEF EditLists, storeVars, Visiting
<1>4. ASSUME NEW w \in Threads, Step(w) PROVE Visiting'
  <2>1. task[w].pc # "idle" /\ \A v \in Workers \ {w} : task'[v] = task[v]
    BY <1>4, LoopWorker, StepOthers DEF Serial
  <2>2. ASSUME NEW v \in Threads, v # w PROVE Visits(task[v])'
    <3>1. task[v].pc = "idle" /\ task'[v] = task[v]
      BY <2>1, <2>2, LoopWorker DEF OneRequest, Free
    <3> QED BY <3>1 DEF Serial, ThreadTask, Visits
  <2>3. Visits(task[w])'
    <3>1. CASE task'[w].op # "reconcile"
      BY <3>1 DEF Visits
    <3>2. CASE task[w].op = "reconcile"
      BY <1>4, <3>2, VisitEnsure, VisitTurn DEF Visiting, Gating
    <3> QED BY <1>4, <3>1, <3>2, ThreadOp
  <2> QED BY <2>2, <2>3 DEF Visiting
<1>5. CASE Step(Loop)
  <2>1. (\A w \in Threads : task'[w] = task[w]) /\ UNCHANGED yaml
    BY <1>5, LoopWorker, StepOthers, LoopStep, NextInv DEF Serial, Next, Workers
  <2> QED BY <1>5, <2>1, LoopLasts, VisitsLast DEF Gating
<1>6. CASE Environment
  BY <1>6, EnvironmentLasts, VisitsLast DEF Environment, storeVars, Visiting
<1>7. CASE Crash \/ Reboot
  BY <1>7, LoopWorker DEF Crash, Reboot, Idle, Visiting, Visits
<1>8. CASE UNCHANGED vars
  BY <1>8, UnchangedLasts, VisitsLast DEF vars, storeVars, Visiting
<1> QED BY <1>1, <1>2, <1>3, <1>4, <1>5, <1>6, <1>7, <1>8, RequestBegins DEF Next, Workers

\* The invariant of a reconcile: whatever failed, was cut off or went down
\* before, what it has behind it carries its instance's name with the stored
\* definition.
THEOREM VisitingInvariant == Spec /\ []OneRequest => []Visiting
<1> QED BY VisitingInit, VisitingNext, SerialInvariant, GatingInvariant, OneApart, PTL DEF Spec

\* A reconcile that runs to its end has put every stored instance it does not
\* report into service as it is defined (reconcile_all, ensure_running), for
\* every fault, abort, crash and reboot before and between its steps; an admin's
\* stop and a container that exits by itself may undo that before it ends.
THEOREM ReconcileRestoresAll == Undisturbed => (Spec /\ []OneRequest => ReconcileRestores)
<1> SUFFICES ASSUME Undisturbed PROVE Spec /\ []OneRequest => ReconcileRestores
  OBVIOUS
<1> DEFINE Here(w) ==
             task[w].op = "reconcile" /\ At(w, "next") /\ Pending(w) = {} /\ task'[w] = Idle
             /\ yaml' = yaml =>
               \A i \in Instances \ task[w].failed : yaml[i] \in Def =>
                 \E x \in Named(i, "main") : cont[x].def = yaml[i] /\ Running(x)
<1>1. ASSUME Serial, Visiting, NEW w \in Workers PROVE Here(w)
  <2> SUFFICES ASSUME task[w].op = "reconcile", At(w, "next"), Pending(w) = {},
                      NEW i \in Instances \ task[w].failed, yaml[i] \in Def
               PROVE  \E x \in Named(i, "main") : cont[x].def = yaml[i] /\ Running(x)
    OBVIOUS
  <2>1. w \in Threads
    BY <1>1 DEF Serial, LoopTask, LoopOps, Workers
  <2>2. PICK x \in DOMAIN cont : RunsFor(x, i, yaml[i])
    BY <1>1, <2>1 DEF Visiting, Visits, Restored, InPlace, Pending, At
  <2> QED BY <1>1, <2>2 DEF RunsFor, Held, Named, Of, Running, Exists
<1> DEFINE Restores == \A w \in Workers : Here(w)
<1>2. Serial /\ Visiting => Restores
  BY <1>1
<1>3. ReconcileRestores <=> [][Restores]_vars
  BY PTL DEF ReconcileRestores
<1> HIDE DEF Restores
<1> QED BY <1>2, <1>3, SerialInvariant, OneApart, VisitingInvariant, PTL
=============================================================================
