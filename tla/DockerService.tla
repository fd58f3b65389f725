---------------------------- MODULE DockerService ----------------------------
(***************************************************************************)
(* docker_service.py: ensure_running, remove and start/stop/restart, one   *)
(* step per call to the Engine.  Sync handlers run in FastAPI's threadpool *)
(* without a lock, so every worker's steps interleave with every other's.  *)
(*                                                                         *)
(* A worker's task holds the locals of its request.  ensure_running and    *)
(* remove end at the label "returned" or "raised"; the caller goes on from *)
(* there (ControlPlane).                                                   *)
(***************************************************************************)
EXTENDS Store

CONSTANTS
  Threads,  \* threadpool workers: the `def` handlers
  Loop      \* the event loop: the `async def` handlers, one at a time

ASSUME WorkersAssumption == Loop \notin Threads

VARIABLES
  task,  \* each worker's request
  lists  \* each instance's domain lists: a directory in blocklists_dir

Workers == Threads \cup {Loop}

SyncOps == {"create", "patch", "delete", "reconcile", "update", "updateAll", "rollback"}
LoopOps == {"start", "stop", "restart"}

\* Engine calls inside a try block of ensure_running, or whose APIError a
\* caller above handles; TryLabels have an except clause of their own.
TryLabels == {"stop", "park", "promote", "start", "wait"}
CallLabels ==
  TryLabels \cup
  {"look", "fast", "fastStart", "findNew", "dropNew", "findOld", "dropOld",
   "create", "spill", "retire", "discard", "unpark", "revive",
   "rmFind", "rmDrop", "rmCache", "rmLogs", "rmLists", "lcFind", "lcAct"}
Labels ==
  CallLabels \cup
  {"idle", "next", "note", "put", "putWrite", "verify", "returned", "raised",
   "rmPrev", "rmYaml"}

Task ==
  [op : SyncOps \cup LoopOps \cup {"none"}, pc : Labels,
   undo : BOOLEAN,                     \* Updater is re-applying `base`
   keep : BOOLEAN,                     \* keep_logs
   inst : Instances \cup {None},
   def : Def \cup {None},              \* the definition being applied
   base : Def \cup {None},             \* the definition read from the store
   goal : Images \cup {None},          \* the image an update goes to
   old : Ids \cup {None},              \* `existing`
   new : Ids \cup {None},              \* `new`, or `stale` while sweeping
   todo : [Instances -> Def \cup {None}],  \* rest of a batch's snapshot
   failed : SUBSET Instances]          \* the instances a batch reports

Idle ==
  [op |-> "none", pc |-> "idle", undo |-> FALSE, keep |-> FALSE,
   inst |-> None, def |-> None, base |-> None, goal |-> None,
   old |-> None, new |-> None, todo |-> [i \in Instances |-> None],
   failed |-> {}]

DockerTypeOK ==
  /\ task \in [Workers -> Task]
  /\ lists \in [Instances -> {"absent", "empty", "filled"}]

At(w, l) == task[w].pc = l
Goto(w, l) == task' = [task EXCEPT ![w].pc = l]
Inst(w) == task[w].inst
FreshIds == Ids \ (DOMAIN cont \cup {task[w].old : w \in Workers}
                               \cup {task[w].new : w \in Workers})

\* Mutants: stop and park have no except clause; a failed start is taken for
\* a healthy one.
HandlerNoSpill(l) ==
  IF l \in {"promote", "start", "wait"} THEN "discard" ELSE "raised"
HandlerTrustsStart(l) ==
  IF l \in {"stop", "park"} THEN "spill"
  ELSE IF l \in {"promote", "start", "wait"} THEN "retire" ELSE "raised"

\* Where an APIError at a label leads: the except clauses of ensure_running.
Handler(l) ==
  IF l \in {"stop", "park"} THEN "spill"
  ELSE IF l \in {"promote", "start", "wait"} THEN "discard" ELSE "raised"

\* A call the daemon answers: its effect and the next label, or its handler.
Call(w, accepted, effect, l) ==
  IF accepted THEN effect /\ Goto(w, l)
  ELSE Goto(w, Handler(task[w].pc)) /\ UNCHANGED cont

-----------------------------------------------------------------------------
(* ensure_running                                                          *)

\* Mutant: the label of `existing` is not compared.
LookIgnoresLabel(w) ==
  /\ At(w, "look")
  /\ lists' = [lists EXCEPT ![Inst(w)] = IF @ = "absent" THEN "empty" ELSE @]
  /\ \E x \in Lookup(Inst(w), "main") :
       task' = [task EXCEPT ![w].old = x, ![w].new = None, ![w].pc = "findNew"]
  /\ UNCHANGED <<cont, vols>>

\* spec_for, the two lists' ensure() and the lookup of `existing`.
Look(w) ==
  /\ At(w, "look")
  /\ lists' = [lists EXCEPT ![Inst(w)] = IF @ = "absent" THEN "empty" ELSE @]
  /\ \E x \in Lookup(Inst(w), "main") :
       task' = [task EXCEPT ![w].old = x, ![w].new = None,
                  ![w].pc = IF x # None /\ cont[x].def = task[w].def
                            THEN "fast" ELSE "findNew"]
  /\ UNCHANGED <<cont, vols>>

\* Mutant: a matching label is enough.
FastTrustsLabel(w) ==
  /\ At(w, "fast")
  /\ Goto(w, IF ~Exists(task[w].old) THEN "raised" ELSE "returned")
  /\ UNCHANGED <<cont, vols, lists>>

\* The label matches: reload(), and start() if it does not run.
Fast(w) ==
  /\ At(w, "fast")
  /\ Goto(w, IF ~Exists(task[w].old) THEN "raised"
             ELSE IF Running(task[w].old) THEN "returned" ELSE "fastStart")
  /\ UNCHANGED <<cont, vols, lists>>

FastStart(w) ==
  LET x == task[w].old IN
  /\ At(w, "fastStart")
  /\ Call(w, CanStart(x), StartContainer(x), "returned")
  /\ UNCHANGED <<vols, lists>>

\* The leftovers of an interrupted replacement, by name and then by id.
FindStale(w, l, s, drop, l2) ==
  /\ At(w, l)
  /\ \E x \in Lookup(Inst(w), s) :
       task' = [task EXCEPT ![w].new = x, ![w].pc = IF x = None THEN l2 ELSE drop]
  /\ UNCHANGED <<cont, vols, lists>>

\* remove(force=True) of a container held by id.
Remove(w, l, x, l2) ==
  /\ At(w, l)
  /\ Call(w, Exists(x), RemoveContainer(x), l2)
  /\ UNCHANGED <<vols, lists>>

Sweep(w) ==
  \/ FindStale(w, "findNew", "new", "dropNew", "findOld")
  \/ Remove(w, "dropNew", task[w].new, "findOld")
  \/ FindStale(w, "findOld", "old", "dropOld", "create")
  \/ Remove(w, "dropOld", task[w].new, "create")

Create(w) ==
  /\ At(w, "create")
  /\ \/ /\ Named(Inst(w), "new") = {}
        /\ \E x \in Pick(FreshIds) :
             /\ CreateOn(x, Inst(w), task[w].def)
             /\ task' = [task EXCEPT ![w].new = x,
                           ![w].pc = IF task[w].old = None THEN "promote" ELSE "stop"]
     \/ /\ Named(Inst(w), "new") # {}
        /\ Goto(w, "raised")
        /\ UNCHANGED <<cont, vols>>
  /\ UNCHANGED lists

\* Mutant: the old container is parked while it still runs.
StopLater(w) == At(w, "stop") /\ Goto(w, "park") /\ UNCHANGED <<cont, vols, lists>>

StopOld(w) ==
  /\ At(w, "stop")
  /\ Call(w, Exists(task[w].old), StopContainer(task[w].old), "park")
  /\ UNCHANGED <<vols, lists>>

Rename(w, l, x, s, l2) ==
  /\ At(w, l)
  /\ Call(w, CanRename(x, s), RenameTo(x, s), l2)
  /\ UNCHANGED <<vols, lists>>

\* Mutants: the old container is removed instead of parked; the new one is
\* started under its temporary name.
ParkByRemoval(w) == Remove(w, "park", task[w].old, "promote")
PromoteLater(w) ==
  At(w, "promote") /\ Goto(w, "start") /\ UNCHANGED <<cont, vols, lists>>

Park(w) == Rename(w, "park", task[w].old, "old", "promote")
Spill(w) == Remove(w, "spill", task[w].new, "raised")
Promote(w) == Rename(w, "promote", task[w].new, "main", "start")

StartNew(w) ==
  /\ At(w, "start")
  /\ Call(w, CanStart(task[w].new), StartContainer(task[w].new), "wait")
  /\ UNCHANGED <<vols, lists>>

\* Mutant: the poll has no deadline.
FailsNoDeadline(x) == Running(x) => cont[x].health = "unhealthy"

\* _wait_healthy: the poll that ends the loop.
Passes(x) == Running(x) /\ (cont[x].health = "healthy" \/ cont[x].def.image \in Unchecked)
Fails(x) ==
  Running(x) =>
    \/ cont[x].health = "unhealthy"
    \/ cont[x].health = "starting" /\ cont[x].def.image \in CanFail  \* deadline
WaitHealthy(w) ==
  LET x == task[w].new IN
  /\ At(w, "wait")
  /\ \/ /\ Passes(x)
        /\ cont' = [cont EXCEPT ![x].accepted = TRUE]
        /\ Goto(w, IF task[w].old = None THEN "returned" ELSE "retire")
     \/ /\ Fails(x)
        /\ Goto(w, "discard")
        /\ UNCHANGED cont
  /\ UNCHANGED <<vols, lists>>

Retire(w) == Remove(w, "retire", task[w].old, "returned")

\* Mutant: the parked container is renamed, not started.
UnparkOnly(w) == Rename(w, "unpark", task[w].old, "main", "raised")

\* Not healthy: the new one goes, the parked one gets its name back and runs.
Discard(w) ==
  Remove(w, "discard", task[w].new, IF task[w].old = None THEN "raised" ELSE "unpark")
Unpark(w) == Rename(w, "unpark", task[w].old, "main", "revive")
Revive(w) ==
  /\ At(w, "revive")
  /\ Call(w, CanStart(task[w].old), StartContainer(task[w].old), "raised")
  /\ UNCHANGED <<vols, lists>>

EnsureStep(w) ==
  \/ Look(w) \/ Fast(w) \/ FastStart(w) \/ Sweep(w) \/ Create(w)
  \/ StopOld(w) \/ Park(w) \/ Spill(w) \/ Promote(w) \/ StartNew(w)
  \/ WaitHealthy(w) \/ Retire(w) \/ Discard(w) \/ Unpark(w) \/ Revive(w)

-----------------------------------------------------------------------------
(* remove                                                                  *)

FindMain(w, l, some, none) ==
  /\ At(w, l)
  /\ \E x \in Lookup(Inst(w), "main") :
       task' = [task EXCEPT ![w].old = x, ![w].pc = IF x = None THEN none ELSE some]
  /\ UNCHANGED <<cont, vols, lists>>

\* A volume stays while any container of the instance exists; an error is
\* only logged.
RemoveVolume(w, l, v, l2) ==
  /\ At(w, l)
  /\ vols' = [vols EXCEPT ![Inst(w)] = IF Of(Inst(w)) = {} THEN @ \ {v} ELSE @]
  /\ Goto(w, l2)
  /\ UNCHANGED <<cont, lists>>

DeleteLists(w) ==
  /\ At(w, "rmLists")
  /\ lists' = [lists EXCEPT ![Inst(w)] = "absent"]
  /\ Goto(w, "returned")
  /\ UNCHANGED <<cont, vols>>

\* Mutants: the lists, or the volumes, go first.
RemoveStepListsFirst(w) ==
  \/ FindMain(w, "rmFind", "rmLists", "rmLists")
  \/ At(w, "rmLists") /\ lists' = [lists EXCEPT ![Inst(w)] = "absent"]
     /\ Goto(w, IF task[w].old = None THEN "returned" ELSE "rmDrop")
     /\ UNCHANGED <<cont, vols>>
  \/ Remove(w, "rmDrop", task[w].old, "returned")

RemoveStepVolumesFirst(w) ==
  \/ FindMain(w, "rmFind", "rmCache", "rmCache")
  \/ RemoveVolume(w, "rmCache", "cache", IF task[w].keep THEN "rmDrop" ELSE "rmLogs")
  \/ RemoveVolume(w, "rmLogs", "logs", "rmDrop")
  \/ Remove(w, "rmDrop", task[w].old, "rmLists")
  \/ DeleteLists(w)

RemoveStep(w) ==
  \/ FindMain(w, "rmFind", "rmDrop", "rmCache")
  \/ Remove(w, "rmDrop", task[w].old, "rmCache")
  \/ RemoveVolume(w, "rmCache", "cache", IF task[w].keep THEN "rmLists" ELSE "rmLogs")
  \/ RemoveVolume(w, "rmLogs", "logs", "rmLists")
  \/ DeleteLists(w)

-----------------------------------------------------------------------------
(* start, stop, restart                                                    *)

LifecycleAct(w) ==
  LET x == task[w].old IN
  /\ At(w, "lcAct")
  /\ CASE task[w].op = "start" -> Call(w, CanStart(x), StartContainer(x), "returned")
       [] task[w].op = "stop" -> Call(w, Exists(x), StopContainer(x), "returned")
       [] OTHER -> Call(w, Exists(x) /\ PortFree(x),
                        cont' = [cont EXCEPT ![x] = Started(@)], "returned")
  /\ UNCHANGED <<vols, lists>>

LifecycleStep(w) == FindMain(w, "lcFind", "lcAct", "returned") \/ LifecycleAct(w)

-----------------------------------------------------------------------------
(* A call that fails without an effect.                                    *)

\* The daemon refuses a call inside a try block of ensure_running, or the
\* create call, which comes before anything is touched.  An APIError in an
\* except clause, or from the remove after the gate, escapes like any other
\* exception and is an Abort.
Refuse(w) ==
  /\ "fault" \in Hazards
  /\ task[w].pc \in TryLabels \cup {"create", "revive"}
  /\ Goto(w, Handler(task[w].pc))
  /\ UNCHANGED <<cont, vols, lists>>

\* Any other exception, at any call: a lost connection is no APIError.  At
\* "returned" the call is status(), which answers what ensure_running and the
\* lifecycle calls return.
Abort(w) ==
  /\ "abort" \in Hazards
  /\ task[w].pc \in CallLabels \/ (At(w, "returned") /\ task[w].op # "delete")
  /\ Goto(w, "raised")
  /\ UNCHANGED <<cont, vols, lists>>

DockerStep(w) == (EnsureStep(w) \/ RemoveStep(w) \/ LifecycleStep(w)) /\ UNCHANGED storeVars
DockerFault(w) == (Refuse(w) \/ Abort(w)) /\ UNCHANGED storeVars
=============================================================================
