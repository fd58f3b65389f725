---------------------------- MODULE ControlPlane ----------------------------
(***************************************************************************)
(* The control plane daemon: the API handlers (api.py), Reconciler and     *)
(* Updater as callers of DockerService and Store.  A handler begins with   *)
(* the read of the store its first lines make; then its worker runs one    *)
(* step per file write or Engine call.  The process may crash and the host *)
(* reboot between any two steps; nothing is re-applied at start (main.py). *)
(***************************************************************************)
EXTENDS DockerService

CONSTANTS
  Ops,     \* the requests clients make
  PortsOf, \* the ports clients ask for, per instance
  FirstId  \* the id of each instance's container at the start

ASSUME OpsAssumption ==
  /\ Ops \subseteq SyncOps \cup LoopOps \cup {"lists"}
  /\ PortsOf \in [Instances -> SUBSET Ports]
  /\ FirstId \in [Instances -> Ids]
  /\ \A i, j \in Instances : FirstId[i] = FirstId[j] => i = j

vars == <<cont, vols, yaml, prev, task, lists>>

\* A host on which some instances were created and run.
Init ==
  /\ \E known \in SUBSET Instances :
     \E d \in [known -> [image : CanPass, port : Ports]] :
       /\ \A i, j \in known : d[i].port = d[j].port => i = j
       /\ \A i \in known : d[i].port \in PortsOf[i]
       /\ cont = [x \in {FirstId[i] : i \in known} |->
                    LET i == CHOOSE j \in known : FirstId[j] = x IN
                    [New(i, d[i]) EXCEPT !.slot = "main", !.state = "running",
                       !.health = IF d[i].image \in Unchecked THEN "none" ELSE "healthy",
                       !.accepted = TRUE]]
       /\ yaml = [i \in Instances |-> IF i \in known THEN d[i] ELSE None]
       /\ vols = [i \in Instances |-> IF i \in known THEN Volumes ELSE {}]
       /\ lists = [i \in Instances |-> IF i \in known THEN "filled" ELSE "absent"]
  /\ prev = [i \in Instances |-> None]
  /\ task = [w \in Workers |-> Idle]

Free(w) == task[w].pc = "idle"
Begin(w, t) == task' = [task EXCEPT ![w] = t] /\ UNCHANGED <<cont, vols, storeVars, lists>>

-----------------------------------------------------------------------------
(* Requests.                                                               *)

\* POST /v1/instances: no check that the name is free.
CreateInstance(w, i, d) ==
  /\ "create" \in Ops /\ Free(w)
  /\ Begin(w, [Idle EXCEPT !.op = "create", !.pc = "put", !.inst = i, !.def = d])

\* PATCH: the fields of the request merged into the definition read here.
PatchInstance(w, i, d) ==
  /\ "patch" \in Ops /\ Free(w)
  /\ Get(i) # None
  /\ d.port \in {Get(i).port} \cup PortsOf[i]
  /\ Begin(w, [Idle EXCEPT !.op = "patch", !.pc = "put", !.inst = i, !.def = d])

DeleteInstance(w, i, keep) ==
  /\ "delete" \in Ops /\ Free(w)
  /\ Get(i) # None
  /\ Begin(w, [Idle EXCEPT !.op = "delete", !.pc = "rmFind", !.inst = i, !.keep = keep])

ReconcileAll(w) ==
  /\ "reconcile" \in Ops /\ Free(w)
  /\ Begin(w, [Idle EXCEPT !.op = "reconcile", !.pc = "next", !.todo = List])

Update(w, i, image) ==
  /\ "update" \in Ops /\ Free(w)
  /\ Get(i) # None
  /\ Begin(w, [Idle EXCEPT !.op = "update", !.pc = "note", !.inst = i, !.base = Get(i),
                 !.def = [Get(i) EXCEPT !.image = image], !.goal = image])

UpdateAll(w, image) ==
  /\ "updateAll" \in Ops /\ Free(w)
  /\ Begin(w, [Idle EXCEPT !.op = "updateAll", !.pc = "next", !.goal = image, !.todo = List])

Rollback(w, i) ==
  /\ "rollback" \in Ops /\ Free(w)
  /\ Get(i) # None /\ prev[i] # None
  /\ Begin(w, [Idle EXCEPT !.op = "rollback", !.pc = "put", !.inst = i,
                 !.def = [Get(i) EXCEPT !.image = prev[i]]])

Lifecycle(op, i) ==
  /\ op \in Ops \cap LoopOps /\ Free(Loop)
  /\ Get(i) # None
  /\ Begin(Loop, [Idle EXCEPT !.op = op, !.pc = "lcFind", !.inst = i])

\* Blocklist / noauth entries added or removed: one step of the event loop.
EditLists(i) ==
  /\ "lists" \in Ops /\ Free(Loop)
  /\ Get(i) # None
  /\ \/ lists' = [lists EXCEPT ![i] = "filled"]
     \/ lists[i] = "filled" /\ lists' = [lists EXCEPT ![i] = "empty"]
  /\ UNCHANGED <<cont, vols, storeVars, task>>

Request ==
  \/ \E w \in Threads, i \in Instances :
       \/ \E m \in Images, p \in PortsOf[i] :
            CreateInstance(w, i, [image |-> m, port |-> p])
       \/ \E m \in Images, p \in Ports : PatchInstance(w, i, [image |-> m, port |-> p])
       \/ \E keep \in BOOLEAN : DeleteInstance(w, i, keep)
       \/ \E m \in Images : Update(w, i, m)
       \/ Rollback(w, i)
  \/ \E w \in Threads : ReconcileAll(w)
  \/ \E w \in Threads, m \in Images : UpdateAll(w, m)
  \/ \E op \in LoopOps, i \in Instances : Lifecycle(op, i)
  \/ \E i \in Instances : EditLists(i)

-----------------------------------------------------------------------------
(* Callers of ensure_running and remove.                                   *)

FileStep(w, l, l2) == At(w, l) /\ Goto(w, l2) /\ UNCHANGED <<cont, vols, lists>>

\* Mutant: the note takes the image it goes to.
NoteTarget(w) ==
  /\ FileStep(w, "note", "put")
  /\ NotePrevious(Inst(w), task[w].def.image)
  /\ UNCHANGED yaml

\* Updater.update: note the image it leaves.
Note(w) ==
  /\ FileStep(w, "note", "put")
  /\ NotePrevious(Inst(w), task[w].base.image)
  /\ UNCHANGED yaml

\* Reconciler.apply: Store.put, then ensure_running.
Put(w) ==
  \/ FileStep(w, "put", "putWrite") /\ Truncate(Inst(w)) /\ UNCHANGED prev
  \/ FileStep(w, "putWrite", "look") /\ Write(Inst(w), task[w].def) /\ UNCHANGED prev

\* Store.delete.
DeleteFiles(w) ==
  \/ FileStep(w, "rmPrev", "rmYaml") /\ UnlinkPrevious(Inst(w)) /\ UNCHANGED yaml
  \/ /\ At(w, "rmYaml")
     /\ Unlink(Inst(w))
     /\ task' = [task EXCEPT ![w] = Idle]
     /\ UNCHANGED <<cont, vols, prev, lists>>

\* The loops of reconcile_all and update_all over their snapshot.
Pending(w) == {i \in Instances : task[w].todo[i] # None}
First(w) == {i \in Pending(w) : \A j \in Pending(w) : i <= j}
NextInstance(w) ==
  LET t == task[w] IN
  /\ At(w, "next")
  /\ \/ /\ Pending(w) = {}
        /\ task' = [task EXCEPT ![w] = Idle]
     \/ \E i \in First(w) :
          LET taken == [Idle EXCEPT !.op = t.op, !.goal = t.goal, !.failed = t.failed,
                                    !.todo = [t.todo EXCEPT ![i] = None]] IN
          IF t.op = "reconcile"
          THEN task' = [task EXCEPT ![w] =
                          [taken EXCEPT !.pc = "look", !.inst = i, !.def = t.todo[i]]]
          ELSE IF t.todo[i].image = t.goal  \* skipped: "already on the target"
          THEN task' = [task EXCEPT ![w] = [taken EXCEPT !.pc = "next"]]
          ELSE IF Get(i) = None  \* KeyError
          THEN task' = [task EXCEPT ![w] =
                          [taken EXCEPT !.pc = "next", !.failed = t.failed \cup {i}]]
          ELSE task' = [task EXCEPT ![w] =
                          [taken EXCEPT !.pc = "note", !.inst = i, !.base = Get(i),
                             !.def = [Get(i) EXCEPT !.image = t.goal]]]
  /\ UNCHANGED <<cont, vols, storeVars, lists>>

\* Mutant: an exception ends the whole batch.
FinishStopsBatch(w, error) == task' = [task EXCEPT ![w] = Idle]

Finish(w, error) ==
  LET t == task[w] IN
  task' = [task EXCEPT ![w] =
             IF t.op \in {"reconcile", "updateAll"}
             THEN [Idle EXCEPT !.op = t.op, !.goal = t.goal, !.todo = t.todo, !.pc = "next",
                     !.failed = IF error \/ t.undo THEN t.failed \cup {t.inst} ELSE t.failed]
             ELSE Idle]

\* Mutant: the previous container is brought back without the store.
UndoSkipsPut(w) ==
  task' = [task EXCEPT ![w].pc = "look", ![w].undo = TRUE, ![w].def = task[w].base]

\* Updater.update: re-apply the definition it started from.
Undo(w) ==
  task' = [task EXCEPT ![w].pc = "put", ![w].undo = TRUE, ![w].def = task[w].base]

Updating(w) == task[w].op \in {"update", "updateAll"} /\ ~task[w].undo

Returned(w) ==
  /\ At(w, "returned")
  /\ IF task[w].op = "delete" THEN Goto(w, "rmPrev")
     ELSE IF Updating(w) THEN Goto(w, "verify") ELSE Finish(w, FALSE)
  /\ UNCHANGED <<cont, vols, storeVars, lists>>

\* Only Updater.update catches; reconcile_all and update_all isolate.
Raised(w) ==
  /\ At(w, "raised")
  /\ IF Updating(w) THEN Undo(w) ELSE Finish(w, TRUE)
  /\ UNCHANGED <<cont, vols, storeVars, lists>>

\* Updater._wait_healthy polls status(), which looks the name up again.
Verify(w) ==
  /\ At(w, "verify")
  /\ \E x \in Lookup(Inst(w), "main") :
       \/ x # None /\ cont[x].health = "healthy" /\ Finish(w, FALSE)
       \/ /\ \/ x = None
             \/ /\ x # None /\ cont[x].health # "healthy"
                /\ cont[x].health = "starting" => cont[x].def.image \in CanFail
          /\ Undo(w)
  /\ UNCHANGED <<cont, vols, storeVars, lists>>

\* An exception of status() is outside update()'s try: no undo.
VerifyAborts(w) ==
  /\ "abort" \in Hazards
  /\ At(w, "verify")
  /\ Finish(w, TRUE)
  /\ UNCHANGED <<cont, vols, storeVars, lists>>

Work(w) ==
  \/ DockerStep(w)
  \/ Note(w) \/ Put(w) \/ DeleteFiles(w) \/ NextInstance(w)
  \/ Returned(w) \/ Raised(w) \/ Verify(w)

Step(w) == Work(w) \/ DockerFault(w) \/ VerifyAborts(w)

-----------------------------------------------------------------------------
(* The process dies (systemd restarts it); the host goes down.             *)

Crash ==
  /\ "crash" \in Hazards
  /\ task' = [w \in Workers |-> Idle]
  /\ UNCHANGED <<cont, vols, storeVars, lists>>

Reboot ==
  /\ "reboot" \in Hazards
  /\ HostDown
  /\ task' = [w \in Workers |-> Idle]
  /\ UNCHANGED <<vols, storeVars, lists>>

Environment == EngineNext /\ UNCHANGED <<storeVars, task, lists>>

Next ==
  \/ Request
  \/ \E w \in Workers : Step(w)
  \/ Environment \/ Crash \/ Reboot

Spec == Init /\ [][Next]_vars

-----------------------------------------------------------------------------

(* Properties.                                                             *)

TypeOK == EngineTypeOK /\ StoreTypeOK /\ DockerTypeOK

\* A container under the .new name has never been started: whatever crashes
\* or races interrupt a replacement, the leftover the next ensure_running
\* sweeps by name was not serving when it was last under that name.
SpareNeverServes ==
  \A x \in DOMAIN cont : cont[x].slot = "new" => cont[x].state = "created"

AtRest == \A w \in Workers : Free(w)
Deleting(i) == \E w \in Workers : task[w].op = "delete" /\ Inst(w) = i
\* A container that was started and not stopped: it runs, or its restart policy
\* brings it back.
Up(x) == Exists(x) /\ cont[x].state # "created" /\ ~cont[x].manual
InService(i) == \E x \in Named(i, "main") : Up(x)
InServiceAs(i, d) == \E x \in Named(i, "main") : cont[x].def = d /\ Up(x)

\* "Only a healthy replacement removes the previous container"
\* (ensure_running): a container that passed a health gate is only removed
\* by a delete, or when another one that passed holds the instance's name.
OnlyHealthyReplaces ==
  [][\A x \in DOMAIN cont \ DOMAIN cont' :
       cont[x].accepted =>
         \/ Deleting(cont[x].inst)
         \/ \E y \in Named(cont[x].inst, "main") : y # x /\ cont[y].accepted]_vars

\* A finished request leaves no half-done replacement: no .new and no .old.
NoLeftovers == AtRest => \A x \in DOMAIN cont : cont[x].slot = "main"

\* The admin stops instance i.
Stopping(i) == task[Loop].op = "stop" /\ Inst(Loop) = i

\* A container that runs as its instance is defined is left alone by every
\* request but a delete or a stop (the label comparison of ensure_running):
\* no step stops, renames or removes it.
MatchingLeftAlone ==
  [][\A x \in DOMAIN cont :
       LET c == cont[x] IN
       (/\ c.slot = "main" /\ c.accepted /\ c.def = yaml[c.inst] /\ ~c.manual
        /\ ~Deleting(c.inst) /\ ~Stopping(c.inst))
         => /\ x \in DOMAIN cont'
            /\ cont'[x].slot = "main" /\ ~cont'[x].manual]_vars

\* An update ends in one of two ways ("no failure here may leave the school
\* pinned to a broken image", Updater): the new definition is stored and the
\* instance's container was made from it and is healthy; or the definition it
\* came from is stored again and its container is in service, unless bringing
\* it back raised an error too, which the update then reports.
UpdateSettles ==
  [][\A w \in Threads :
       task[w].op \in {"update", "updateAll"} /\ Inst(w) # None /\ task'[w].inst = None =>
         LET i == Inst(w)  t == task[w] IN
         \/ /\ yaml[i] = t.def
            /\ \E x \in Named(i, "main") : cont[x].def = t.def /\ cont[x].health = "healthy"
         \/ /\ yaml[i] = t.base
            /\ \/ InServiceAs(i, t.base)
               \/ t.undo /\ At(w, "raised")]_vars

\* The note a rollback goes back to is "the last known-good" image: when an
\* update writes it, it is the image of a container that passed its gate.
NotesKnownGood ==
  [][\A i \in Instances : prev'[i] \notin {prev[i], None} =>
       \E x \in Named(i, "main") : cont[x].accepted /\ cont[x].def.image = prev'[i]]_vars

\* After any request on provisioned instances, each one has a container
\* under its name that serves or that the restart policy brings back: a
\* failed replacement keeps or restores the previous container.
RestInService ==
  AtRest => \A i \in Instances : yaml[i] \in Def => InService(i)

\* remove() leaves nothing the instance owns: no container under any of its
\* names, no list, no note, and no volume but the log volume it was told to
\* keep.
DeleteLeavesNothing ==
  [][\A w \in Workers : At(w, "rmYaml") /\ task'[w].pc = "idle" /\ Inst(w) # None
       /\ yaml'[Inst(w)] = None =>
       /\ Of(Inst(w)) = {} /\ lists[Inst(w)] = "absent" /\ prev[Inst(w)] = None
       /\ vols[Inst(w)] \subseteq (IF task[w].keep THEN {"logs"} ELSE {})]_vars

\* A reconcile that runs to its end has put every stored instance it does not
\* report as failed into service as it is defined, whatever step an earlier
\* request was cut off at.  A file a crash tore is no definition: the store
\* skips it, and so does the reconcile.
ReconcileRestores ==
  [][\A w \in Workers :
       task[w].op = "reconcile" /\ At(w, "next") /\ Pending(w) = {} /\ task'[w] = Idle
       /\ yaml' = yaml =>
         \A i \in Instances \ task[w].failed : yaml[i] \in Def =>
           \E x \in Named(i, "main") : cont[x].def = yaml[i] /\ Running(x)]_vars

\* A deleted instance stays off: wherever deletes and replacements were cut
\* off, no container serves that no definition stands for, and none will after
\* a reboot.
NothingServesUndefined ==
  \A x \in DOMAIN cont : yaml[cont[x].inst] = None =>
    cont[x].state = "created" \/ cont[x].manual

\* A container that carries an instance's name never runs over a list
\* directory that was deleted under its bind mount: the proxy would go on
\* without the instance's blocklist.
MountsNeverDangle ==
  \A x \in DOMAIN cont : cont[x].slot = "main" => lists[cont[x].inst] # "absent"

\* One request at a time in the threadpool; the event loop may serve another
\* one beside it.  What two requests on one instance do to each other is
\* RestInService under ReconcileAnyTime.
OneRequest == \A v, w \in Threads : ~Free(v) /\ ~Free(w) => v = w

\* Reconciles at any time, beside at most one other request at a time.
Editors == {w \in Workers : task[w].op \notin {"none", "reconcile"}}
ReconcileAnyTime == Init /\ [][Next /\ \A v, w \in Editors' : v = w]_vars

\* The threads and the event loop get to run; nothing is assumed of the
\* containers, the daemon's probes or the clients, and no call has to fail.
Fairness == \A w \in Workers : WF_vars(Work(w))

\* Every request is answered: no poll waits without a deadline, no batch
\* loops, and no two requests wait for one another.
EveryRequestEnds == \A w \in Workers : ~Free(w) ~> Free(w)

\* One instance failing, in whatever way, does not keep a batch from the
\* instances after it.
BatchReachesEvery ==
  \A w \in Workers, i \in Instances :
    (At(w, "next") /\ task[w].op = "reconcile" /\ i \in Pending(w))
      ~> (At(w, "look") /\ Inst(w) = i)
=============================================================================
