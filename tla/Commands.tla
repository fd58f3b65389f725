------------------------------ MODULE Commands ------------------------------
(***************************************************************************)
(* The lmnsquid command (cli.py): a client of the API that waits for one   *)
(* answer, with no read timeout, and turns it into an exit code.  The      *)
(* package scripts and admins go by that code, so it is modelled with the  *)
(* daemon it reports on: the client may be killed while the daemon works   *)
(* on, and the daemon may die or be down while the client waits.           *)
(***************************************************************************)
EXTENDS ControlPlane

VARIABLE client  \* the command that waits for a worker, or how the last one ended:
                 \* none, waiting, exit 0 or exit 1

cmdVars == <<vars, client>>

CmdInit == Init /\ client = [w \in Workers |-> "none"]

Waits(w) == client[w] = "waiting"
Sends(w) == ~Waits(w) /\ client' = [client EXCEPT ![w] = "waiting"]
Exits(w, code) == client' = [client EXCEPT ![w] = code]

-----------------------------------------------------------------------------
(* Commands that change something.                                         *)

create(w) ==
  \E i \in Instances, m \in Images : \E p \in PortsOf[i] :
    CreateInstance(w, i, [image |-> m, port |-> p]) /\ Sends(w)

\* At least one option; an option may repeat the value that is stored.
edit(w) ==
  \E i \in Instances, m \in Images, p \in Ports :
    PatchInstance(w, i, [image |-> m, port |-> p]) /\ Sends(w)

rm(w) == \E i \in Instances, keep_logs \in BOOLEAN : DeleteInstance(w, i, keep_logs) /\ Sends(w)
update(w) == \E i \in Instances, m \in Images : Update(w, i, m) /\ Sends(w)
update_all(w) == \E m \in Images : UpdateAll(w, m) /\ Sends(w)
rollback(w) == \E i \in Instances : Rollback(w, i) /\ Sends(w)
reconcile(w) == ReconcileAll(w) /\ Sends(w)

\* start, stop, restart.
lifecycle == \E op \in LoopOps, i \in Instances : Lifecycle(op, i) /\ Sends(Loop)

\* blocklist and noauth, add and remove: answered in the step they are made.
edit_lists == \E i \in Instances : EditLists(i) /\ Exits(Loop, "exit 0")

-----------------------------------------------------------------------------
(* Commands that end without a task.                                       *)

\* list, show, status, logs and the two list commands: served by the event
\* loop, changing nothing.  (reload is DomainLists' Reload.)
query == Free(Loop) /\ Exits(Loop, "exit 0") /\ UNCHANGED vars

\* An edit without an option, 404 or 409 (_require, a rollback without a note),
\* or no connection, the daemon being down.
turned_away(w) == Free(w) /\ Exits(w, "exit 1") /\ UNCHANGED vars

-----------------------------------------------------------------------------
(* The answer.                                                             *)

\* Mutant: an HTTP error is printed and the command ends as usual.
EmitPrints(w) == FALSE

\* _emit: the request ended in an exception, so the answer is an HTTP error.
Emit(w) == At(w, "raised")

\* Mutant: only reconcile looks at what its batch reports.
FailIfReconcile(w) == task[w].op = "reconcile" /\ task[w].failed # {}

\* _fail_if: instances a batch reports, in an answer of 200.
FailIf(w) == task[w].failed # {}

\* Whatever the worker does; when it frees the worker, the command ends.
Served(w) ==
  /\ Work(w) \/ DockerFault(w)
  /\ IF Waits(w) /\ task'[w].pc = "idle"
     THEN Exits(w, IF Emit(w) \/ FailIf(w) THEN "exit 1" ELSE "exit 0")
     ELSE UNCHANGED client

\* An exception outside every try: 503.
Aborted(w) ==
  /\ VerifyAborts(w)
  /\ IF Waits(w) /\ task'[w].pc = "idle" THEN Exits(w, "exit 1") ELSE UNCHANGED client

\* Ctrl-C, a closed session: the threadpool goes on with the request.
Killed(w) == "killed" \in Hazards /\ Waits(w) /\ Exits(w, "none") /\ UNCHANGED vars

\* The daemon dies or the host goes down: the read fails.
Lost ==
  /\ Crash \/ Reboot
  /\ client' = [w \in Workers |-> IF Waits(w) THEN "exit 1" ELSE client[w]]

CmdNext ==
  \/ \E w \in Threads :
       create(w) \/ edit(w) \/ rm(w) \/ update(w) \/ update_all(w) \/ rollback(w) \/ reconcile(w)
  \/ lifecycle \/ edit_lists \/ query
  \/ \E w \in Workers : turned_away(w) \/ Served(w) \/ Aborted(w) \/ Killed(w)
  \/ Environment /\ UNCHANGED client
  \/ Lost

CmdSpec == CmdInit /\ [][CmdNext]_cmdVars
\* Nothing is assumed of the commands: the workers get to run.
FairCmdSpec == CmdSpec /\ Fairness

-----------------------------------------------------------------------------
(* Properties.                                                             *)

Exit0(w) == Waits(w) /\ client'[w] = "exit 0"
RunsAsStored(i) == InServiceAs(i, yaml[i])

\* Exit 0 is the truth, whatever failed or was cut off before: create, edit
\* and rollback have stored the definition they were given and its container
\* is in service; an update left the two in agreement, on the image it went to
\* or on the one it came from; a reconcile did so for every instance; rm left
\* neither a definition nor a container under the name; update-all stored its
\* image for every instance (one that had it already is not looked at).
ExitZeroIsTrue ==
  [][\A w \in Threads : Exit0(w) =>
       LET i == Inst(w)  t == task[w] IN
       /\ t.op \in {"create", "patch", "rollback"} => yaml[i] = t.def /\ RunsAsStored(i)
       /\ t.op = "update" => yaml[i] \in {t.def, t.base} /\ RunsAsStored(i)
       /\ t.op = "reconcile" => \A j \in Instances : Get(j) # None => RunsAsStored(j)
       /\ t.op = "delete" => yaml'[i] = None /\ Named(i, "main") = {}
       /\ t.op = "updateAll" => \A j \in Instances : Get(j) # None => Get(j).image = t.goal]_cmdVars
=============================================================================
