---------------------------- MODULE CommandsProofs ----------------------------
(***************************************************************************)
(* An exit code of 0 is the truth: what the lmnsquid command reports, for  *)
(* every number of instances and images, one request at a time.  A command *)
(* drives the steps of ControlPlane and adds only its own client, so the   *)
(* invariants of ControlPlaneProofs hold of it; update-all needs one more. *)
(***************************************************************************)
EXTENDS Commands, ControlPlaneProofs

-----------------------------------------------------------------------------
(* What an update-all has behind it.                                       *)

\* The snapshot still says what is stored for the instances ahead; those
\* behind are on the image, except what it reports.
Lifting(t) ==
  t.op = "updateAll" =>
    /\ \A j \in Instances : t.todo[j] # None => yaml[j] = t.todo[j]
    /\ \A j \in Instances \ t.failed :
         (t.pc = "next" \/ j # t.inst) /\ t.todo[j] = None /\ yaml[j] \in Def
           => yaml[j].image = t.goal
    /\ t.pc # "next" => t.todo[t.inst] = None /\ (~t.undo => t.def.image = t.goal)

LiftingAll == \A w \in Threads : Lifting(task[w])

\* The step of an update-all while it works on one instance.
LEMMA LiftStays ==
  ASSUME Serial, NEW w \in Threads, Step(w), Lifting(task[w]), task[w].op = "updateAll",
         task[w].pc \notin Turns
  PROVE  Lifting(task[w])'
<1> DEFINE t == task[w]
<1>1. /\ task'[w].pc \in Follows(t.pc) /\ KeepsRequest(w) /\ t.pc # "idle" /\ t.inst \in Instances
      /\ ThreadTask(t)
  BY LabelStep, StepOthers, LoopWorker, Busy DEF Serial, Turns
<1>2. task'[w].pc # "next" /\ t.pc # "next"
  BY <1>1 DEF Follows, CallLabels, TryLabels, Turns
<1>3. \A j \in Instances \ {t.inst} : yaml'[j] = yaml[j]
  BY YamlStep
<1> QED BY <1>1, <1>2, <1>3 DEF Lifting, KeepsRequest

\* The step of an update-all from one instance to the next, or to its undo.
LEMMA LiftTurn ==
  ASSUME Serial, NEW w \in Threads, Step(w), Lifting(task[w]), task[w].op = "updateAll",
         task[w].pc \in Turns
  PROVE  Lifting(task[w])'
<1> DEFINE t == task[w]
<1>0. /\ w \in Workers /\ t \in Task /\ task \in [Workers -> Task] /\ ThreadTask(t) /\ Stored(t)
      /\ t.pc # "next" => t.inst \in Instances
  BY LoopWorker DEF Serial, Inv, TypeOK, DockerTypeOK, WellFormed, ThreadTask
<1>1. t.pc \in {"next", "returned", "raised", "verify"} /\ t.op # "delete"
  BY <1>0 DEF ThreadTask, Turns, RemoveLabels
<1>2. UNCHANGED yaml
  <2>1. ASSUME NEW i \in Instances PROVE yaml'[i] = yaml[i]
    BY <1>1, YamlStep
  <2>2. yaml \in [Instances -> Def \cup {Torn, None}] /\ yaml' \in [Instances -> Def \cup {Torn, None}]
    BY <1>0, NextInv DEF Serial, Inv, TypeOK, StoreTypeOK, Next
  <2> QED BY <2>1, <2>2
<1>3. CASE task' = [task EXCEPT ![w] = Idle]
  BY <1>0, <1>3 DEF Lifting, Idle
<1>4. ASSUME NEW error \in BOOLEAN, Finish(w, error),
             (t.pc = "raised" /\ error) \/ t.pc = "verify" \/ (t.pc = "returned" /\ t.undo)
      PROVE  Lifting(task[w])'
  <2>1. CASE /\ task'[w].op = t.op /\ task'[w].pc = "next" /\ task'[w].todo = t.todo
             /\ task'[w].goal = t.goal
             /\ task'[w].failed = IF error \/ t.undo THEN t.failed \cup {t.inst} ELSE t.failed
    <3>1. ASSUME NEW j \in Instances \ task'[w].failed, t.todo[j] = None, yaml[j] \in Def
          PROVE  yaml[j].image = t.goal
      <4>1. CASE j # t.inst
        BY <2>1, <3>1, <4>1 DEF Lifting
      <4>2. CASE j = t.inst
        <5>1. t.pc = "verify" /\ ~t.undo /\ yaml[j] = t.def
          BY <1>0, <1>4, <2>1, <3>1, <4>2 DEF Stored, ThreadTask
        <5> QED BY <5>1 DEF Lifting
      <4> QED BY <4>1, <4>2
    <3> QED BY <1>2, <2>1, <3>1 DEF Lifting
  <2> QED BY <1>0, <1>3, <1>4, <2>1, FinishFields DEF Serial
<1>5. CASE Undo(w) /\ t.pc # "next"
  BY <1>0, <1>1, <1>2, <1>5, UndoFields DEF Lifting, Serial
<1>6. CASE Goto(w, "verify") /\ t.pc = "returned"
  BY <1>0, <1>2, <1>6, GotoFields DEF Lifting, Serial
<1>7. CASE NextInstance(w)
  <2>1. t.pc = "next" /\ t.todo \in [Instances -> Def \cup {None}]
    BY <1>0, <1>7 DEF NextInstance, At, Task
  <2>2. ASSUME NEW i \in First(w), task'[w].todo = [t.todo EXCEPT ![i] = None],
               task'[w].goal = t.goal,
               \/ /\ task'[w].pc = "next"
                  /\ IF t.todo[i].image = t.goal THEN task'[w].failed = t.failed
                     ELSE Get(i) = None /\ task'[w].failed = t.failed \cup {i}
               \/ /\ task'[w].pc = "note" /\ task'[w].inst = i /\ Get(i) # None
                  /\ task'[w].def = [Get(i) EXCEPT !.image = t.goal]
                  /\ task'[w].failed = t.failed
        PROVE  Lifting(task[w])'
    <3>1. i \in Instances /\ t.todo[i] # None /\ yaml[i] = t.todo[i]
      BY <2>2 DEF First, Pending, Lifting
    <3>2. \A j \in Instances : task'[w].todo[j] # None => j # i /\ yaml[j] = t.todo[j]
                                                          /\ task'[w].todo[j] = t.todo[j]
      BY <2>1, <2>2 DEF Lifting
    <3>3. ASSUME NEW j \in Instances \ task'[w].failed, task'[w].pc = "next" \/ j # i,
                 task'[w].todo[j] = None, yaml[j] \in Def
          PROVE  yaml[j].image = t.goal
      <4>1. CASE j # i
        BY <2>1, <2>2, <3>3, <4>1 DEF Lifting
      <4>2. CASE j = i
        BY <2>2, <3>1, <3>3, <4>2
      <4> QED BY <4>1, <4>2
    <3>4. task'[w].pc # "next" => task'[w].todo[i] = None /\ task'[w].def.image = t.goal
      BY <2>1, <2>2, <3>1 DEF Get, Def
    <3> QED BY <1>2, <2>2, <3>2, <3>3, <3>4 DEF Lifting
  <2> QED BY <1>0, <1>3, <1>7, <2>2, NextFields DEF Serial
<1>8. t.undo \/ Updating(w)
  BY DEF Updating
<1>9. CASE t.pc = "returned" /\ Goto(w, "raised")
  BY <1>0, <1>2, <1>9, GotoFields DEF Lifting, Serial
<1> QED BY <1>1, <1>3, <1>4, <1>5, <1>6, <1>7, <1>8, <1>9, TurnStep DEF Verify, VerifyAborts, Updating

LEMMA LiftingInit == Init => LiftingAll
<1> SUFFICES ASSUME Init PROVE LiftingAll
  OBVIOUS
<1>1. \A w \in Workers : task[w].op = "none"
  BY DEF Init, Idle
<1> QED BY <1>1, LoopWorker DEF LiftingAll, Lifting

LEMMA LiftingNext == Serial /\ OneRequest /\ LiftingAll /\ [Next]_vars => LiftingAll'
<1> SUFFICES ASSUME Serial, OneRequest, LiftingAll, [Next]_vars PROVE LiftingAll'
  OBVIOUS
<1>0. task \in [Workers -> Task]
  BY DEF Serial, Inv, TypeOK, DockerTypeOK
<1>1. ASSUME UNCHANGED yaml, \A w \in Threads : task'[w] = task[w] PROVE LiftingAll'
  BY <1>1 DEF LiftingAll, Lifting
<1>2. ASSUME NEW w \in Threads, NEW t, BeginTask(t), Begin(w, t) PROVE LiftingAll'
  <2>1. task'[w] = t /\ (\A v \in Workers \ {w} : task'[v] = task[v]) /\ UNCHANGED yaml
    BY <1>0, <1>2, LoopWorker DEF Begin, storeVars
  <2>2. t.op = "updateAll" => t.pc = "next" /\ t.todo = List
    BY <1>2 DEF BeginTask
  <2>3. \A j \in Instances : /\ List[j] # None => yaml[j] = List[j]
                             /\ List[j] = None => yaml[j] \notin Def
    BY NoneAssumption DEF List, Get, Def
  <2>4. Lifting(task[w])'
    BY <2>1, <2>2, <2>3 DEF Lifting
  <2> QED BY <2>1, <2>4, LoopWorker DEF LiftingAll, Lifting
<1>3. ASSUME NEW w \in Threads, Step(w) PROVE LiftingAll'
  <2>1. task[w].pc # "idle" /\ \A v \in Workers \ {w} : task'[v] = task[v]
    BY <1>3, LoopWorker, StepOthers DEF Serial
  <2>2. ASSUME NEW v \in Threads, v # w PROVE Lifting(task[v])'
    <3>1. task[v].pc = "idle" /\ task'[v] = task[v]
      BY <2>1, <2>2, LoopWorker DEF OneRequest, Free
    <3> QED BY <3>1 DEF Serial, ThreadTask, Lifting
  <2>3. Lifting(task[w])'
    <3>1. CASE task'[w].op # "updateAll"
      BY <3>1 DEF Lifting
    <3>2. CASE task[w].op = "updateAll"
      BY <1>3, <3>2, LiftStays, LiftTurn DEF LiftingAll
    <3> QED BY <1>3, <3>1, <3>2, ThreadOp
  <2> QED BY <2>2, <2>3 DEF LiftingAll
<1>4. CASE Step(Loop)
  <2>1. (\A w \in Threads : task'[w] = task[w]) /\ UNCHANGED yaml
    BY <1>4, LoopWorker, StepOthers, LoopStep, NextInv DEF Serial, Next, Workers
  <2> QED BY <1>1, <2>1
<1>5. CASE \/ \E op \in LoopOps, i \in Instances : Lifecycle(op, i)
           \/ \E i \in Instances : EditLists(i)
           \/ Environment \/ UNCHANGED vars
  BY <1>0, <1>1, <1>5, LoopWorker DEF Lifecycle, Begin, EditLists, Environment, vars, storeVars
<1>6. CASE Crash \/ Reboot
  BY <1>6, LoopWorker DEF Crash, Reboot, Idle, LiftingAll, Lifting
<1> QED BY <1>2, <1>3, <1>4, <1>5, <1>6, RequestBegins DEF Next, Workers

\* The invariant of an update-all: its snapshot is good for the instances
\* ahead of it, and those behind it have its image in the store.
THEOREM LiftingInvariant == Spec /\ []OneRequest => []LiftingAll
<1> QED BY LiftingInit, LiftingNext, SerialInvariant, OneApart, PTL DEF Spec

-----------------------------------------------------------------------------
(* The client adds nothing to what the daemon does.                        *)

Answers == {"none", "waiting", "exit 0", "exit 1"}
ClientOK == client \in [Workers -> Answers]

LEMMA ClientInit == CmdInit => ClientOK
BY DEF CmdInit, ClientOK, Answers

LEMMA ClientNext == ClientOK /\ [CmdNext]_cmdVars => ClientOK'
<1> SUFFICES ASSUME ClientOK, [CmdNext]_cmdVars PROVE ClientOK'
  OBVIOUS
<1>1. ASSUME NEW w \in Workers, NEW a \in Answers, client' = [client EXCEPT ![w] = a]
      PROVE  ClientOK'
  BY <1>1 DEF ClientOK
<1>2. ASSUME NEW w \in Workers, Sends(w) PROVE ClientOK'
  BY <1>1, <1>2 DEF Sends, Answers
<1>3. ASSUME NEW w \in Workers, Exits(w, "exit 0") \/ Exits(w, "exit 1") \/ Exits(w, "none")
      PROVE  ClientOK'
  BY <1>1, <1>3 DEF Exits, Answers
<1>4. UNCHANGED client => ClientOK'
  BY DEF ClientOK
<1>5. Lost => ClientOK'
  BY DEF Lost, ClientOK, Answers
<1>6. ASSUME NEW w \in Workers, Served(w) \/ Aborted(w) PROVE ClientOK'
  BY <1>3, <1>4, <1>6 DEF Served, Aborted
<1> QED BY <1>2, <1>3, <1>4, <1>5, <1>6, LoopWorker
     DEF CmdNext, cmdVars, create, edit, rm, update, update_all, rollback, reconcile, lifecycle,
         edit_lists, query, turned_away, Killed

\* Every step of a command is a step of the control plane, or the client's own.
LEMMA CommandSteps == [CmdNext]_cmdVars => [Next]_vars
<1> SUFFICES ASSUME CmdNext PROVE [Next]_vars
  BY DEF cmdVars, vars
<1>1. CASE \E w \in Threads : \/ create(w) \/ edit(w) \/ rm(w) \/ update(w) \/ update_all(w)
                              \/ rollback(w) \/ reconcile(w)
  <2>1. Request
    BY <1>1 DEF create, edit, rm, update, update_all, rollback, reconcile, Request
  <2> QED BY <2>1 DEF Next
<1>2. CASE lifecycle \/ edit_lists
  BY <1>2 DEF lifecycle, edit_lists, Request, Next
<1>3. CASE query \/ \E w \in Workers : turned_away(w) \/ Killed(w)
  BY <1>3 DEF query, turned_away, Killed
<1>4. CASE \E w \in Workers : Served(w) \/ Aborted(w)
  BY <1>4 DEF Served, Aborted, Step, Next
<1>5. CASE Environment \/ Lost
  BY <1>5 DEF Lost, Next
<1> QED BY <1>1, <1>2, <1>3, <1>4, <1>5 DEF CmdNext

\* The command line drives the control plane and nothing else: every behaviour
\* of Commands is one of ControlPlane.
THEOREM CommandsAreRequests == CmdSpec => Spec
<1>1. CmdInit => Init
  BY DEF CmdInit
<1> QED BY <1>1, CommandSteps, PTL DEF CmdSpec, Spec

-----------------------------------------------------------------------------
(* An exit code of 0.                                                      *)

\* A command that ends with 0 ends with the step that frees its worker, which
\* raised no error and reports no instance.
LEMMA ExitZeroStep ==
  ASSUME ClientOK, CmdNext, NEW w \in Threads, Exit0(w)
  PROVE  Step(w) /\ task'[w].pc = "idle" /\ task[w].pc # "raised" /\ task[w].failed = {}
<1>0. w \in Workers /\ w # Loop /\ client[w] = "waiting" /\ client'[w] = "exit 0"
  BY LoopWorker DEF Exit0, Waits
<1>1. ASSUME NEW v \in Workers, Sends(v) PROVE FALSE
  BY <1>0, <1>1 DEF Sends, Waits, ClientOK
<1>2. ASSUME NEW v \in Workers, Exits(v, "exit 1") \/ Exits(v, "none") PROVE FALSE
  BY <1>0, <1>2 DEF Exits, ClientOK
<1>3. ~Exits(Loop, "exit 0")
  BY <1>0 DEF Exits, ClientOK
<1>4. client' # client
  BY <1>0
<1>5. ~Lost
  BY <1>0 DEF Lost, Waits
<1>6. PICK v \in Workers : Served(v) \/ Aborted(v)
  BY <1>1, <1>2, <1>3, <1>4, <1>5, LoopWorker
     DEF CmdNext, create, edit, rm, update, update_all, rollback, reconcile, lifecycle,
         edit_lists, query, turned_away, Killed
<1>7. /\ Served(v) /\ task'[v].pc = "idle" /\ ~(Emit(v) \/ FailIf(v)) /\ Exits(v, "exit 0")
  BY <1>2, <1>4, <1>6 DEF Served, Aborted
<1>8. v = w
  BY <1>0, <1>7 DEF Exits, ClientOK
<1> QED BY <1>7, <1>8 DEF Served, Step, Emit, FailIf, At

\* What is so when a worker is freed without an error.
Promised(w) ==
  LET i == Inst(w)  t == task[w] IN
  /\ t.op \in {"create", "patch", "rollback"} => yaml[i] = t.def /\ RunsAsStored(i)
  /\ t.op = "update" => yaml[i] \in {t.def, t.base} /\ RunsAsStored(i)
  /\ t.op = "reconcile" => \A j \in Instances : Get(j) # None => RunsAsStored(j)
  /\ t.op = "delete" => yaml'[i] = None /\ Named(i, "main") = {}
  /\ t.op = "updateAll" => \A j \in Instances : Get(j) # None => Get(j).image = t.goal

LEMMA FreedWell ==
  ASSUME NeverStopped, Serial, Gating, Visiting, LiftingAll, NEW w \in Threads, Step(w),
         task'[w].pc = "idle", task[w].pc # "raised", task[w].failed = {}
  PROVE  Promised(w)
<1> DEFINE t == task[w]
<1>0. /\ w \in Workers /\ t \in Task /\ task \in [Workers -> Task] /\ Gated(t)
      /\ ThreadTask(t) /\ Stored(t) /\ Shape(t) /\ WellFormed(t) /\ t.pc # "idle"
  BY LoopWorker, StepOthers DEF Serial, Inv, TypeOK, DockerTypeOK, Gating
<1>1. t.pc \in {"next", "returned", "verify", "rmYaml"}
  BY <1>0, LabelStep DEF Follows, CallLabels, TryLabels
<1>2. ASSUME NEW i, InPlace(i, yaml[i]) PROVE RunsAsStored(i)
  BY <1>2 DEF InPlace, RunsFor, Held, RunsAsStored, InServiceAs, Named, Of
<1>3. CASE t.pc \in {"returned", "verify"} /\ t.op \notin {"delete", "reconcile", "updateAll"}
  <2>1. yaml[t.inst] = t.def /\ InPlace(t.inst, t.def)
    BY <1>0, <1>3 DEF Stored, Gated, ThreadTask, RemoveLabels
  <2> QED BY <1>2, <1>3, <2>1 DEF Inst, Promised
<1>4. ASSUME t.pc \in {"returned", "verify"}, t.op \in {"delete", "reconcile", "updateAll"}
      PROVE  FALSE
  <2>1. t.op # "delete" => \A e \in BOOLEAN : ~Finish(w, e)
    BY <1>0, <1>4 DEF Finish, Idle
  <2>2. ~Undo(w)
    BY <1>0, UndoFields DEF Serial
  <2>3. ~Goto(w, "verify") /\ ~Goto(w, "rmPrev") /\ ~Goto(w, "raised")
    BY <1>0, GotoFields DEF Serial
  <2>4. t.op = "delete" => t.pc = "returned"
    BY <1>0, <1>4 DEF ThreadTask, RemoveLabels
  <2> QED BY <1>4, <2>1, <2>2, <2>3, <2>4, TurnStep DEF Turns, Verify, VerifyAborts
<1>5. CASE t.pc = "next"
  <2>1. Pending(w) = {} /\ t.op \in {"reconcile", "updateAll"}
    BY <1>0, <1>5, TurnStep, NextFields DEF Turns, Serial, WellFormed
  <2>2. \A j \in Instances : t.todo[j] = None
    BY <2>1 DEF Pending
  <2>3. \A j \in Instances : Get(j) # None => yaml[j] \in Def /\ Get(j) = yaml[j]
    BY DEF Get
  <2>4. ASSUME t.op = "reconcile", NEW j \in Instances, Get(j) # None PROVE RunsAsStored(j)
    BY <1>2, <1>5, <2>2, <2>3, <2>4 DEF Visiting, Visits, Restored
  <2>5. ASSUME t.op = "updateAll", NEW j \in Instances, Get(j) # None PROVE Get(j).image = t.goal
    BY <1>5, <2>2, <2>3, <2>5 DEF LiftingAll, Lifting
  <2> QED BY <2>1, <2>4, <2>5 DEF Promised
<1>6. CASE t.pc = "rmYaml"
  <2>1. t.op = "delete" /\ t.inst \in Instances /\ Vacant(t.inst, "main")
    BY <1>0, <1>6, Busy DEF ThreadTask, RemoveLabels, Shape, AfterDrop
  <2>2. ~EnsureStep(w)
    BY <1>6 DEF EnsureStep, Look, Fast, FastStart, Sweep, FindStale, Remove, Create, StopOld,
       Park, Rename, Spill, Promote, StartNew, WaitHealthy, Retire, Discard, Unpark, Revive, At
  <2>3. Unlink(t.inst)
    BY <1>6, <2>2 DEF Step, Work, DockerStep, RemoveStep, FindMain, Remove, RemoveVolume,
       DeleteLists, LifecycleStep, LifecycleAct, Note, Put, DeleteFiles, FileStep, NextInstance,
       Returned, Raised, Verify, VerifyAborts, DockerFault, Refuse, Abort, CallLabels, TryLabels,
       At, Inst
  <2>4. yaml'[t.inst] = None
    BY <2>1, <2>3 DEF Unlink, Serial, Inv, TypeOK, StoreTypeOK
  <2>5. Named(t.inst, "main") = {}
    BY <2>1 DEF Named, Of, Vacant
  <2> QED BY <2>1, <2>4, <2>5 DEF Promised, Inst
<1> QED BY <1>1, <1>3, <1>4, <1>5, <1>6

\* A command that exits with 0 has done what it says (cli.py: _emit, _fail_if,
\* with api.py, updater.py and reconciler.py behind them), whatever fault,
\* abort, crash or reboot came before it and whatever it lost on its way, where
\* no admin stops a container.
THEOREM ExitZeroHolds == NeverStopped => (CmdSpec /\ []OneRequest => ExitZeroIsTrue)
<1> SUFFICES ASSUME NeverStopped PROVE CmdSpec /\ []OneRequest => ExitZeroIsTrue
  OBVIOUS
<1> DEFINE Truth == \A w \in Threads : Exit0(w) =>
             LET i == Inst(w)  t == task[w] IN
             /\ t.op \in {"create", "patch", "rollback"} => yaml[i] = t.def /\ RunsAsStored(i)
             /\ t.op = "update" => yaml[i] \in {t.def, t.base} /\ RunsAsStored(i)
             /\ t.op = "reconcile" => \A j \in Instances : Get(j) # None => RunsAsStored(j)
             /\ t.op = "delete" => yaml'[i] = None /\ Named(i, "main") = {}
             /\ t.op = "updateAll" => \A j \in Instances : Get(j) # None => Get(j).image = t.goal
<1>1. ClientOK /\ Serial /\ Gating /\ Visiting /\ LiftingAll /\ [CmdNext]_cmdVars
        => [Truth]_cmdVars
  <2> SUFFICES ASSUME ClientOK, Serial, Gating, Visiting, LiftingAll, CmdNext PROVE Truth
    BY DEF cmdVars
  <2>1. ASSUME NEW w \in Threads, Exit0(w) PROVE Promised(w)
    BY <2>1, ExitZeroStep, FreedWell
  <2> QED BY <2>1 DEF Promised
<1>2. ExitZeroIsTrue <=> [][Truth]_cmdVars
  BY PTL DEF ExitZeroIsTrue
<1>3. CmdSpec => []ClientOK
  BY ClientInit, ClientNext, PTL DEF CmdSpec
<1> QED BY <1>1, <1>2, <1>3, CommandsAreRequests, SerialInvariant, OneApart, GatingInvariant,
           VisitingInvariant, LiftingInvariant, PTL DEF CmdSpec
=============================================================================
