------------------- MODULE ControlPlaneReplacementProofs -------------------
(***************************************************************************)
(* What a replacement keeps while calls of the Engine may be refused but   *)
(* nothing cuts a request off (OnlyFaults), beside any number of requests  *)
(* for other instances (Apart), for any number of threads, instances,      *)
(* images and ids.                                                         *)
(*                                                                         *)
(* To Serial, which says what a task knows of its containers, this adds    *)
(* what the rest of the host may hold: every container under a temporary   *)
(* name, and every one that has not passed a gate, belongs to the task of  *)
(* a replacement under way (Orderly).  A crash or an abort leaves such   *)
(* containers behind, which is why the hypothesis is needed and why        *)
(* ensure_running begins with a sweep.                                     *)
(***************************************************************************)
EXTENDS ControlPlaneProofs

OnlyFaults == Hazards \subseteq {"fault"}

SpareLabels == {"stop", "park", "spill", "promote", "discard"}
TrialLabels == SpareLabels \cup {"start", "wait"}

\* x is t's new container, or the one t parked.
Temporary(x, t) ==
  \/ cont[x].slot = "new" /\ t.new = x /\ t.pc \in SpareLabels
  \/ cont[x].slot = "old" /\ t.old = x /\ t.pc \in SwapLabels
Untried(x, t) == t.new = x /\ t.pc \in TrialLabels

Tidy == \A x \in DOMAIN cont : cont[x].slot # "main" => \E w \in Threads : Temporary(x, task[w])
Proven == \A x \in DOMAIN cont : ~cont[x].accepted => \E w \in Threads : Untried(x, task[w])

\* What a task's end relies on: a delete does not fail, and an update that
\* is being undone applies the definition it began from.
Ends(t) ==
  /\ t.op = "delete" => t.pc # "raised"
  /\ t.op # "delete" /\ t.pc = "raised" => yaml[t.inst] = t.def
  /\ t.undo => t.def = t.base
  /\ t.pc = "next" => t.inst = None

Orderly == Tidy /\ Proven /\ \A w \in Threads : Ends(task[w])

-----------------------------------------------------------------------------
(* The steps of a replacement, with what each one does and where it leads. *)

SwapStep(w) ==
  LET t == task[w] IN
  CASE t.pc = "create" ->
         \/ \E x \in FreshIds :
              /\ CreateOn(x, t.inst, t.def) /\ task'[w].new = x
              /\ task'[w].pc = IF t.old = None THEN "promote" ELSE "stop"
         \/ UNCHANGED cont /\ task'[w].pc = "raised"
    [] t.pc = "stop" -> \/ StopContainer(t.old) /\ task'[w].pc = "park"
                        \/ UNCHANGED cont /\ task'[w].pc = "spill"
    [] t.pc = "park" -> \/ RenameTo(t.old, "old") /\ task'[w].pc = "promote"
                        \/ UNCHANGED cont /\ task'[w].pc = "spill"
    [] t.pc = "spill" -> RemoveContainer(t.new) /\ task'[w].pc = "raised"
    [] t.pc = "promote" -> \/ RenameTo(t.new, "main") /\ task'[w].pc = "start"
                           \/ UNCHANGED cont /\ task'[w].pc = "discard"
    [] t.pc = "start" -> \/ StartContainer(t.new) /\ task'[w].pc = "wait"
                         \/ UNCHANGED cont /\ task'[w].pc = "discard"
    [] t.pc = "wait" ->
         \/ /\ cont' = [cont EXCEPT ![t.new].accepted = TRUE]
            /\ task'[w].pc = IF t.old = None THEN "returned" ELSE "retire"
         \/ UNCHANGED cont /\ task'[w].pc = "discard"
    [] t.pc = "retire" -> RemoveContainer(t.old) /\ task'[w].pc = "returned"
    [] t.pc = "discard" -> /\ RemoveContainer(t.new)
                           /\ task'[w].pc = IF t.old = None THEN "raised" ELSE "unpark"
    [] t.pc = "unpark" -> RenameTo(t.old, "main") /\ task'[w].pc = "revive"
    [] OTHER -> TRUE

\* A refused call goes to its handler; the calls outside the try blocks find
\* what they need.
LEMMA SwapSteps ==
  ASSUME OnlyFaults, Serial, NEW w \in Threads, Step(w) PROVE SwapStep(w)
<1> USE DEF SwapStep
<1>0. PICK i, o, x, d : i = task[w].inst /\ o = task[w].old /\ x = task[w].new /\ d = task[w].def
  OBVIOUS
<1>1. w \in Workers /\ task \in [Workers -> Task] /\ task[w] \in Task
  BY LoopWorker DEF Serial, Inv, TypeOK, DockerTypeOK
<1>2. ASSUME NEW l, Goto(w, l) PROVE task'[w].pc = l
  BY <1>1, <1>2, GotoFields DEF Serial
<1>3. CASE task[w].pc \in SwapLabels \cup BuiltLabels \cup {"create"}
  <2> USE DEF SwapLabels, BuiltLabels, AfterLook, FastLabels, SweepLabels
  <2>1. Shape(task[w])
    BY <1>3, Busy
  <2>2. CASE DockerFault(w)
    BY <1>2, <1>3, <2>2 DEF DockerFault, Refuse, Abort, Handler, TryLabels, OnlyFaults
  <2>3. CASE EnsureStep(w)
    <3>1. CASE Create(w)
      <4>1. CASE Goto(w, "raised") /\ UNCHANGED cont
        BY <1>2, <3>1, <4>1 DEF Create, At
      <4>2. CASE ~(Goto(w, "raised") /\ UNCHANGED cont)
        <5>1. FreshIds \in SUBSET Ids
          BY DEF FreshIds
        <5>2. PICK y \in FreshIds :
                /\ CreateOn(y, i, d)
                /\ task' = [task EXCEPT ![w].new = y,
                              ![w].pc = IF o = None THEN "promote" ELSE "stop"]
          BY <1>0, <3>1, <4>2, <5>1, PickAssumption DEF Create, Inst
        <5>3. task'[w].new = y /\ task'[w].pc = IF o = None THEN "promote" ELSE "stop"
          BY <1>1, <5>2 DEF Task
        <5> QED BY <1>0, <3>1, <5>2, <5>3 DEF Create, At
      <4> QED BY <4>1, <4>2
    <3>2. CASE StopOld(w)
      BY <1>0, <1>2, <3>2 DEF StopOld, At, Call, Handler
    <3>3. CASE Park(w) \/ Promote(w) \/ StartNew(w)
      BY <1>0, <1>2, <3>3 DEF Park, Promote, StartNew, Rename, At, Call, Handler
    <3>4. CASE WaitHealthy(w)
      BY <1>0, <1>2, <3>4 DEF WaitHealthy, At
    <3>5. CASE Spill(w) \/ Retire(w) \/ Discard(w)
      <4>1. /\ task[w].pc \in {"spill", "discard"} => x \in DOMAIN cont
            /\ task[w].pc = "retire" => o \in DOMAIN cont
        BY <1>0, <2>1 DEF Shape, Candidate, Held
      <4> QED BY <1>0, <1>2, <3>5, <4>1 DEF Spill, Retire, Discard, Remove, At, Call, Exists
    <3>6. CASE Unpark(w)
      <4>1. task[w].pc = "unpark" => CanRename(o, "main")
        BY <1>0, <2>1 DEF Shape, Held, Vacant, CanRename, Exists, Named
      <4> QED BY <1>0, <1>2, <3>6, <4>1 DEF Unpark, Rename, At, Call
    <3>7. CASE Look(w) \/ Fast(w) \/ FastStart(w) \/ Sweep(w) \/ Revive(w)
      BY <1>3, <3>7 DEF Look, Fast, FastStart, Sweep, FindStale, Remove, Revive, At
    <3> QED BY <2>3, <3>1, <3>2, <3>3, <3>4, <3>5, <3>6, <3>7 DEF EnsureStep
  <2>4. CASE ~EnsureStep(w) /\ ~DockerFault(w)
    BY <1>3, <2>4 DEF Step, Work, DockerStep, RemoveStep, FindMain, Remove, RemoveVolume,
       DeleteLists, LifecycleStep, LifecycleAct, Note, Put, DeleteFiles, FileStep, NextInstance,
       Returned, Raised, Verify, VerifyAborts, At
  <2> QED BY <2>2, <2>3, <2>4
<1>4. CASE task[w].pc \notin SwapLabels \cup BuiltLabels \cup {"create"}
  BY <1>4 DEF SwapLabels, BuiltLabels
<1> QED BY <1>3, <1>4

-----------------------------------------------------------------------------
(* Orderly is kept.                                                        *)

\* Threads that work do so on instances of their own.
LEMMA Working ==
  ASSUME Serial, NEW v \in Threads, task[v].pc \notin {"idle", "next"}
  PROVE  task[v].inst \in Instances /\ task[v].inst \in Claims(v)
BY Busy DEF Claims, Free, Inst

LEMMA Distinct ==
  ASSUME Serial, Apart, NEW w \in Threads, task[w].pc # "idle",
         NEW v \in Threads \ {w}, task[v].pc \notin {"idle", "next"}
  PROVE  task[v].inst \in Instances /\ task[v].inst # task[w].inst
BY Working, NotClaimed

\* Such a container is of the instance its thread works on.
LEMMA Owned ==
  ASSUME Serial, NEW v \in Threads, NEW x \in DOMAIN cont,
         Temporary(x, task[v]) \/ Untried(x, task[v])
  PROVE  cont[x].inst = task[v].inst /\ task[v].pc \notin {"idle", "next"}
<1> USE DEF SpareLabels, TrialLabels, SwapLabels, BuiltLabels, Temporary, Untried
<1>1. task[v].pc \notin {"idle", "next"}
  OBVIOUS
<1>2. Shape(task[v]) /\ None \notin DOMAIN cont
  BY <1>1, Busy
<1> QED BY <1>1, <1>2 DEF Shape, Candidate, Parked, Held

\* Of its instance's containers, those that are half-way are the thread's.
LEMMA Sole ==
  ASSUME Serial, Tidy, Proven, Apart, NEW w \in Threads, task[w].pc # "idle",
         NEW x \in DOMAIN cont, cont[x].inst = task[w].inst
  PROVE  /\ cont[x].slot # "main" => Temporary(x, task[w])
         /\ ~cont[x].accepted => Untried(x, task[w])
<1>1. ASSUME NEW v \in Threads \ {w} PROVE ~Temporary(x, task[v]) /\ ~Untried(x, task[v])
  BY Owned, Distinct
<1> QED BY <1>1 DEF Tidy, Proven

\* All that a step may change in Tidy and Proven is w's own.
LEMMA SoleNext ==
  ASSUME Serial, Tidy, Proven, NEW w \in Threads, Step(w),
         \A x \in DOMAIN cont' :
           cont'[x].inst = task[w].inst => /\ cont'[x].slot # "main" => Temporary(x, task[w])'
                                           /\ ~cont'[x].accepted => Untried(x, task[w])'
  PROVE  Tidy' /\ Proven'
<1>1. \A v \in Threads \ {w} : task'[v] = task[v]
  BY StepOthers, LoopWorker DEF Serial
<1>2. ASSUME NEW x \in DOMAIN cont', cont'[x].inst # task[w].inst
      PROVE  /\ x \in DOMAIN cont /\ cont'[x] = cont[x]
             /\ ~Temporary(x, task[w]) /\ ~Untried(x, task[w])
  <2>1. x \in DOMAIN cont /\ cont'[x].inst = cont[x].inst
    BY <1>2, NewIsOwn
  <2> QED BY <1>2, <2>1, OthersUntouched, Owned
<1>3. ASSUME NEW x \in DOMAIN cont', cont'[x].slot # "main"
      PROVE  \E v \in Threads : Temporary(x, task[v])'
  <2>1. CASE cont'[x].inst # task[w].inst
    <3>1. PICK v \in Threads : Temporary(x, task[v])
      BY <1>2, <1>3, <2>1 DEF Tidy
    <3>2. task'[v] = task[v] /\ cont'[x] = cont[x]
      BY <1>1, <1>2, <2>1, <3>1
    <3> QED BY <3>1, <3>2 DEF Temporary
  <2> QED BY <1>3, <2>1
<1>4. ASSUME NEW x \in DOMAIN cont', ~cont'[x].accepted
      PROVE  \E v \in Threads : Untried(x, task[v])'
  <2>1. CASE cont'[x].inst # task[w].inst
    <3>1. PICK v \in Threads : Untried(x, task[v])
      BY <1>2, <1>4, <2>1 DEF Proven
    <3>2. task'[v] = task[v]
      BY <1>1, <1>2, <2>1, <3>1
    <3> QED BY <3>1, <3>2 DEF Untried
  <2> QED BY <1>4, <2>1
<1> QED BY <1>3, <1>4 DEF Tidy, Proven

LEMMA QuietOrderly ==
  ASSUME Serial, Tidy, Proven, Apart, NEW w \in Threads, Step(w),
         task[w].pc \notin SwapLabels \cup BuiltLabels \cup {"create"}
  PROVE  Tidy' /\ Proven'
<1> USE DEF AfterLook, FastLabels, SweepLabels, BuiltLabels, SwapLabels
<1>0. \A x \in DOMAIN cont : cont[x] \in Container
  BY DEF Serial, Inv, TypeOK, EngineTypeOK
<1>1. \A x \in DOMAIN cont :
        cont[x].inst = task[w].inst => cont[x].slot = "main" /\ cont[x].accepted
  <2>1. task[w].pc # "idle"
    BY StepOthers, LoopWorker DEF Serial
  <2> QED BY <2>1, Sole DEF Temporary, Untried, SpareLabels, TrialLabels
<1>2. task[w].pc \notin {"dropNew", "dropOld"}
  BY <1>1, Busy DEF Shape, Held
<1>3. PICK o : \/ UNCHANGED cont \/ RemoveContainer(o) \/ StartContainer(o)
  <2>1. Effect(task[w])
    BY ThreadEffect
  <2>2. \/ UNCHANGED cont
        \/ task[w].pc \in {"retire", "rmDrop"} /\ RemoveContainer(task[w].old)
        \/ task[w].pc \in {"fastStart", "revive"} /\ StartContainer(task[w].old)
    BY <1>2, <2>1 DEF Effect
  <2> QED BY <2>2
<1>4. \A x \in DOMAIN cont' :
        /\ x \in DOMAIN cont
        /\ cont'[x].slot = cont[x].slot /\ cont'[x].accepted = cont[x].accepted
  <2>1. CASE RemoveContainer(o)
    BY <2>1 DEF RemoveContainer
  <2>2. CASE StartContainer(o)
    BY <1>0, <2>2 DEF StartContainer, Started, Container
  <2> QED BY <1>3, <2>1, <2>2
<1>5. \A x \in DOMAIN cont' : cont'[x].inst = cont[x].inst
  BY <1>4, NewIsOwn
<1> QED BY <1>1, <1>4, <1>5, SoleNext

LEMMA SwapOrderly ==
  ASSUME OnlyFaults, Serial, Tidy, Proven, Apart, NEW w \in Threads, Step(w),
         task[w].pc \in SwapLabels \cup BuiltLabels \cup {"create"}
  PROVE  Tidy' /\ Proven'
<1> USE DEF AfterLook, FastLabels, SweepLabels, BuiltLabels, SwapLabels,
            SpareLabels, TrialLabels, Temporary, Untried
<1>0. PICK o, n, i, d : o = task[w].old /\ n = task[w].new /\ i = task[w].inst /\ d = task[w].def
  OBVIOUS
<1>1. /\ task[w].pc # "idle" /\ Shape(task[w]) /\ SwapStep(w) /\ KeepsRequest(w)
      /\ i \in Instances /\ task[w] \in Task
  BY <1>0, Busy, SwapSteps, LabelStep DEF Turns
<1>2. \A x \in DOMAIN cont :
        cont[x].inst = i => /\ cont[x].slot # "main" => Temporary(x, task[w])
                            /\ ~cont[x].accepted => Untried(x, task[w])
  BY <1>0, <1>1, Sole
<1>3. \A x \in DOMAIN cont : cont[x] \in Container
  BY DEF Serial, Inv, TypeOK, EngineTypeOK
<1>4. task'[w].old = o /\ (task[w].pc # "create" => task'[w].new = n)
  BY <1>0, <1>1 DEF KeepsRequest
<1>4a. \A x \in DOMAIN cont' : x \in DOMAIN cont => cont'[x].inst = cont[x].inst
  BY NewIsOwn
<1>4b. ASSUME \A x \in DOMAIN cont' :
                cont'[x].inst = i => /\ cont'[x].slot # "main" => Temporary(x, task[w])'
                                     /\ ~cont'[x].accepted => Untried(x, task[w])'
       PROVE  Tidy' /\ Proven'
  BY <1>0, <1>4b, SoleNext
<1>5. CASE task[w].pc = "create"
  <2>1. \A x \in DOMAIN cont : cont[x].inst = i => cont[x].slot = "main" /\ cont[x].accepted
    BY <1>2, <1>5
  <2>2. CASE UNCHANGED cont
    BY <1>4b, <2>1, <2>2
  <2>3. ASSUME NEW y \in FreshIds, CreateOn(y, i, d), task'[w].new = y,
               task'[w].pc \in {"promote", "stop"}
        PROVE  Tidy' /\ Proven'
    <3>1. \A x \in DOMAIN cont' :
            cont'[x].inst = i => x = y \/ (cont'[x].slot = "main" /\ cont'[x].accepted)
      BY <2>1, <2>3 DEF CreateOn
    <3>2. cont'[y].slot = "new"
      BY <2>3 DEF CreateOn, New
    <3> QED BY <2>3, <3>1, <3>2, <1>4a, <1>4b
  <2> QED BY <1>0, <1>1, <1>5, <2>2, <2>3 DEF SwapStep
<1>6. CASE task[w].pc = "stop"
  <2>1. (UNCHANGED cont \/ StopContainer(o)) /\ task'[w].pc \in {"park", "spill"}
    BY <1>0, <1>1, <1>6 DEF SwapStep
  <2>2. /\ DOMAIN cont' = DOMAIN cont
        /\ \A x \in DOMAIN cont : cont'[x].slot = cont[x].slot /\ cont'[x].accepted = cont[x].accepted
    <3>1. o \in DOMAIN cont
      BY <1>0, <1>1, <1>6 DEF Shape, Outdated, Held
    <3> QED BY <2>1, <3>1, StopMild, UnchangedMild DEF Serial, Mild
  <2> QED BY <1>2, <1>4, <1>0, <1>6, <2>1, <2>2, <1>4a, <1>4b
<1>7. CASE task[w].pc = "park"
  <2>1. CASE RenameTo(o, "old") /\ task'[w].pc = "promote"
    <3>1. DOMAIN cont' = DOMAIN cont /\ \A x \in DOMAIN cont : x # o => cont'[x] = cont[x]
      BY <2>1 DEF RenameTo
    <3>2. o \in DOMAIN cont => cont'[o].slot = "old" /\ cont'[o].accepted = cont[o].accepted
      BY <1>3, <2>1 DEF RenameTo, Container
    <3> QED BY <1>0, <1>2, <1>4, <1>7, <2>1, <3>1, <3>2, <1>4a, <1>4b
  <2>2. CASE UNCHANGED cont /\ task'[w].pc = "spill"
    BY <1>0, <1>2, <1>4, <1>7, <2>2, <1>4a, <1>4b
  <2> QED BY <1>0, <1>1, <1>7, <2>1, <2>2 DEF SwapStep
<1>8. CASE task[w].pc = "promote"
  <2>1. CASE RenameTo(n, "main") /\ task'[w].pc = "start"
    <3>1. DOMAIN cont' = DOMAIN cont /\ \A x \in DOMAIN cont : x # n => cont'[x] = cont[x]
      BY <2>1 DEF RenameTo
    <3>2. n \in DOMAIN cont => cont'[n].slot = "main"
      BY <1>3, <2>1 DEF RenameTo, Container
    <3> QED BY <1>0, <1>2, <1>4, <1>8, <2>1, <3>1, <3>2, <1>4a, <1>4b
  <2>2. CASE UNCHANGED cont /\ task'[w].pc = "discard"
    BY <1>0, <1>2, <1>4, <1>8, <2>2, <1>4a, <1>4b
  <2> QED BY <1>0, <1>1, <1>8, <2>1, <2>2 DEF SwapStep
<1>9. CASE task[w].pc = "start"
  <2>1. (UNCHANGED cont \/ StartContainer(n)) /\ task'[w].pc \in {"wait", "discard"}
    BY <1>0, <1>1, <1>9 DEF SwapStep
  <2>2. /\ DOMAIN cont' = DOMAIN cont
        /\ \A x \in DOMAIN cont : cont'[x].slot = cont[x].slot /\ cont'[x].accepted = cont[x].accepted
    <3>1. n \in DOMAIN cont
      BY <1>0, <1>1, <1>9 DEF Shape, Candidate, Held
    <3> QED BY <2>1, <3>1, StartMild, UnchangedMild DEF Serial, Mild
  <2> QED BY <1>2, <1>4, <1>0, <1>9, <2>1, <2>2, <1>4a, <1>4b
<1>10. CASE task[w].pc = "wait"
  <2>0. Held(n, i, "main") /\ (o = None => Vacant(i, "old"))
        /\ \A x \in DOMAIN cont :
             cont[x].inst = i /\ cont[x].slot # "main" => cont[x].slot = "old" /\ x = o
    BY <1>0, <1>1, <1>2, <1>10 DEF Shape, Candidate, Parked
  <2>1. CASE /\ cont' = [cont EXCEPT ![n].accepted = TRUE]
             /\ task'[w].pc = IF o = None THEN "returned" ELSE "retire"
    <3>1. /\ DOMAIN cont' = DOMAIN cont
          /\ \A x \in DOMAIN cont : /\ cont'[x].slot = cont[x].slot
                                    /\ cont[x].inst = i => cont'[x].accepted
      BY <1>0, <1>2, <1>3, <1>10, <2>1 DEF Container
    <3>2. None \notin DOMAIN cont
      BY NoneAssumption DEF Serial, Inv, TypeOK, EngineTypeOK
    <3> QED BY <1>0, <1>2, <1>4, <1>10, <2>0, <2>1, <3>1, <3>2, <1>4a, <1>4b
  <2>2. CASE UNCHANGED cont /\ task'[w].pc = "discard"
    BY <1>0, <1>2, <1>4, <1>10, <2>2, <1>4a, <1>4b
  <2> QED BY <1>0, <1>1, <1>10, <2>1, <2>2 DEF SwapStep
<1>11. CASE task[w].pc \in {"spill", "retire"}
  <2>0. PICK y : /\ RemoveContainer(y) /\ y = IF task[w].pc = "spill" THEN n ELSE o
    BY <1>0, <1>1, <1>11 DEF SwapStep
  <2>1. /\ DOMAIN cont' = DOMAIN cont \ {y}
        /\ \A x \in DOMAIN cont' : cont'[x] = cont[x]
    BY <2>0 DEF RemoveContainer
  <2>2. \A x \in DOMAIN cont' : cont[x].inst = i => cont[x].slot = "main" /\ cont[x].accepted
    BY <1>0, <1>2, <1>11, <2>0, <2>1
  <2> QED BY <1>4b, <2>1, <2>2
<1>12. CASE task[w].pc = "discard"
  <2>0. Parked(task[w]) /\ (o = None => Vacant(i, "old"))
    BY <1>0, <1>1, <1>12 DEF Shape, Parked
  <2>1. /\ DOMAIN cont' = DOMAIN cont \ {n}
        /\ \A x \in DOMAIN cont' : cont'[x] = cont[x]
        /\ o # None => task'[w].pc = "unpark"
    BY <1>0, <1>1, <1>12 DEF SwapStep, RemoveContainer
  <2>2. \A x \in DOMAIN cont' :
          cont[x].inst = i =>
            cont[x].accepted /\ (cont[x].slot # "main" => cont[x].slot = "old" /\ x = o)
    BY <1>0, <1>2, <1>12, <2>1
  <2>3. None \notin DOMAIN cont
    BY NoneAssumption DEF Serial, Inv, TypeOK, EngineTypeOK
  <2> QED BY <1>4, <2>1, <2>2, <2>3, <1>4a, <1>4b
<1>13. CASE task[w].pc = "unpark"
  <2>1. RenameTo(o, "main")
    BY <1>0, <1>1, <1>13 DEF SwapStep
  <2>2. \A x \in DOMAIN cont' : cont'[x].inst = i => cont'[x].slot = "main" /\ cont'[x].accepted
    BY <1>0, <1>2, <1>3, <1>13, <1>4a, <2>1 DEF RenameTo, Container
  <2> QED BY <1>4b, <2>2
<1> QED BY <1>5, <1>6, <1>7, <1>8, <1>9, <1>10, <1>11, <1>12, <1>13

\* A delete works by remove() and Store.delete alone.
LEMMA RemovingStep ==
  ASSUME OnlyFaults, NEW w \in Threads, Step(w), task[w].pc \in RemoveLabels
  PROVE  RemoveStep(w) \/ DeleteFiles(w)
<1>1. ~EnsureStep(w)
  BY DEF RemoveLabels, EnsureStep, Look, Fast, FastStart, Sweep, FindStale, Remove, Create,
     StopOld, Park, Rename, Spill, Promote, StartNew, WaitHealthy, Retire, Discard, Unpark,
     Revive, At
<1> QED BY <1>1 DEF RemoveLabels, Step, Work, DockerStep, LifecycleStep, FindMain, LifecycleAct,
     DockerFault, Refuse, Abort, TryLabels, OnlyFaults, Note, Put, FileStep, NextInstance,
     Returned, Raised, Verify, VerifyAborts, At

LEMMA EndsStep ==
  ASSUME OnlyFaults, Serial, NEW w \in Threads, Ends(task[w]), Step(w)
  PROVE  Ends(task[w])'
<1> USE DEF AfterLook, FastLabels, SweepLabels, BuiltLabels, SwapLabels
<1>0. w \in Workers /\ task \in [Workers -> Task] /\ task[w] \in Task
  BY LoopWorker DEF Serial, Inv, TypeOK, DockerTypeOK
<1>1. task[w].pc # "idle"
  BY <1>0, StepOthers DEF Serial
<1>2. CASE task[w].pc \notin Turns
  <2>1. KeepsRequest(w) /\ task'[w].pc \in Follows(task[w].pc)
    BY <1>2, LabelStep
  <2>2. ASSUME task[w].op = "delete" PROVE task'[w].pc # "raised"
    <3>1. task[w].pc \in RemoveLabels /\ Shape(task[w])
      BY <1>1, <1>2, <2>2, Busy DEF Turns, ThreadTask
    <3>2. task'[w].pc = "raised" => task[w].pc \in {"rmFind", "rmDrop", "rmCache", "rmLogs", "rmLists"}
      BY <2>1, <3>1 DEF Follows, CallLabels, TryLabels, RemoveLabels
    <3>3. ASSUME NEW l, Goto(w, l) PROVE task'[w].pc = l
      BY <1>0, <3>3, GotoFields DEF Serial
    <3>4. CASE task[w].pc = "rmFind"
      <4>1. FindMain(w, "rmFind", "rmDrop", "rmCache")
        BY <3>4, RemovingStep DEF RemoveLabels, RemoveStep, FindMain, Remove, RemoveVolume,
           DeleteLists, DeleteFiles, FileStep, At
      <4>2. PICK x, l : task' = [task EXCEPT ![w].old = x, ![w].pc = l] /\ l \in {"rmDrop", "rmCache"}
        BY <4>1 DEF FindMain
      <4> QED BY <1>0, <4>2 DEF Task
    <3>5. CASE task[w].pc = "rmDrop"
      <4>1. Remove(w, "rmDrop", task[w].old, "rmCache")
        BY <3>5, RemovingStep DEF RemoveLabels, RemoveStep, FindMain, Remove, RemoveVolume,
           DeleteLists, DeleteFiles, FileStep, At
      <4>2. task[w].old \in DOMAIN cont
        BY <3>1, <3>5 DEF Shape, Held
      <4> QED BY <3>3, <4>1, <4>2 DEF Remove, Call, Exists
    <3>6. CASE task[w].pc = "rmLists"
      <4>1. DeleteLists(w)
        BY <3>6, RemovingStep DEF RemoveLabels, RemoveStep, FindMain, Remove, RemoveVolume,
           DeleteLists, DeleteFiles, FileStep, At
      <4> QED BY <3>3, <4>1 DEF DeleteLists
    <3>7. CASE task[w].pc \in {"rmCache", "rmLogs"}
      <4>1. \E l \in {"rmLists", "rmLogs"} : Goto(w, l)
        BY <3>7, RemovingStep DEF RemoveLabels, RemoveStep, FindMain, Remove, RemoveVolume,
           DeleteLists, DeleteFiles, FileStep, At
      <4> QED BY <3>3, <4>1
    <3> QED BY <3>2, <3>4, <3>5, <3>6, <3>7
  <2>3. ASSUME task[w].op # "delete", task'[w].pc = "raised" PROVE yaml'[task[w].inst] = task[w].def
    <3>1. ThreadTask(task[w]) /\ Stored(task[w]) /\ task[w].inst \in Instances
      BY <1>1, <1>2, Busy DEF Turns
    <3>2. task[w].pc \in CallLabels
      BY <1>2, <2>1, <2>3 DEF Follows, CallLabels, TryLabels, Turns
    <3>3. task[w].pc \in AfterLook \cup {"look"}
      BY <2>3, <3>1, <3>2 DEF ThreadTask, RemoveLabels, CallLabels, TryLabels
    <3>4. task[w].pc \notin {"put", "putWrite", "rmYaml"}
      BY <3>3
    <3> QED BY <3>1, <3>3, <3>4, YamlStep DEF Stored
  <2>4. task'[w].pc # "next"
    BY <1>2, <2>1 DEF Follows, CallLabels, TryLabels, Turns
  <2> QED BY <2>1, <2>2, <2>3, <2>4 DEF Ends, KeepsRequest
<1>3. CASE task[w].pc \in Turns
  <2>1. task' = [task EXCEPT ![w] = Idle] => Ends(task[w])'
    BY <1>0 DEF Ends, Idle
  <2>2. ASSUME NEW e \in BOOLEAN, Finish(w, e) PROVE Ends(task[w])'
    BY <1>0, <2>1, <2>2, FinishFields DEF Ends, Serial
  <2>3. Undo(w) => Ends(task[w])'
    BY <1>0, UndoFields DEF Ends, Serial
  <2>4. ASSUME NEW l \in {"rmPrev", "verify"}, Goto(w, l) PROVE Ends(task[w])'
    BY <1>0, <2>4, GotoFields DEF Ends, Serial
  <2>5. NextInstance(w) => Ends(task[w])'
    BY <1>0, <2>1, NextFields DEF Ends, Serial
  <2>6. Verify(w) \/ VerifyAborts(w) => (\E e \in BOOLEAN : Finish(w, e)) \/ Undo(w)
    BY DEF Verify, VerifyAborts
  <2> QED BY <1>3, <2>1, <2>2, <2>3, <2>4, <2>5, <2>6, TurnStep DEF OnlyFaults
<1> QED BY <1>2, <1>3

\* The records requests begin with.
LEMMA BegunEnds ==
  ASSUME NEW t, t.pc # "raised", ~t.undo, t.pc = "next" => t.inst = None PROVE Ends(t)'
BY DEF Ends

LEMMA MildOrderly ==
  ASSUME Orderly, Mild, UNCHANGED yaml, \A w \in Threads : task'[w] = task[w]
  PROVE  Orderly'
BY DEF Orderly, Tidy, Proven, Temporary, Untried, Ends, Mild

LEMMA OrderlyNext ==
  ASSUME OnlyFaults, Serial, Orderly, Apart, [Next]_vars PROVE Orderly'
<1>1. ASSUME NEW w \in Threads, Step(w) PROVE Orderly'
  <2>1. Tidy' /\ Proven'
    BY <1>1, QuietOrderly, SwapOrderly DEF Orderly
  <2>2. ASSUME NEW v \in Threads PROVE Ends(task[v])'
    <3>1. CASE v = w
      BY <1>1, <3>1, EndsStep DEF Orderly
    <3>2. CASE v # w
      <4>1. task'[v] = task[v] /\ task[w].pc # "idle"
        BY <1>1, <3>2, StepOthers, LoopWorker DEF Serial
      <4>2. ASSUME task[v].pc = "raised" PROVE yaml'[task[v].inst] = yaml[task[v].inst]
        BY <1>1, <3>2, <4>1, <4>2, Distinct, YamlStep
      <4> QED BY <4>1, <4>2 DEF Orderly, Ends
    <3> QED BY <3>1, <3>2
  <2> QED BY <2>1, <2>2 DEF Orderly
<1>2. CASE Step(Loop)
  BY <1>2, LoopStep, StepOthers, LoopWorker, NextInv, MildOrderly DEF Serial
<1>3. CASE Request
  <2>1. ASSUME NEW w \in Threads, NEW t, BeginTask(t), Begin(w, t), Free(w)
        PROVE  Orderly'
    <3>1. task'[w] = t /\ UNCHANGED <<cont, yaml>> /\ \A v \in Threads \ {w} : task'[v] = task[v]
      BY <2>1, LoopWorker DEF Begin, storeVars, Serial, Inv, TypeOK, DockerTypeOK
    <3>2. Tidy' /\ Proven'
      BY <2>1, <3>1 DEF Free, Orderly, Tidy, Proven, Temporary, Untried, SpareLabels, SwapLabels,
                        TrialLabels
    <3>3. Ends(t)'
      BY <2>1, BegunEnds DEF BeginTask
    <3>4. \A v \in Threads : Ends(task[v])'
      BY <3>1, <3>3 DEF Orderly, Ends
    <3> QED BY <3>2, <3>4 DEF Orderly
  <2>2. ASSUME NEW op \in LoopOps, NEW i \in Instances, Lifecycle(op, i) PROVE Orderly'
    <3>1. \A w \in Threads : task'[w] = task[w]
      BY <2>2, LoopWorker DEF Lifecycle, Begin, Serial, Inv, TypeOK, DockerTypeOK
    <3> QED BY <2>2, <3>1, UnchangedMild, MildOrderly DEF Lifecycle, Begin, storeVars
  <2>3. ASSUME NEW i \in Instances, EditLists(i) PROVE Orderly'
    BY <2>3, UnchangedMild, MildOrderly DEF EditLists, storeVars
  <2> QED BY <1>3, <2>1, <2>2, <2>3, RequestBegins
<1>4. CASE Environment
  BY <1>4, EnvironmentMild, MildOrderly DEF Environment, storeVars, Serial
<1>5. ~Crash /\ ~Reboot
  BY DEF OnlyFaults, Crash, Reboot
<1>6. CASE UNCHANGED vars
  BY <1>6, UnchangedMild, MildOrderly DEF vars
<1> QED BY <1>1, <1>2, <1>3, <1>4, <1>5, <1>6 DEF Next, Workers

LEMMA OrderlyInit == Init => Orderly
<1> SUFFICES ASSUME Init PROVE Orderly
  OBVIOUS
<1>1. \A w \in Threads : task[w] = Idle
  BY InitialHost, LoopWorker
<1> QED BY <1>1, InitialHost DEF Orderly, Tidy, Proven, Ends, Idle

\* Orderly holds in every reachable state while calls are refused at most.
THEOREM OrderlyInvariant == OnlyFaults => (Spec /\ []Apart => []Orderly)
<1> SUFFICES ASSUME OnlyFaults PROVE Spec /\ []Apart => []Orderly
  OBVIOUS
<1>1. Serial /\ Orderly /\ Apart /\ [Next]_vars => Orderly'
  BY OrderlyNext
<1> QED BY <1>1, OrderlyInit, SerialInvariant, PTL DEF Spec

\* No half-done replacement survives its request: a call that is refused, at
\* whatever step, still leads to a handler that takes the new container away
\* and gives the old one its name back.
THEOREM NothingLeftOver == OnlyFaults => (Spec /\ []Apart => []NoLeftovers)
<1> SUFFICES ASSUME OnlyFaults PROVE Spec /\ []Apart => []NoLeftovers
  OBVIOUS
<1>1. Orderly => NoLeftovers
  BY LoopWorker DEF Orderly, Tidy, NoLeftovers, AtRest, Free, Temporary, SpareLabels, SwapLabels
<1> QED BY <1>1, OrderlyInvariant, PTL

-----------------------------------------------------------------------------
(* Only a healthy replacement removes the previous container.              *)

HealthyStep ==
  \A x \in DOMAIN cont \ DOMAIN cont' :
    cont[x].accepted =>
      \/ Deleting(cont[x].inst)
      \/ \E y \in Named(cont[x].inst, "main") : y # x /\ cont[y].accepted

LEMMA HealthyNext ==
  ASSUME OnlyFaults, Serial, Orderly, Apart, [Next]_vars PROVE HealthyStep
<1> SUFFICES ASSUME NEW x \in DOMAIN cont, x \notin DOMAIN cont', cont[x].accepted
             PROVE  \/ Deleting(cont[x].inst)
                    \/ \E y \in Named(cont[x].inst, "main") : y # x /\ cont[y].accepted
  BY DEF HealthyStep
<1> DEFINE Replaced == \/ Deleting(cont[x].inst)
                       \/ \E y \in Named(cont[x].inst, "main") : y # x /\ cont[y].accepted
<1>1. ASSUME NEW w \in Threads, Step(w) PROVE Replaced
  <2> USE DEF AfterLook, FastLabels, SweepLabels, BuiltLabels, SwapLabels
  <2>1. \/ task[w].pc \in {"dropNew", "dropOld", "spill", "discard"} /\ RemoveContainer(task[w].new)
        \/ task[w].pc \in {"retire", "rmDrop"} /\ RemoveContainer(task[w].old)
    <3>1. ASSUME NEW y, StopContainer(y) \/ StartContainer(y) PROVE FALSE
      BY <3>1 DEF StopContainer, StartContainer
    <3>2. ASSUME NEW y, NEW s, RenameTo(y, s) PROVE FALSE
      BY <3>2 DEF RenameTo
    <3>3. ASSUME NEW y, NEW i, NEW d, CreateOn(y, i, d) PROVE FALSE
      BY <3>3 DEF CreateOn
    <3>4. ASSUME NEW y, cont' = [cont EXCEPT ![y].accepted = TRUE] PROVE FALSE
      BY <3>4
    <3> QED BY <1>1, <3>1, <3>2, <3>3, <3>4, ThreadEffect DEF Effect
  <2>2. x = task[w].new \/ x = task[w].old
    <3>1. ASSUME NEW y, RemoveContainer(y) PROVE x = y
      BY <3>1 DEF RemoveContainer
    <3> QED BY <2>1, <3>1
  <2>3. Shape(task[w]) /\ ThreadTask(task[w]) /\ task[w].pc # "idle"
    BY <2>1, Busy
  <2>4. \A y \in DOMAIN cont :
          cont[y].inst = task[w].inst /\ cont[y].slot # "main" => Temporary(y, task[w])
    BY <2>3, Sole DEF Orderly
  <2>5. CASE task[w].pc \in {"dropNew", "dropOld"}
    BY <2>3, <2>4, <2>5 DEF Shape, Held, Temporary, SpareLabels
  <2>6. CASE task[w].pc \in {"spill", "discard"}
    <3>1. x = task[w].new
      <4>1. ASSUME NEW y, RemoveContainer(y) PROVE x = y
        BY <4>1 DEF RemoveContainer
      <4> QED BY <2>1, <2>6, <4>1
    <3> QED BY <2>3, <2>6, <3>1 DEF Shape, Candidate
  <2>7. CASE task[w].pc = "retire"
    <3>1. x = task[w].old
      <4>1. ASSUME NEW y, RemoveContainer(y) PROVE x = y
        BY <4>1 DEF RemoveContainer
      <4> QED BY <2>1, <2>7, <4>1
    <3>2. /\ cont[x].inst = task[w].inst /\ task[w].new \in Named(task[w].inst, "main")
          /\ task[w].new # x /\ cont[task[w].new].accepted
      BY <2>3, <2>7, <3>1 DEF Shape, Held, Named
    <3> QED BY <3>2
  <2>8. CASE task[w].pc = "rmDrop"
    <3>1. x = task[w].old
      <4>1. ASSUME NEW y, RemoveContainer(y) PROVE x = y
        BY <4>1 DEF RemoveContainer
      <4> QED BY <2>1, <2>8, <4>1
    <3> QED BY <2>3, <2>8, <3>1, LoopWorker DEF Shape, Held, ThreadTask, RemoveLabels, Deleting, Inst
  <2> QED BY <2>1, <2>5, <2>6, <2>7, <2>8
<1>2. ASSUME Mild PROVE FALSE
  BY <1>2 DEF Mild
<1>3. ~Step(Loop)
  BY <1>2, LoopStep, NextInv DEF Serial
<1>4. ~Environment /\ ~Reboot
  BY <1>2, EnvironmentMild, RebootMild DEF Serial
<1>5. ~Request /\ ~Crash /\ ~UNCHANGED vars
  BY RequestBegins DEF Crash, Begin, Lifecycle, EditLists, vars
<1> QED BY <1>1, <1>3, <1>4, <1>5 DEF Next, Workers

\* A container that passed its health gate is only removed by a delete, or
\* once another one that passed holds the instance's name ("Only a healthy
\* replacement removes the previous container").
THEOREM OnlyHealthyReplacesHolds == OnlyFaults => (Spec /\ []Apart => OnlyHealthyReplaces)
<1> SUFFICES ASSUME OnlyFaults PROVE Spec /\ []Apart => OnlyHealthyReplaces
  OBVIOUS
<1>1. Serial /\ Orderly /\ Apart /\ [Next]_vars => [HealthyStep]_vars
  BY HealthyNext
<1>2. OnlyHealthyReplaces <=> [][HealthyStep]_vars
  BY PTL DEF OnlyHealthyReplaces, HealthyStep
<1> QED BY <1>1, <1>2, SerialInvariant, OrderlyInvariant, PTL DEF Spec

-----------------------------------------------------------------------------
(* The live definition, of any state c of the containers.                  *)

Passed(c, i, s) == {x \in {y \in DOMAIN c : c[y].inst = i /\ c[y].slot = s} : c[x].accepted}
LiveIn(c, i) ==
  LET S == IF Passed(c, i, "main") # {} THEN Passed(c, i, "main") ELSE Passed(c, i, "old")
  IN IF S = {} THEN None ELSE c[CHOOSE x \in S : TRUE].def

LEMMA LiveBoth == \A i : Live(i) = LiveIn(cont, i) /\ Live(i)' = LiveIn(cont', i)
BY DEF Live, LiveIn, Accepted, Passed, Named

LEMMA LiveNone ==
  ASSUME NEW c, NEW i, Passed(c, i, "main") = {}, Passed(c, i, "old") = {}
  PROVE  LiveIn(c, i) = None
BY DEF LiveIn

\* It is the definition of the accepted container under the instance's name,
\* or else of the one that is parked.
LEMMA LiveOne ==
  ASSUME NEW c, NEW i, NEW s \in {"main", "old"}, NEW x, x \in Passed(c, i, s),
         s = "old" => Passed(c, i, "main") = {},
         \A y, z \in DOMAIN c : c[y].inst = c[z].inst /\ c[y].slot = c[z].slot => y = z
  PROVE  LiveIn(c, i) = c[x].def
<1>1. Passed(c, i, s) = {x}
  BY DEF Passed
<1>2. (CHOOSE y \in {x} : TRUE) = x
  OBVIOUS
<1>3. CASE s = "main"
  BY <1>1, <1>2, <1>3 DEF LiveIn
<1>4. CASE s = "old"
  BY <1>1, <1>2, <1>4 DEF LiveIn
<1> QED BY <1>3, <1>4

\* It does not change with containers that are not counted.
LEMMA LiveKept ==
  ASSUME NEW c, NEW e, NEW i,
         \A s \in {"main", "old"} :
           Passed(c, i, s) = Passed(e, i, s) /\ \A x \in Passed(c, i, s) : c[x].def = e[x].def
  PROVE  LiveIn(c, i) = LiveIn(e, i)
<1> DEFINE S == IF Passed(c, i, "main") # {} THEN Passed(c, i, "main") ELSE Passed(c, i, "old")
           T == IF Passed(e, i, "main") # {} THEN Passed(e, i, "main") ELSE Passed(e, i, "old")
<1>1. S = T /\ \A x \in S : c[x].def = e[x].def
  OBVIOUS
<1>2. S # {} => (CHOOSE x \in S : TRUE) \in S
  OBVIOUS
<1>3. LiveIn(c, i) = IF S = {} THEN None ELSE c[CHOOSE x \in S : TRUE].def
  BY DEF LiveIn
<1>4. LiveIn(e, i) = IF T = {} THEN None ELSE e[CHOOSE x \in T : TRUE].def
  BY DEF LiveIn
<1> HIDE DEF S, T
<1> QED BY <1>1, <1>2, <1>3, <1>4

\* Nothing but x changed.
Alters(x) ==
  \A y : y # x => /\ y \in DOMAIN cont' <=> y \in DOMAIN cont
                  /\ y \in DOMAIN cont => cont'[y] = cont[y]

LEMMA LiveElsewhere ==
  ASSUME NEW x, Alters(x), NEW i,
         \A s \in {"main", "old"} : x \notin Passed(cont, i, s) /\ x \notin Passed(cont', i, s)
  PROVE  Live(i)' = Live(i)
<1>1. \A s \in {"main", "old"} :
        /\ Passed(cont, i, s) = Passed(cont', i, s)
        /\ \A y \in Passed(cont, i, s) : cont[y].def = cont'[y].def
  BY DEF Alters, Passed
<1> QED BY <1>1, LiveKept, LiveBoth

LEMMA LiveMild == ASSUME Mild PROVE \A i : Live(i)' = Live(i)
<1> SUFFICES ASSUME NEW i PROVE Live(i)' = Live(i)
  OBVIOUS
<1>1. \A s \in {"main", "old"} :
        /\ Passed(cont, i, s) = Passed(cont', i, s)
        /\ \A y \in Passed(cont, i, s) : cont[y].def = cont'[y].def
  BY DEF Mild, Passed
<1> QED BY <1>1, LiveKept, LiveBoth

\* The calls of the Engine alter one container, and not its instance.
LEMMA CallAlters ==
  ASSUME Serial, NEW x
  PROVE  /\ RemoveContainer(x) => Alters(x) /\ x \notin DOMAIN cont'
         /\ \A s : RenameTo(x, s) => /\ Alters(x) /\ DOMAIN cont' = DOMAIN cont
                                     /\ x \in DOMAIN cont =>
                                          /\ cont'[x].inst = cont[x].inst /\ cont'[x].slot = s
                                          /\ cont'[x].def = cont[x].def
                                          /\ cont'[x].accepted = cont[x].accepted
         /\ cont' = [cont EXCEPT ![x].accepted = TRUE] =>
              /\ Alters(x) /\ DOMAIN cont' = DOMAIN cont
              /\ x \in DOMAIN cont => /\ cont'[x].inst = cont[x].inst /\ cont'[x].slot = cont[x].slot
                                      /\ cont'[x].def = cont[x].def /\ cont'[x].accepted
<1>1. \A y \in DOMAIN cont : cont[y] \in Container
  BY DEF Serial, Inv, TypeOK, EngineTypeOK
<1>2. RemoveContainer(x) => Alters(x) /\ x \notin DOMAIN cont'
  BY DEF RemoveContainer, Alters
<1>3. ASSUME NEW s, RenameTo(x, s)
      PROVE  /\ Alters(x) /\ DOMAIN cont' = DOMAIN cont
             /\ x \in DOMAIN cont => /\ cont'[x].inst = cont[x].inst /\ cont'[x].slot = s
                                     /\ cont'[x].def = cont[x].def
                                     /\ cont'[x].accepted = cont[x].accepted
  <2>1. Alters(x) /\ DOMAIN cont' = DOMAIN cont
    BY <1>3 DEF RenameTo, Alters
  <2> QED BY <1>1, <1>3, <2>1 DEF RenameTo, Container
<1>4. ASSUME cont' = [cont EXCEPT ![x].accepted = TRUE]
      PROVE  /\ Alters(x) /\ DOMAIN cont' = DOMAIN cont
             /\ x \in DOMAIN cont => /\ cont'[x].inst = cont[x].inst /\ cont'[x].slot = cont[x].slot
                                     /\ cont'[x].def = cont[x].def /\ cont'[x].accepted
  <2>1. Alters(x) /\ DOMAIN cont' = DOMAIN cont
    BY <1>4 DEF Alters
  <2> QED BY <1>1, <1>4, <2>1 DEF Container
<1> QED BY <1>2, <1>3, <1>4

\* A replacement changes the live definition at its gate, a delete when the
\* container goes, and nothing else does: parking keeps it under .old, and what
\* is thrown away was never counted.
LEMMA LiveStep ==
  ASSUME OnlyFaults, Serial, Serial', Orderly, Apart, NEW w \in Threads, Step(w),
         NEW i, i = task[w].inst
  PROVE  \/ \A j \in Instances : Live(j)' = Live(j)
         \/ /\ task[w].pc = "wait" /\ Live(i)' = task[w].def
            /\ \A j \in Instances \ {i} : Live(j)' = Live(j)
         \/ /\ task[w].pc = "rmDrop" /\ Live(i)' = None
            /\ \A j \in Instances \ {i} : Live(j)' = Live(j)
<1> USE DEF AfterLook, FastLabels, SweepLabels, BuiltLabels, SwapLabels
<1> DEFINE Same == \A j \in Instances : Live(j)' = Live(j)
<1>0. PICK o, n, d : o = task[w].old /\ n = task[w].new /\ d = task[w].def
  OBVIOUS
<1>1. task[w].pc # "idle" /\ SwapStep(w) /\ Effect(task[w])
  BY StepOthers, LoopWorker, SwapSteps, ThreadEffect DEF Serial
<1>2. \A x \in DOMAIN cont :
        cont[x].inst = i => /\ cont[x].slot # "main" => Temporary(x, task[w])
                            /\ ~cont[x].accepted => Untried(x, task[w])
  BY <1>1, Sole DEF Orderly
<1>3. /\ \A y, z \in DOMAIN cont : cont[y].inst = cont[z].inst /\ cont[y].slot = cont[z].slot => y = z
      /\ \A y, z \in DOMAIN cont' : cont'[y].inst = cont'[z].inst /\ cont'[y].slot = cont'[z].slot => y = z
  BY DEF Serial, UniqueNames
<1>4. UNCHANGED cont => Same
  BY UnchangedMild, LiveMild
\* One container is altered, and does not count before or after.
<1>5. ASSUME NEW x, Alters(x), \A s, j : x \notin Passed(cont, j, s) /\ x \notin Passed(cont', j, s)
      PROVE  Same
  BY <1>5, LiveElsewhere
<1>6. ASSUME NEW x, Alters(x), x \in DOMAIN cont => cont[x].inst = i,
             x \in DOMAIN cont' => cont'[x].inst = i, NEW j, j # i
      PROVE  Live(j)' = Live(j)
  <2>1. \A s : x \notin Passed(cont, j, s) /\ x \notin Passed(cont', j, s)
    BY <1>6 DEF Passed
  <2> QED BY <1>6, <2>1, LiveElsewhere
<1>7. task[w].pc \notin {"idle", "next"} => Shape(task[w])
  BY Busy
<1>8. CASE task[w].pc = "create"
  <2>1. ASSUME NEW x \in FreshIds, CreateOn(x, i, d) PROVE Same
    <3>1. Alters(x) /\ x \notin DOMAIN cont /\ ~cont'[x].accepted
      BY <2>1 DEF CreateOn, New, Alters, FreshIds
    <3> QED BY <1>5, <3>1 DEF Passed
  <2> QED BY <1>0, <1>1, <1>4, <1>8, <2>1 DEF SwapStep
<1>9. CASE task[w].pc \in {"spill", "discard"}
  <2>1. n \in DOMAIN cont /\ ~cont[n].accepted
    BY <1>0, <1>7, <1>9 DEF Shape, Candidate, Held
  <2>2. Alters(n) /\ n \notin DOMAIN cont'
    BY <1>0, <1>1, <1>9, CallAlters DEF SwapStep
  <2> QED BY <1>5, <2>1, <2>2 DEF Passed
<1>10. CASE task[w].pc = "promote"
  <2>1. n \in DOMAIN cont /\ ~cont[n].accepted
    BY <1>0, <1>7, <1>10 DEF Shape, Candidate, Held
  <2>2. CASE RenameTo(task[w].new, "main")
    <3>1. Alters(n) /\ ~cont'[n].accepted
      BY <1>0, <2>1, <2>2, CallAlters
    <3> QED BY <1>5, <2>1, <3>1 DEF Passed
  <2> QED BY <1>1, <1>4, <1>10, <2>2 DEF SwapStep
<1>11. CASE task[w].pc = "park"
  <2>1. Held(o, i, "main") /\ o # n /\ o \in DOMAIN cont /\ cont[o].accepted
    <3>1. Held(o, i, "main") /\ o # n
      BY <1>0, <1>7, <1>11 DEF Shape, Outdated, Candidate, Held
    <3> QED BY <1>0, <1>2, <3>1 DEF Held, Untried
  <2>2. CASE RenameTo(task[w].old, "old")
    <3>1. /\ Alters(o) /\ o \in DOMAIN cont' /\ cont'[o].inst = i /\ cont'[o].slot = "old"
          /\ cont'[o].def = cont[o].def /\ cont'[o].accepted
      BY <1>0, <2>1, <2>2, CallAlters DEF Held
    <3>2. o \in Passed(cont, i, "main") /\ o \in Passed(cont', i, "old")
      BY <2>1, <3>1 DEF Passed, Held
    <3>3. Passed(cont', i, "main") = {}
      <4>1. \A y \in DOMAIN cont : y # o => ~(cont[y].inst = i /\ cont[y].slot = "main")
        BY <1>3, <2>1 DEF Held
      <4> QED BY <3>1, <4>1 DEF Passed, Alters
    <3>4. LiveIn(cont, i) = cont[o].def
      BY <1>3, <3>2, LiveOne
    <3>5. LiveIn(cont', i) = cont'[o].def
      BY <1>3, <3>2, <3>3, LiveOne
    <3>6. Live(i)' = Live(i)
      BY <3>1, <3>4, <3>5, LiveBoth
    <3> QED BY <1>6, <2>1, <3>1, <3>6 DEF Held
  <2> QED BY <1>1, <1>4, <1>11, <2>2 DEF SwapStep
<1>12. CASE task[w].pc = "wait"
  <2>1. Held(n, i, "main")
    BY <1>0, <1>7, <1>12 DEF Shape, Candidate
  <2>2. CASE cont' = [cont EXCEPT ![task[w].new].accepted = TRUE]
    <3>1. /\ Alters(n) /\ n \in DOMAIN cont' /\ cont'[n].inst = i /\ cont'[n].slot = "main"
          /\ cont'[n].def = cont[n].def /\ cont'[n].accepted /\ cont[n].def = d
      BY <1>0, <1>7, <1>12, <2>1, <2>2, CallAlters DEF Held, Shape, Candidate
    <3>2. n \in Passed(cont', i, "main")
      BY <3>1 DEF Passed
    <3>3. LiveIn(cont', i) = d
      BY <1>3, <3>1, <3>2, LiveOne
    <3>4. \A j \in Instances \ {i} : Live(j)' = Live(j)
      BY <1>6, <2>1, <3>1 DEF Held
    <3> QED BY <1>0, <1>12, <3>3, <3>4, LiveBoth
  <2> QED BY <1>1, <1>4, <1>12, <2>2 DEF SwapStep
<1>13. CASE task[w].pc = "retire"
  <2>1. Held(n, i, "main") /\ cont[n].accepted /\ Held(o, i, "old") /\ o # n
    BY <1>0, <1>7, <1>13 DEF Shape, Held
  <2>2. Alters(o) /\ o \notin DOMAIN cont'
    BY <1>0, <1>1, <1>13, CallAlters DEF SwapStep
  <2>3. n \in Passed(cont, i, "main") /\ n \in Passed(cont', i, "main") /\ cont'[n] = cont[n]
    BY <2>1, <2>2 DEF Held, Passed, Alters
  <2>4. Live(i)' = Live(i)
    BY <1>3, <2>3, LiveOne, LiveBoth
  <2> QED BY <1>6, <2>1, <2>2, <2>4 DEF Held
<1>14. CASE task[w].pc = "unpark"
  <2>1. Held(o, i, "old") /\ Vacant(i, "main") /\ cont[o].accepted
    BY <1>0, <1>2, <1>7, <1>14 DEF Shape, Held, Untried, TrialLabels, SpareLabels
  <2>2. /\ Alters(o) /\ o \in DOMAIN cont' /\ cont'[o].inst = i /\ cont'[o].slot = "main"
        /\ cont'[o].def = cont[o].def /\ cont'[o].accepted
    BY <1>0, <1>1, <1>14, <2>1, CallAlters DEF SwapStep, Held
  <2>3. o \in Passed(cont, i, "old") /\ o \in Passed(cont', i, "main")
    BY <2>1, <2>2 DEF Passed, Held
  <2>4. Passed(cont, i, "main") = {}
    BY <2>1 DEF Passed, Vacant
  <2>5. LiveIn(cont, i) = cont[o].def
    BY <1>3, <2>3, <2>4, LiveOne
  <2>6. LiveIn(cont', i) = cont'[o].def
    BY <1>3, <2>3, LiveOne
  <2> QED BY <1>6, <2>1, <2>2, <2>5, <2>6, LiveBoth DEF Held
<1>15. CASE task[w].pc = "rmDrop"
  <2>1. Held(o, i, "main")
    BY <1>0, <1>7, <1>15 DEF Shape
  <2>2. CASE RemoveContainer(task[w].old)
    <3>1. Alters(o) /\ o \notin DOMAIN cont'
      BY <1>0, <2>2, CallAlters
    <3>2. \A y \in DOMAIN cont : y # o => ~(cont[y].inst = i)
      BY <1>2, <1>3, <1>15, <2>1 DEF Held, Temporary, SpareLabels
    <3>3. Passed(cont', i, "main") = {} /\ Passed(cont', i, "old") = {}
      BY <3>1, <3>2 DEF Passed, Alters
    <3>4. \A j \in Instances \ {i} : Live(j)' = Live(j)
      BY <1>6, <2>1, <3>1 DEF Held
    <3> QED BY <1>0, <1>15, <3>3, <3>4, LiveNone, LiveBoth
  <2> QED BY <1>1, <1>4, <1>15, <2>2 DEF Effect
<1>16. CASE task[w].pc \in {"dropNew", "dropOld"}
  BY <1>2, <1>7, <1>16 DEF Shape, Held, Temporary, SpareLabels
<1>17. CASE task[w].pc \notin {"create", "spill", "discard", "promote", "park", "wait", "retire",
                               "unpark", "rmDrop", "dropNew", "dropOld"}
  <2>1. ASSUME NEW x, x \in DOMAIN cont, StopContainer(x) \/ StartContainer(x) PROVE Mild
    BY <2>1, StopMild, StartMild DEF Serial
  <2>2. /\ task[w].pc \in {"stop", "fastStart", "revive"} => task[w].old \in DOMAIN cont
        /\ task[w].pc = "start" => task[w].new \in DOMAIN cont
    BY <1>7 DEF Shape, Outdated, Candidate, Held
  <2>3. \/ UNCHANGED cont
        \/ task[w].pc = "stop" /\ StopContainer(task[w].old)
        \/ task[w].pc \in {"fastStart", "revive"} /\ StartContainer(task[w].old)
        \/ task[w].pc = "start" /\ StartContainer(task[w].new)
    BY <1>1, <1>17 DEF Effect
  <2>4. Mild
    BY <2>1, <2>2, <2>3, UnchangedMild
  <2> QED BY <2>4, LiveMild
<1> QED BY <1>8, <1>9, <1>10, <1>11, <1>12, <1>13, <1>14, <1>15, <1>16, <1>17

-----------------------------------------------------------------------------
(* ControlPlane implements Replacement.                                    *)

\* The steps of the promise, in terms of the detailed state.
LEMMA PromiseStutter ==
  ASSUME UNCHANGED yaml, \A j \in Instances : Live(j)' = Live(j),
         \A j \in Instances : Deleting(j)' <=> Deleting(j)
  PROVE  UNCHANGED Promise!vars
BY DEF Promise!vars

LEMMA PromiseDefine ==
  ASSUME NEW i \in Instances, ~Deleting(i), NEW d \in Def \cup {Torn},
         yaml' = [yaml EXCEPT ![i] = d], \A j \in Instances : Live(j)' = Live(j),
         \A j \in Instances : Deleting(j)' <=> Deleting(j)
  PROVE  Promise!Next
<1>1. Promise!Define(i)
  BY DEF Promise!Define
<1> QED BY <1>1 DEF Promise!Next

LEMMA PromiseSwitch ==
  ASSUME NEW i \in Instances, ~Deleting(i), yaml[i] \in Def, UNCHANGED yaml,
         Live(i)' = yaml[i], \A j \in Instances \ {i} : Live(j)' = Live(j),
         \A j \in Instances : Deleting(j)' <=> Deleting(j)
  PROVE  Promise!Next
<1>1. Promise!Switch(i)
  BY DEF Promise!Switch
<1> QED BY <1>1 DEF Promise!Next

LEMMA PromiseLeave ==
  ASSUME NEW i \in Instances, yaml[i] \in Def, UNCHANGED yaml,
         \A j \in Instances : Live(j)' = Live(j),
         \A j \in Instances : Deleting(j)' <=> Deleting(j) \/ j = i
  PROVE  Promise!Next
<1>1. Promise!Leave(i)
  BY DEF Promise!Leave
<1> QED BY <1>1 DEF Promise!Next

LEMMA PromiseDrop ==
  ASSUME NEW i \in Instances, Deleting(i), UNCHANGED yaml,
         Live(i)' = None, \A j \in Instances \ {i} : Live(j)' = Live(j),
         \A j \in Instances : Deleting(j)' <=> Deleting(j)
  PROVE  Promise!Next
<1>1. Promise!Drop(i)
  BY DEF Promise!Drop
<1> QED BY <1>1 DEF Promise!Next

LEMMA PromiseForget ==
  ASSUME NEW i \in Instances, Deleting(i), Live(i) = None, yaml' = [yaml EXCEPT ![i] = None],
         \A j \in Instances : Live(j)' = Live(j),
         \A j \in Instances : Deleting(j)' <=> Deleting(j) /\ j # i
  PROVE  Promise!Next
<1>1. Promise!Forget(i)
  BY DEF Promise!Forget
<1> QED BY <1>1 DEF Promise!Next

\* A request that is not a delete does not become one.
LEMMA DeletedBefore ==
  ASSUME Serial, NEW w \in Threads, Step(w), task'[w].op = "delete"
  PROVE  task[w].op = "delete"
<1>1. w \in Workers /\ task \in [Workers -> Task]
  BY LoopWorker DEF Serial, Inv, TypeOK, DockerTypeOK
<1>2. CASE task[w].pc \notin Turns
  BY <1>2, LabelStep DEF KeepsRequest
<1>3. CASE task[w].pc \in Turns
  <2> SUFFICES ASSUME task[w].op # "delete" PROVE FALSE
    OBVIOUS
  <2>1. ~(task' = [task EXCEPT ![w] = Idle])
    BY <1>1 DEF Idle
  <2>2. ASSUME NEW e \in BOOLEAN, Finish(w, e) PROVE FALSE
    BY <1>1, <2>1, <2>2, FinishFields DEF Serial
  <2>3. ~Undo(w) /\ ~Goto(w, "verify") /\ ~Goto(w, "rmPrev") /\ ~Goto(w, "raised")
    BY <1>1, UndoFields, GotoFields DEF Serial
  <2>4. ~NextInstance(w)
    BY <1>1, <2>1, NextFields DEF Serial
  <2>5. Verify(w) \/ VerifyAborts(w) => (\E e \in BOOLEAN : Finish(w, e)) \/ Undo(w)
    BY DEF Verify, VerifyAborts
  <2> QED BY <1>3, <2>1, <2>2, <2>3, <2>4, <2>5, TurnStep
<1> QED BY <1>2, <1>3

\* The instances other threads delete are not the one a thread works on.
DeletedElsewhere(w, j) == \E v \in Threads \ {w} : task[v].op = "delete" /\ task[v].inst = j

LEMMA DeletingStep ==
  ASSUME Serial, Apart, NEW w \in Threads, Step(w)
  PROVE  /\ ~DeletedElsewhere(w, task[w].inst)
         /\ \A j :
              /\ Deleting(j) <=> \/ DeletedElsewhere(w, j)
                                 \/ task[w].op = "delete" /\ task[w].inst = j
              /\ Deleting(j)' <=> \/ DeletedElsewhere(w, j)
                                  \/ task'[w].op = "delete" /\ task'[w].inst = j
<1>1. task[w].pc # "idle" /\ \A v \in Workers \ {w} : task'[v] = task[v]
  BY StepOthers, LoopWorker DEF Serial
<1>2. ASSUME NEW v \in Threads \ {w}, task[v].op = "delete" PROVE task[v].inst # task[w].inst
  <2>1. task[v].pc \notin {"idle", "next"}
    BY <1>2 DEF Serial, ThreadTask, RemoveLabels
  <2> QED BY <1>1, <2>1, Distinct
<1>3. task[Loop].op # "delete"
  BY DEF Serial, LoopTask, LoopOps
<1>4. ASSUME NEW j
      PROVE  /\ Deleting(j) <=> \/ DeletedElsewhere(w, j)
                                \/ task[w].op = "delete" /\ task[w].inst = j
             /\ Deleting(j)' <=> \/ DeletedElsewhere(w, j)
                                 \/ task'[w].op = "delete" /\ task'[w].inst = j
  <2>1. \A v \in Threads \ {w} : v \in Workers /\ task'[v] = task[v]
    BY <1>1, LoopWorker
  <2>2. task[Loop].op # "delete" /\ task'[Loop].op # "delete" /\ w \in Workers
    BY <1>1, <1>3, LoopWorker
  <2>3. \A v \in Workers : v = w \/ v = Loop \/ v \in Threads \ {w}
    BY DEF Workers
  <2> QED BY <2>1, <2>2, <2>3 DEF Deleting, Inst, DeletedElsewhere
<1> QED BY <1>2, <1>4 DEF DeletedElsewhere

LEMMA AtomicThread ==
  ASSUME OnlyFaults, Serial, Serial', Orderly, Apart, NEW w \in Threads, Step(w)
  PROVE  Promise!Next \/ UNCHANGED Promise!vars
<1> USE DEF AfterLook, FastLabels, SweepLabels, BuiltLabels, SwapLabels
<1>0. PICK i : i = task[w].inst
  OBVIOUS
<1>1. /\ task[w].pc # "idle" /\ task \in [Workers -> Task] /\ w \in Workers
      /\ yaml \in [Instances -> Def \cup {Torn, None}]
  BY StepOthers, LoopWorker DEF Serial, Inv, TypeOK, DockerTypeOK, StoreTypeOK
<1>2. /\ ~DeletedElsewhere(w, i)
      /\ \A j : /\ Deleting(j) <=> \/ DeletedElsewhere(w, j)
                                   \/ task[w].op = "delete" /\ i = j
                /\ Deleting(j)' <=> \/ DeletedElsewhere(w, j)
                                    \/ task'[w].op = "delete" /\ task'[w].inst = j
  BY <1>0, DeletingStep DEF DeletedElsewhere
<1>3. /\ task[w].pc # "next" => i \in Instances /\ Shape(task[w]) /\ Stored(task[w])
      /\ ThreadTask(task[w])
  BY <1>0, <1>1, Busy DEF Serial
<1>4. UNCHANGED cont => \A j \in Instances : Live(j)' = Live(j)
  BY UnchangedMild, LiveMild
<1>5. CASE task[w].pc \notin Turns
  <2>1. /\ i \in Instances
        /\ \A j : Deleting(j)' <=> Deleting(j)
        /\ task[w].pc \in RemoveLabels => Deleting(i)
        /\ task[w].pc \notin RemoveLabels => ~Deleting(i)
    BY <1>0, <1>1, <1>2, <1>3, <1>5, LabelStep DEF KeepsRequest, Turns, ThreadTask
  <2>2. CASE task[w].pc \in {"put", "putWrite"}
    <3>1. \/ Truncate(task[w].inst) /\ UNCHANGED cont
          \/ task[w].pc = "putWrite" /\ Write(task[w].inst, task[w].def) /\ UNCHANGED cont
      <4>1. Put(w)
        BY <2>2 DEF Step, Work, DockerStep, EnsureStep, Look, Fast, FastStart, Sweep, FindStale,
           Remove, Create, StopOld, Park, Rename, Spill, Promote, StartNew, WaitHealthy, Retire,
           Discard, Unpark, Revive, RemoveStep, FindMain, RemoveVolume, DeleteLists, LifecycleStep,
           LifecycleAct, DockerFault, Refuse, Abort, TryLabels, CallLabels, Note, DeleteFiles,
           FileStep, NextInstance, Returned, Raised, Verify, VerifyAborts, At
      <4> QED BY <4>1 DEF Put, FileStep, At, Inst
    <3>2. \E d \in Def \cup {Torn} : yaml' = [yaml EXCEPT ![i] = d]
      <4>1. task[w].def \in Def
        BY <1>1, <2>2, LoopWorker DEF Serial, Inv, WellFormed, EnsureLabels
      <4>2. task[w].pc = "putWrite" => yaml[i] # None
        BY <1>0, <1>3 DEF Stored
      <4> QED BY <1>0, <1>1, <2>1, <3>1, <4>1, <4>2 DEF Truncate, Write
    <3>3. ~Deleting(i)
      BY <2>1, <2>2 DEF RemoveLabels
    <3> QED BY <1>4, <2>1, <3>1, <3>2, <3>3, PromiseDefine
  <2>3. CASE task[w].pc \notin {"put", "putWrite"}
    <3>1. UNCHANGED yaml
      <4>1. \A j \in Instances : yaml'[j] = yaml[j]
        BY <1>5, <2>3, YamlStep DEF Turns
      <4>2. yaml' \in [Instances -> Def \cup {Torn, None}]
        BY DEF Serial, Inv, TypeOK, StoreTypeOK
      <4> QED BY <1>1, <4>1, <4>2
    <3>2. CASE \A j \in Instances : Live(j)' = Live(j)
      BY <2>1, <3>1, <3>2, PromiseStutter
    <3>3. CASE task[w].pc = "wait" /\ Live(i)' = task[w].def
               /\ \A j \in Instances \ {i} : Live(j)' = Live(j)
      <4>1. yaml[i] = task[w].def /\ yaml[i] \in Def
        BY <1>0, <3>3, StoredDef
      <4>2. ~Deleting(i)
        BY <2>1, <3>3 DEF RemoveLabels
      <4> QED BY <2>1, <3>1, <3>3, <4>1, <4>2, PromiseSwitch
    <3>4. CASE task[w].pc = "rmDrop" /\ Live(i)' = None
               /\ \A j \in Instances \ {i} : Live(j)' = Live(j)
      BY <2>1, <3>1, <3>4, PromiseDrop DEF RemoveLabels
    <3> QED BY <1>0, <3>2, <3>3, <3>4, LiveStep
  <2> QED BY <2>2, <2>3
<1>6. CASE task[w].pc = "rmYaml"
  <2>1. /\ task' = [task EXCEPT ![w] = Idle] /\ UNCHANGED cont
    BY <1>6, TurnStep DEF Turns
  <2>2. yaml' = [yaml EXCEPT ![i] = None]
    <3>1. DeleteFiles(w)
      BY <1>6, RemovingStep DEF RemoveLabels, RemoveStep, FindMain, Remove, RemoveVolume,
         DeleteLists, At
    <3> QED BY <1>0, <1>6, <3>1 DEF DeleteFiles, FileStep, At, Unlink, Inst
  <2>3. task'[w].op = "none" /\ task[w].op = "delete" /\ i \in Instances
    BY <1>1, <1>3, <1>6, <2>1 DEF Idle, ThreadTask, RemoveLabels
  <2>4. Live(i) = None
    <3>1. Vacant(i, "main")
      BY <1>0, <1>3, <1>6 DEF Shape, AfterDrop
    <3>2. \A x \in DOMAIN cont : cont[x].inst = i => cont[x].slot = "main"
      BY <1>0, <1>1, <1>6, Sole DEF Orderly, Temporary, SpareLabels
    <3>3. Passed(cont, i, "main") = {} /\ Passed(cont, i, "old") = {}
      BY <3>1, <3>2 DEF Vacant, Passed
    <3> QED BY <3>3, LiveNone, LiveBoth
  <2> QED BY <1>2, <1>4, <2>1, <2>2, <2>3, <2>4, PromiseForget
<1>7. CASE task[w].pc \in Turns \ {"rmYaml"}
  <2>1. UNCHANGED <<cont, yaml>>
    <3>1. UNCHANGED cont
      BY <1>7, TurnStep
    <3>2. \A j \in Instances : yaml'[j] = yaml[j]
      BY <1>7, YamlStep DEF Turns
    <3>3. yaml' \in [Instances -> Def \cup {Torn, None}]
      BY DEF Serial, Inv, TypeOK, StoreTypeOK
    <3> QED BY <1>1, <3>1, <3>2, <3>3
  <2>2. /\ task'[w].op = "delete" => task[w].op = "delete"
        /\ task[w].op = "delete" => task'[w].op = "delete" /\ task'[w].inst = i
    <3>1. CASE task[w].op = "delete"
      <4>1. task[w].pc = "returned"
        BY <1>3, <1>7, <3>1 DEF ThreadTask, RemoveLabels, Turns, Orderly, Ends
      <4>2. Goto(w, "rmPrev")
        BY <1>7, <3>1, <4>1, TurnStep
      <4> QED BY <1>0, <1>1, <3>1, <4>2, GotoFields DEF Serial
    <3>2. CASE task[w].op # "delete"
      BY <3>2, DeletedBefore
    <3> QED BY <3>1, <3>2
  <2>3. \A j \in Instances : Deleting(j)' <=> Deleting(j)
    BY <1>2, <2>2
  <2> QED BY <1>4, <2>1, <2>3, PromiseStutter
<1> QED BY <1>5, <1>6, <1>7

\* What the event loop, the Engine and the containers do is no step of it.
LEMMA QuietPromise ==
  ASSUME Serial, Serial', Mild, UNCHANGED yaml, \A v \in Threads : task'[v] = task[v]
  PROVE  UNCHANGED Promise!vars
<1>1. task[Loop].op # "delete" /\ task'[Loop].op # "delete"
  BY DEF Serial, LoopTask, LoopOps
<1>2. \A j \in Instances : Deleting(j)' <=> Deleting(j)
  BY <1>1 DEF Deleting, Inst, Workers
<1> QED BY <1>2, LiveMild, PromiseStutter

LEMMA AtomicNext ==
  ASSUME OnlyFaults, Serial, Serial', Orderly, Apart, [Next]_vars
  PROVE  Promise!Next \/ UNCHANGED Promise!vars
<1>1. ASSUME NEW w \in Threads, Step(w) PROVE Promise!Next \/ UNCHANGED Promise!vars
  BY <1>1, AtomicThread
<1>2. CASE Step(Loop)
  BY <1>2, LoopStep, StepOthers, LoopWorker, QuietPromise DEF Serial
<1>3. CASE Request
  <2>1. ASSUME NEW w \in Threads, NEW t, BeginTask(t), Begin(w, t), Free(w)
        PROVE  Promise!Next \/ UNCHANGED Promise!vars
    <3>1. /\ task'[w] = t /\ UNCHANGED <<cont, yaml>>
          /\ \A v \in Workers \ {w} : task'[v] = task[v]
      BY <2>1, LoopWorker DEF Begin, storeVars, Serial, Inv, TypeOK, DockerTypeOK
    <3>2. task[w].op = "none"
      BY <2>1 DEF Free, Serial, ThreadTask
    <3>3. \A j : Deleting(j)' <=> Deleting(j) \/ (t.op = "delete" /\ t.inst = j)
      BY <3>1, <3>2, LoopWorker DEF Deleting, Inst
    <3>4. \A j \in Instances : Live(j)' = Live(j)
      BY <3>1, UnchangedMild, LiveMild
    <3>5. CASE t.op = "delete"
      <4>1. t.inst \in Instances /\ yaml[t.inst] \in Def
        BY <2>1, <3>5 DEF BeginTask
      <4> QED BY <3>1, <3>3, <3>4, <3>5, <4>1, PromiseLeave
    <3>6. CASE t.op # "delete"
      BY <3>1, <3>3, <3>4, <3>6, PromiseStutter
    <3> QED BY <3>5, <3>6
  <2>2. ASSUME NEW op \in LoopOps, NEW i \in Instances, Lifecycle(op, i)
        PROVE  UNCHANGED Promise!vars
    <3>1. \A w \in Threads : task'[w] = task[w]
      BY <2>2, LoopWorker DEF Lifecycle, Begin, Serial, Inv, TypeOK, DockerTypeOK
    <3> QED BY <2>2, <3>1, UnchangedMild, QuietPromise DEF Lifecycle, Begin, storeVars
  <2>3. ASSUME NEW i \in Instances, EditLists(i) PROVE UNCHANGED Promise!vars
    BY <2>3, UnchangedMild, QuietPromise DEF EditLists, storeVars
  <2> QED BY <1>3, <2>1, <2>2, <2>3, RequestBegins
<1>4. CASE Environment
  BY <1>4, EnvironmentMild, QuietPromise DEF Environment, storeVars, Serial
<1>5. ~Crash /\ ~Reboot
  BY DEF OnlyFaults, Crash, Reboot
<1>6. CASE UNCHANGED vars
  BY <1>6, UnchangedMild, QuietPromise DEF vars
<1> QED BY <1>1, <1>2, <1>3, <1>4, <1>5, <1>6 DEF Next, Workers

LEMMA AtomicInit == Init => Promise!Init
<1> SUFFICES ASSUME Init PROVE Promise!Init
  OBVIOUS
<1>1. ASSUME NEW i \in Instances PROVE Live(i) = yaml[i]
  <2>1. \A y, z \in DOMAIN cont : cont[y].inst = cont[z].inst /\ cont[y].slot = cont[z].slot => y = z
    BY InitSerial DEF Serial, UniqueNames
  <2>2. CASE yaml[i] # None
    <3>1. PICK x \in DOMAIN cont : Held(x, i, "main") /\ cont[x].def = yaml[i] /\ cont[x].accepted
      BY <2>2, InitialHost DEF RunsAs
    <3>2. x \in Passed(cont, i, "main")
      BY <3>1 DEF Passed, Held
    <3> QED BY <2>1, <3>1, <3>2, LiveOne, LiveBoth
  <2>3. CASE yaml[i] = None
    <3>1. \A x \in DOMAIN cont : cont[x].inst # i
      BY <2>3, InitialHost, NoneAssumption DEF Def
    <3>2. Passed(cont, i, "main") = {} /\ Passed(cont, i, "old") = {}
      BY <3>1 DEF Passed
    <3> QED BY <2>3, <3>2, LiveNone, LiveBoth
  <2> QED BY <2>2, <2>3
<1>2. yaml \in [Instances -> Def \cup {None}]
  <2>1. yaml \in [Instances -> Def \cup {Torn, None}]
    BY InitSerial DEF Serial, Inv, TypeOK, StoreTypeOK
  <2> QED BY <2>1, InitialHost
<1>3. [i \in Instances |-> Live(i)] = yaml
  BY <1>1, <1>2
<1>4. {i \in Instances : Deleting(i)} = {}
  BY InitialHost DEF Deleting, Idle
<1> QED BY <1>2, <1>3, <1>4 DEF Promise!Init

\* The many calls of ensure_running are one step: seen through the accepted
\* container, an instance goes from the old definition to the stored one at the
\* health gate, or stays with the old one, and loses it only to a delete.
THEOREM ReplacementIsAtomic == OnlyFaults => (Spec /\ []Apart => AtomicReplacement)
<1> SUFFICES ASSUME OnlyFaults PROVE Spec /\ []Apart => AtomicReplacement
  OBVIOUS
<1>1. Serial /\ Serial' /\ Orderly /\ Apart /\ [Next]_vars => [Promise!Next]_(Promise!vars)
  BY AtomicNext
<1> QED BY <1>1, AtomicInit, SerialInvariant, OrderlyInvariant, PTL
    DEF Spec, AtomicReplacement, Promise!Spec

-----------------------------------------------------------------------------
(* A delete leaves nothing of the instance behind.                         *)

NoListEdits == "lists" \notin Ops

Emptied(t) == t.pc \in {"rmPrev", "rmYaml"} \/ (t.pc = "returned" /\ t.op = "delete")

\* What each label of a delete has behind it.
Clears(t) ==
  /\ Emptied(t) => lists[t.inst] = "absent"
  /\ t.pc = "rmYaml" => prev[t.inst] = None
  /\ t.pc \in {"rmLogs", "rmLists"} \/ Emptied(t) => "cache" \notin vols[t.inst]
  /\ t.pc = "rmLists" \/ Emptied(t) => t.keep \/ "logs" \notin vols[t.inst]

\* From the removal of the container on, the instance has none.
LEMMA NoneLeft ==
  ASSUME Serial, Orderly, Apart, NEW w \in Threads, task[w].pc \in AfterDrop
  PROVE  Of(task[w].inst) = {}
<1>1. Vacant(task[w].inst, "main") /\ task[w].pc # "idle"
  BY Busy DEF AfterDrop, Shape
<1>2. \A x \in DOMAIN cont : cont[x].inst = task[w].inst => cont[x].slot = "main"
  BY <1>1, Sole DEF AfterDrop, Orderly, Temporary, SpareLabels, SwapLabels
<1> QED BY <1>1, <1>2 DEF Vacant, Of

LEMMA ClearsThread ==
  ASSUME OnlyFaults, Serial, Serial', Orderly, Orderly', Apart, NEW w \in Threads,
         Clears(task[w]), Step(w)
  PROVE  Clears(task[w])'
<1>0. PICK i : i = task[w].inst
  OBVIOUS
<1>1. /\ task[w].pc # "idle" /\ w \in Workers
      /\ vols \in [Instances -> SUBSET Volumes]
      /\ lists \in [Instances -> {"absent", "empty", "filled"}]
      /\ prev \in [Instances -> Images \cup {None}]
      /\ ThreadTask(task[w]) /\ ThreadTask(task[w])'
  BY StepOthers, LoopWorker
     DEF Serial, Inv, TypeOK, EngineTypeOK, DockerTypeOK, StoreTypeOK
<1>2. CASE task'[w].op # "delete"
  BY <1>1, <1>2 DEF ThreadTask, RemoveLabels, Clears, Emptied
<1>3. CASE task[w].pc \in RemoveLabels \ {"rmYaml"}
  <2>1. /\ KeepsRequest(w) /\ task'[w].inst = i /\ i \in Instances
        /\ task[w].op = "delete"
    BY <1>0, <1>1, <1>3, LabelStep, Busy DEF KeepsRequest, Turns, RemoveLabels, ThreadTask
  <2>2. ASSUME NEW l, Goto(w, l) PROVE task'[w].pc = l
    BY <1>1, <2>2, GotoFields DEF Serial
  <2>3. CASE task[w].pc \in {"rmFind", "rmDrop"}
    <3>1. task'[w].pc \in {"rmDrop", "rmCache", "raised"}
      BY <2>3, LabelStep DEF Follows, CallLabels, TryLabels
    <3> QED BY <3>1 DEF Clears, Emptied
  <2>4. CASE task[w].pc = "rmCache"
    <3>1. RemoveVolume(w, "rmCache", "cache", IF task[w].keep THEN "rmLists" ELSE "rmLogs")
      BY <2>4, RemovingStep DEF RemoveLabels, RemoveStep, FindMain, Remove, RemoveVolume,
         DeleteLists, DeleteFiles, FileStep, At
    <3>2. Of(i) = {}
      BY <1>0, <2>4, NoneLeft DEF AfterDrop
    <3>3. "cache" \notin vols'[i]
      BY <1>0, <1>1, <2>1, <3>1, <3>2 DEF RemoveVolume, Inst
    <3>4. task'[w].pc = (IF task[w].keep THEN "rmLists" ELSE "rmLogs") /\ task'[w].keep = task[w].keep
      BY <2>1, <2>2, <3>1 DEF RemoveVolume, KeepsRequest
    <3> QED BY <2>1, <3>3, <3>4 DEF Clears, Emptied
  <2>5. CASE task[w].pc = "rmLogs"
    <3>1. RemoveVolume(w, "rmLogs", "logs", "rmLists")
      BY <2>5, RemovingStep DEF RemoveLabels, RemoveStep, FindMain, Remove, RemoveVolume,
         DeleteLists, DeleteFiles, FileStep, At
    <3>2. Of(i) = {}
      BY <1>0, <2>5, NoneLeft DEF AfterDrop
    <3>3. "logs" \notin vols'[i] /\ vols'[i] \subseteq vols[i]
      BY <1>0, <1>1, <2>1, <3>1, <3>2 DEF RemoveVolume, Inst
    <3>4. task'[w].pc = "rmLists"
      BY <2>2, <3>1 DEF RemoveVolume
    <3>5. "cache" \notin vols[i]
      BY <1>0, <2>5 DEF Clears
    <3> QED BY <2>1, <3>3, <3>4, <3>5 DEF Clears, Emptied
  <2>6. CASE task[w].pc = "rmLists"
    <3>1. DeleteLists(w)
      BY <2>6, RemovingStep DEF RemoveLabels, RemoveStep, FindMain, Remove, RemoveVolume,
         DeleteLists, DeleteFiles, FileStep, At
    <3>2. /\ lists'[i] = "absent" /\ UNCHANGED vols /\ task'[w].pc = "returned"
      BY <1>0, <1>1, <2>1, <2>2, <3>1 DEF DeleteLists, Inst
    <3>3. "cache" \notin vols[i] /\ (task[w].keep \/ "logs" \notin vols[i])
      BY <1>0, <2>6 DEF Clears
    <3> QED BY <2>1, <3>2, <3>3 DEF Clears, Emptied, KeepsRequest
  <2>7. CASE task[w].pc = "rmPrev"
    <3>1. FileStep(w, "rmPrev", "rmYaml") /\ UnlinkPrevious(task[w].inst)
      BY <2>7, RemovingStep DEF RemoveLabels, RemoveStep, FindMain, Remove, RemoveVolume,
         DeleteLists, DeleteFiles, FileStep, At, Inst
    <3>2. /\ prev'[i] = None /\ UNCHANGED <<vols, lists>> /\ task'[w].pc = "rmYaml"
      BY <1>0, <1>1, <2>1, <2>2, <3>1 DEF FileStep, UnlinkPrevious
    <3>3. /\ lists[i] = "absent" /\ "cache" \notin vols[i]
          /\ task[w].keep \/ "logs" \notin vols[i]
      BY <1>0, <2>7 DEF Clears, Emptied
    <3> QED BY <2>1, <3>2, <3>3 DEF Clears, Emptied, KeepsRequest
  <2> QED BY <1>3, <2>3, <2>4, <2>5, <2>6, <2>7 DEF RemoveLabels
<1>4. CASE task[w].pc = "returned" /\ task[w].op = "delete"
  <2>1. Goto(w, "rmPrev") /\ UNCHANGED <<vols, lists>>
    BY <1>4, TurnStep DEF Turns
  <2>2. task'[w].pc = "rmPrev" /\ task'[w].inst = i /\ task'[w].keep = task[w].keep
    BY <1>0, <1>1, <2>1, GotoFields DEF Serial
  <2>3. /\ lists[i] = "absent" /\ "cache" \notin vols[i]
        /\ task[w].keep \/ "logs" \notin vols[i]
    BY <1>0, <1>4 DEF Clears, Emptied
  <2> QED BY <2>1, <2>2, <2>3 DEF Clears, Emptied
<1>5. CASE task[w].pc = "rmYaml"
  <2>1. task'[w].pc = "idle"
    <3>1. task' = [task EXCEPT ![w] = Idle]
      BY <1>5, TurnStep DEF Turns
    <3> QED BY <1>1, <3>1 DEF Serial, Inv, TypeOK, DockerTypeOK, Idle
  <2> QED BY <2>1 DEF Clears, Emptied
<1>6. task'[w].op = "delete" => task[w].pc \in RemoveLabels \/ (task[w].pc = "returned" /\ task[w].op = "delete")
  <2>1. task[w].op = "delete" => task[w].pc \in RemoveLabels \cup {"returned"}
    BY <1>1 DEF ThreadTask, Orderly, Ends
  <2>2. task'[w].op = "delete" => task[w].op = "delete"
    BY DeletedBefore
  <2> QED BY <2>1, <2>2
<1> QED BY <1>2, <1>3, <1>4, <1>5, <1>6

\* The event loop's calls touch no volume and no note.
LEMMA LoopKeeps == ASSUME Serial, Step(Loop) PROVE UNCHANGED <<vols, storeVars>>
<1>1. task[Loop].pc \in {"lcFind", "lcAct", "returned", "raised"} /\ task[Loop].op \in LoopOps
  BY StepOthers, LoopWorker, LoopLabel DEF Serial
<1>2. ~EnsureStep(Loop)
  BY <1>1 DEF EnsureStep, Look, Fast, FastStart, Sweep, FindStale, Remove, Create, StopOld,
     Park, Rename, Spill, Promote, StartNew, WaitHealthy, Retire, Discard, Unpark, Revive, At
<1>3. ~RemoveStep(Loop)
  BY <1>1 DEF RemoveStep, FindMain, Remove, RemoveVolume, DeleteLists, At
<1>4. CASE DockerStep(Loop)
  BY <1>2, <1>3, <1>4 DEF DockerStep, LifecycleStep, FindMain, LifecycleAct
<1>5. CASE ~DockerStep(Loop)
  BY <1>1, <1>5 DEF Step, Work, DockerFault, Refuse, Abort, Note, Put, DeleteFiles, FileStep,
     NextInstance, Returned, Raised, Verify, VerifyAborts, At
<1> QED BY <1>4, <1>5

\* Notes are written by updates and dropped by deletes.
LEMMA PrevStep ==
  ASSUME Serial, NEW w \in Threads, Step(w), NEW j \in Instances
  PROVE  \/ prev'[j] = prev[j]
         \/ j = task[w].inst /\ task[w].pc = "note" /\ prev'[j] = task[w].base.image
         \/ j = task[w].inst /\ task[w].pc = "rmPrev" /\ prev'[j] = None
<1>1. prev \in [Instances -> Images \cup {None}]
  BY DEF Serial, Inv, TypeOK, StoreTypeOK
<1>2. CASE Note(w)
  BY <1>1, <1>2 DEF Note, FileStep, At, NotePrevious, Inst
<1>3. CASE DeleteFiles(w)
  BY <1>1, <1>3 DEF DeleteFiles, FileStep, At, UnlinkPrevious, Inst
<1>4. CASE ~Note(w) /\ ~DeleteFiles(w)
  BY <1>4 DEF Step, Work, DockerStep, DockerFault, Put, NextInstance, Returned, Raised, Verify,
     VerifyAborts, storeVars
<1> QED BY <1>2, <1>3, <1>4

LEMMA VolsStep ==
  ASSUME Serial, NEW w \in Threads, Step(w), NEW j \in Instances, j # task[w].inst
  PROVE  vols'[j] = vols[j]
<1>1. vols \in [Instances -> SUBSET Volumes]
  BY DEF Serial, Inv, TypeOK, EngineTypeOK
<1>2. CASE Create(w)
  BY <1>1, <1>2 DEF Create, CreateOn, Inst
<1>3. CASE RemoveStep(w)
  BY <1>1, <1>3 DEF RemoveStep, FindMain, Remove, RemoveVolume, DeleteLists, Inst
<1>4. CASE ~Create(w) /\ ~RemoveStep(w)
  BY <1>4 DEF Step, Work, DockerStep, EnsureStep, Look, Fast, FastStart, Sweep, FindStale, Remove,
     StopOld, Park, Rename, Spill, Promote, StartNew, WaitHealthy, Retire, Discard, Unpark, Revive,
     LifecycleStep, FindMain, LifecycleAct, DockerFault, Refuse, Abort, Note, Put, DeleteFiles,
     FileStep, NextInstance, Returned, Raised, Verify, VerifyAborts
<1> QED BY <1>2, <1>3, <1>4

\* What another thread has cleared away stays away.
LEMMA ClearsElsewhere ==
  ASSUME Serial, Apart, NEW w \in Threads, Step(w), NEW v \in Threads \ {w}, Clears(task[v])
  PROVE  Clears(task[v])'
<1>1. task[w].pc # "idle" /\ task'[v] = task[v]
  BY StepOthers, LoopWorker DEF Serial
<1>2. CASE task[v].pc \in {"idle", "next"}
  BY <1>1, <1>2 DEF Clears, Emptied
<1>3. CASE task[v].pc \notin {"idle", "next"}
  <2> DEFINE j == task[v].inst
  <2>1. j \in Instances /\ j # task[w].inst
    BY <1>1, <1>3, Distinct
  <2>2. lists'[j] = lists[j] /\ vols'[j] = vols[j]
    BY <2>1, ListsStep, VolsStep
  <2>3. prev'[j] = prev[j]
    BY <2>1, PrevStep
  <2> QED BY <1>1, <2>2, <2>3 DEF Clears, Emptied
<1> QED BY <1>2, <1>3

AllCleared == \A w \in Threads : Clears(task[w])

LEMMA ClearsNext ==
  ASSUME OnlyFaults, NoListEdits, Serial, Serial', Orderly, Orderly', Apart, AllCleared,
         [Next]_vars
  PROVE  AllCleared'
<1>1. ASSUME NEW w \in Threads, Step(w) PROVE AllCleared'
  BY <1>1, ClearsElsewhere, ClearsThread DEF AllCleared
<1>2. ASSUME UNCHANGED <<vols, lists, prev>>, \A w \in Threads : task'[w] = task[w]
      PROVE  AllCleared'
  BY <1>2 DEF AllCleared, Clears, Emptied
<1>3. CASE Step(Loop)
  BY <1>2, <1>3, LoopKeeps, LoopStep, StepOthers, LoopWorker DEF Serial, storeVars
<1>4. CASE Request
  <2>1. ASSUME NEW w \in Threads, NEW t, BeginTask(t), Begin(w, t) PROVE AllCleared'
    <3>1. /\ task'[w] = t /\ UNCHANGED <<vols, lists, prev>>
          /\ \A v \in Threads \ {w} : task'[v] = task[v]
      BY <2>1, LoopWorker DEF Begin, storeVars, Serial, Inv, TypeOK, DockerTypeOK
    <3> QED BY <2>1, <3>1 DEF BeginTask, AllCleared, Clears, Emptied
  <2>2. ASSUME NEW op \in LoopOps, NEW i \in Instances, Lifecycle(op, i) PROVE AllCleared'
    BY <1>2, <2>2, LoopWorker DEF Lifecycle, Begin, storeVars, Serial, Inv, TypeOK, DockerTypeOK
  <2>3. \A i \in Instances : ~EditLists(i)
    BY DEF EditLists, NoListEdits
  <2> QED BY <1>4, <2>1, <2>2, <2>3, RequestBegins
<1>5. CASE Environment
  BY <1>2, <1>5 DEF Environment, EngineNext, Probe, Exit, PolicyRestart, storeVars
<1>6. ~Crash /\ ~Reboot
  BY DEF OnlyFaults, Crash, Reboot
<1>7. CASE UNCHANGED vars
  BY <1>2, <1>7 DEF vars
<1> QED BY <1>1, <1>3, <1>4, <1>5, <1>6, <1>7 DEF Next, Workers

LeavesNothing ==
  \A w \in Workers :
    At(w, "rmYaml") /\ task'[w].pc = "idle" /\ Inst(w) # None /\ yaml'[Inst(w)] = None =>
      /\ Of(Inst(w)) = {} /\ lists[Inst(w)] = "absent" /\ prev[Inst(w)] = None
      /\ vols[Inst(w)] \subseteq (IF task[w].keep THEN {"logs"} ELSE {})

LEMMA LeavesNothingStep ==
  ASSUME Serial, Orderly, Apart, AllCleared PROVE LeavesNothing
<1> SUFFICES ASSUME NEW w \in Workers, At(w, "rmYaml")
             PROVE  /\ Of(Inst(w)) = {} /\ lists[Inst(w)] = "absent" /\ prev[Inst(w)] = None
                    /\ vols[Inst(w)] \subseteq (IF task[w].keep THEN {"logs"} ELSE {})
  BY DEF LeavesNothing
<1>1. w \in Threads
  BY DEF At, Serial, LoopTask, Workers
<1>2. Of(task[w].inst) = {} /\ task[w].inst \in Instances
  BY <1>1, NoneLeft, Busy DEF At, AfterDrop
<1>3. vols[task[w].inst] \subseteq {"cache", "logs"}
  BY <1>2 DEF Serial, Inv, TypeOK, EngineTypeOK, Volumes
<1> QED BY <1>1, <1>2, <1>3 DEF AllCleared, Clears, Emptied, At, Inst

\* remove() leaves nothing the instance owns but the log volume it was told to
\* keep: a volume can only go when no container of the instance is left under
\* any of its names, which is so because every replacement tidied up.  List edits
\* are left out: one between the deletion of the directory and of the file makes
\* the directory again.
THEOREM DeleteIsComplete ==
  OnlyFaults /\ NoListEdits => (Spec /\ []Apart => DeleteLeavesNothing)
<1> SUFFICES ASSUME OnlyFaults, NoListEdits PROVE Spec /\ []Apart => DeleteLeavesNothing
  OBVIOUS
<1>1. Init => AllCleared
  <2>1. Init => \A w \in Threads : task[w] = Idle
    BY InitialHost, LoopWorker
  <2> QED BY <2>1 DEF AllCleared, Clears, Emptied, Idle
<1>2. Serial /\ Serial' /\ Orderly /\ Orderly' /\ Apart /\ AllCleared /\ [Next]_vars => AllCleared'
  BY ClearsNext
<1>3. Serial /\ Orderly /\ Apart /\ AllCleared => [LeavesNothing]_vars
  BY LeavesNothingStep
<1>4. DeleteLeavesNothing <=> [][LeavesNothing]_vars
  BY PTL DEF DeleteLeavesNothing, LeavesNothing
<1> QED BY <1>1, <1>2, <1>3, <1>4, SerialInvariant, OrderlyInvariant, PTL DEF Spec

-----------------------------------------------------------------------------
(* How an update ends.                                                     *)

SettledStep ==
  \A w \in Threads :
    task[w].op \in {"update", "updateAll"} /\ Inst(w) # None /\ task'[w].inst = None =>
      LET i == Inst(w)  t == task[w] IN
      \/ /\ yaml[i] = t.def
         /\ \E x \in Named(i, "main") : cont[x].def = t.def /\ cont[x].health = "healthy"
      \/ /\ yaml[i] = t.base
         /\ \/ InServiceAs(i, t.base)
            \/ t.undo /\ At(w, "raised")

LEMMA SettledNext ==
  ASSUME OnlyFaults, NeverStopped, Serial, Orderly, Gating, [Next]_vars PROVE SettledStep
<1> SUFFICES ASSUME NEW w \in Threads, task[w].op \in {"update", "updateAll"},
                    task[w].inst # None, task'[w].inst = None, NEW i, i = task[w].inst
             PROVE  \/ /\ yaml[i] = task[w].def
                       /\ \E x \in Named(i, "main") :
                            cont[x].def = task[w].def /\ cont[x].health = "healthy"
                    \/ /\ yaml[i] = task[w].base
                       /\ \/ InServiceAs(i, task[w].base)
                          \/ task[w].undo /\ At(w, "raised")
  BY DEF SettledStep, Inst
<1>1. w \in Workers /\ task \in [Workers -> Task] /\ task'[w] # task[w]
  BY LoopWorker DEF Serial, Inv, TypeOK, DockerTypeOK
<1>2. Step(w)
  <2>1. \A v \in Workers \ {w} : ~Step(v)
    BY <1>1, StepOthers DEF Serial
  <2>2. ~Request
    <3>1. ASSUME NEW v \in Threads, NEW t, Begin(v, t), Free(v) PROVE FALSE
      <4>1. v = w
        BY <1>1, <3>1, LoopWorker DEF Begin
      <4> QED BY <3>1, <4>1 DEF Free, Serial, ThreadTask
    <3>2. ASSUME NEW op, NEW j, Lifecycle(op, j) PROVE FALSE
      BY <1>1, <3>2, LoopWorker DEF Lifecycle, Begin
    <3> QED BY <1>1, <3>1, <3>2, RequestBegins DEF EditLists
  <2>3. ~Environment /\ ~Crash /\ ~Reboot /\ ~UNCHANGED vars
    BY <1>1 DEF Environment, OnlyFaults, Crash, Reboot, vars
  <2> QED BY <2>1, <2>2, <2>3 DEF Next
<1>3. task[w].pc # "idle" /\ Ends(task[w])
  BY <1>1, <1>2, StepOthers DEF Serial, Orderly
<1>4. task[w].pc \in Turns \ {"next"}
  BY <1>2, <1>3, LabelStep DEF KeepsRequest, Ends
<1>5. /\ ThreadTask(task[w]) /\ Shape(task[w]) /\ Stored(task[w]) /\ task[w].pc # "rmYaml"
      /\ task[w].op # "delete"
  BY <1>3, <1>4, Busy DEF Turns, ThreadTask, RemoveLabels
<1>6. ~Undo(w) /\ ~Goto(w, "verify")
  BY <1>1, UndoFields, GotoFields DEF Serial
<1>7. CASE task[w].pc = "returned"
  <2>1. task[w].undo
    BY <1>2, <1>4, <1>5, <1>6, <1>7, TurnStep DEF Updating, OnlyFaults
  <2>2. yaml[i] = task[w].def /\ InPlace(i, task[w].def) /\ task[w].def = task[w].base
    BY <1>3, <1>5, <1>7, <2>1 DEF Stored, Gating, Gated, Ends
  <2> QED BY <2>2 DEF InPlace, RunsFor, Held, Named, Of, InServiceAs
<1>8. CASE task[w].pc = "raised"
  <2>1. task[w].undo
    BY <1>2, <1>4, <1>6, <1>8, TurnStep DEF Updating
  <2>2. yaml[i] = task[w].def /\ task[w].def = task[w].base
    BY <1>3, <1>5, <1>8, <2>1 DEF Ends
  <2> QED BY <1>8, <2>1, <2>2 DEF At
<1>9. CASE task[w].pc = "verify"
  <2>1. Verify(w)
    BY <1>2, <1>4, <1>9, TurnStep DEF VerifyAborts, OnlyFaults
  <2>2. PICK x \in Lookup(task[w].inst, "main") : x # None /\ cont[x].health = "healthy"
    BY <1>6, <2>1 DEF Verify, Inst
  <2>3. x \in Named(i, "main")
    BY <2>2 DEF Lookup
  <2>4. yaml[i] = task[w].def /\ RunsAs(i, task[w].def)
    BY <1>5, <1>9 DEF Stored, Shape
  <2>5. cont[x].def = task[w].def
    BY <2>3, <2>4 DEF RunsAs, Held, Named, Serial, UniqueNames
  <2> QED BY <2>2, <2>3, <2>4, <2>5
<1> QED BY <1>4, <1>5, <1>7, <1>8, <1>9 DEF Turns

\* An update ends with the new definition stored and running healthy, or with
\* the one it came from stored again; where no admin stops a container, that one
\* is in service too, unless bringing it back failed, which the update reports
\* ("no failure here may leave the school pinned to a broken image").
THEOREM UpdateSettlesHolds ==
  OnlyFaults /\ NeverStopped => (Spec /\ []Apart => UpdateSettles)
<1> SUFFICES ASSUME OnlyFaults, NeverStopped PROVE Spec /\ []Apart => UpdateSettles
  OBVIOUS
<1>1. Serial /\ Orderly /\ Gating /\ [Next]_vars => [SettledStep]_vars
  BY SettledNext
<1>2. UpdateSettles <=> [][SettledStep]_vars
  BY PTL DEF UpdateSettles, SettledStep
<1> QED BY <1>1, <1>2, SerialInvariant, OrderlyInvariant, GatingInvariant, PTL DEF Spec

-----------------------------------------------------------------------------
(* The note a rollback goes back to.                                       *)

NoEdits == Ops \cap {"create", "patch"} = {}

\* An update that has made its note.
Past(t) == t.op \in {"update", "updateAll"} /\ t.pc \notin {"note", "next"}

\* What is stored for i is what is live, or what the note names already.
Retraceable(i) ==
  yaml[i] \in Def /\ ~Deleting(i) =>
    \/ Live(i) # None /\ Live(i).image = yaml[i].image
    \/ prev[i] = yaml[i].image
Noted(t) ==
  /\ t.op \notin {"create", "patch"}
  /\ t.pc = "note" => yaml[t.inst] = t.base
  /\ Past(t) => prev[t.inst] = t.base.image
  /\ t.op = "rollback" /\ t.pc \in {"put", "putWrite"} => t.def.image = prev[t.inst]

Known ==
  /\ \A i \in Instances :
       (\E w \in Threads : Past(task[w]) /\ task[w].inst = i) \/ Retraceable(i)
  /\ \A w \in Threads : Noted(task[w])

LEMMA LiveSome ==
  ASSUME NEW c, NEW i, LiveIn(c, i) # None
  PROVE  \E s \in {"main", "old"} : \E x \in Passed(c, i, s) : LiveIn(c, i) = c[x].def
<1> DEFINE S == IF Passed(c, i, "main") # {} THEN Passed(c, i, "main") ELSE Passed(c, i, "old")
<1>1. LiveIn(c, i) = IF S = {} THEN None ELSE c[CHOOSE x \in S : TRUE].def
  BY DEF LiveIn
<1>2. S # {} => (CHOOSE x \in S : TRUE) \in S
  OBVIOUS
<1>3. S = Passed(c, i, "main") \/ S = Passed(c, i, "old")
  OBVIOUS
<1> HIDE DEF S
<1> QED BY <1>1, <1>2, <1>3

LEMMA NotedThread ==
  ASSUME NoEdits, Serial, NEW w \in Threads, Noted(task[w]), Step(w)
  PROVE  Noted(task[w])'
<1>0. PICK i : i = task[w].inst
  OBVIOUS
<1>1. /\ task[w].pc # "idle" /\ w \in Workers /\ task \in [Workers -> Task]
      /\ prev \in [Instances -> Images \cup {None}]
  BY StepOthers, LoopWorker DEF Serial, Inv, TypeOK, DockerTypeOK, StoreTypeOK
<1>2. CASE task[w].pc \notin Turns
  <2>1. /\ KeepsRequest(w) /\ task'[w].pc \in Follows(task[w].pc) /\ i \in Instances
        /\ ThreadTask(task[w])
    BY <1>0, <1>1, <1>2, LabelStep, Busy DEF Turns
  <2>2. task'[w].pc \notin {"note", "next"}
    BY <1>2, <2>1 DEF Follows, CallLabels, TryLabels, Turns
  <2>3. CASE task[w].pc = "note"
    <3>1. Note(w)
      BY <2>3 DEF Step, Work, DockerStep, EnsureStep, Look, Fast, FastStart, Sweep, FindStale,
         Remove, Create, StopOld, Park, Rename, Spill, Promote, StartNew, WaitHealthy, Retire,
         Discard, Unpark, Revive, RemoveStep, FindMain, RemoveVolume, DeleteLists, LifecycleStep,
         LifecycleAct, DockerFault, Refuse, Abort, TryLabels, CallLabels, Put, DeleteFiles,
         FileStep, NextInstance, Returned, Raised, Verify, VerifyAborts, At
    <3>2. prev'[i] = task[w].base.image
      BY <1>0, <1>1, <2>1, <3>1 DEF Note, NotePrevious, Inst
    <3>3. task[w].op \in {"update", "updateAll"}
      BY <2>1, <2>3 DEF ThreadTask
    <3> QED BY <1>0, <2>1, <2>2, <3>2, <3>3 DEF Noted, KeepsRequest
  <2>4. CASE task[w].pc # "note"
    <3>1. task[w].op # "delete" => prev'[i] = prev[i]
      BY <1>0, <2>1, <2>4, PrevStep DEF ThreadTask, RemoveLabels
    <3>2. task'[w].op = "rollback" /\ task'[w].pc \in {"put", "putWrite"} =>
            task[w].pc \in {"put", "putWrite"}
      BY <1>2, <2>1, <2>4 DEF Follows, CallLabels, TryLabels, Turns
    <3>3. task[w].pc # "next"
      BY <1>2 DEF Turns
    <3> QED BY <1>0, <2>1, <2>2, <2>4, <3>1, <3>2, <3>3 DEF Noted, Past, KeepsRequest
  <2> QED BY <2>3, <2>4
<1>3. CASE task[w].pc \in Turns
  <2>0. UNCHANGED prev
    BY <1>3, TurnStep
  <2>1. task' = [task EXCEPT ![w] = Idle] => Noted(task[w])'
    BY <1>1 DEF Noted, Past, Idle
  <2>2. ASSUME NEW e \in BOOLEAN, Finish(w, e) PROVE Noted(task[w])'
    BY <1>1, <2>1, <2>2, FinishFields DEF Noted, Past, Serial
  <2>3. ASSUME Undo(w), Updating(w), task[w].pc \in {"raised", "verify"} PROVE Noted(task[w])'
    <3>1. Past(task[w])
      BY <2>3 DEF Updating, Past
    <3> QED BY <1>1, <2>0, <2>3, <3>1, UndoFields DEF Noted, Past, Serial, Updating
  <2>4. ASSUME NEW l \in {"rmPrev", "verify", "raised"}, Goto(w, l), task[w].pc = "returned"
        PROVE  Noted(task[w])'
    <3>1. task'[w].pc = l /\ task'[w].op = task[w].op /\ task'[w].inst = task[w].inst
          /\ task'[w].base = task[w].base /\ task'[w].def = task[w].def
      BY <1>1, <2>4, GotoFields DEF Serial
    <3> QED BY <2>0, <2>4, <3>1 DEF Noted, Past
  <2>5. ASSUME NextInstance(w) PROVE Noted(task[w])'
    <3>1. CASE task' = [task EXCEPT ![w] = Idle]
      BY <2>1, <3>1
    <3>2. CASE task'[w].pc = "note"
      <4>0. UNCHANGED yaml /\ ~(task' = [task EXCEPT ![w] = Idle])
        BY <1>1, <2>5, <3>2, NextFields DEF Idle, Serial
      <4>1. PICK j \in First(w) :
              /\ task'[w].op = task[w].op /\ task'[w].inst = j /\ task'[w].base = Get(j)
              /\ Get(j) # None /\ UNCHANGED yaml /\ task[w].op # "reconcile"
        BY <1>1, <2>5, <3>2, <4>0, NextFields DEF Serial
      <4>2. yaml'[j] = task'[w].base
        BY <4>1 DEF Get
      <4> QED BY <3>2, <4>1, <4>2 DEF Noted, Past
    <3>3. CASE task'[w].pc # "note" /\ ~(task' = [task EXCEPT ![w] = Idle])
      <4>1. /\ task'[w].op = task[w].op
            /\ \/ task'[w].pc = "look" /\ task'[w].op = "reconcile"
               \/ task'[w].pc = "next"
        BY <1>1, <2>5, <3>3, NextFields DEF Serial
      <4> QED BY <3>3, <4>1 DEF Noted, Past
    <3> QED BY <3>1, <3>2, <3>3
  <2>6. Verify(w) \/ VerifyAborts(w) => (\E e \in BOOLEAN : Finish(w, e)) \/ Undo(w)
    BY DEF Verify, VerifyAborts
  <2>7. task[w].pc = "verify" => Updating(w)
    BY Busy DEF ThreadTask, Updating
  <2> QED BY <1>3, <2>1, <2>2, <2>3, <2>4, <2>5, <2>6, <2>7, TurnStep
<1> QED BY <1>2, <1>3

\* A container that passed its gate under the instance's name is the live one.
LEMMA LiveNamed ==
  ASSUME Serial, NEW i, NEW d, d # None, RunsAs(i, d),
         \A x \in DOMAIN cont : cont[x].inst = i => cont[x].accepted
  PROVE  Live(i) = d
<1>1. PICK x \in DOMAIN cont : Held(x, i, "main") /\ cont[x].def = d
  BY DEF RunsAs
<1>2. x \in Passed(cont, i, "main")
  BY <1>1 DEF Passed, Held
<1>3. \A y, z \in DOMAIN cont : cont[y].inst = cont[z].inst /\ cont[y].slot = cont[z].slot => y = z
  BY DEF Serial, UniqueNames
<1> QED BY <1>1, <1>2, <1>3, LiveOne, LiveBoth

LEMMA PastWorks ==
  ASSUME Serial, NEW v \in Threads, Past(task[v]) PROVE task[v].pc \notin {"idle", "next"}
BY DEF Past, Serial, ThreadTask

\* The instance a thread works on, when its update has not passed its note.
LEMMA KnownHere ==
  ASSUME OnlyFaults, NoEdits, Serial, Serial', Orderly, Apart, Known,
         NEW w \in Threads, Step(w), task[w].pc # "next", NEW i \in Instances, i = task[w].inst
  PROVE  (Past(task[w])' /\ task'[w].inst = i) \/ Retraceable(i)'
<1>1. /\ task[w].pc \notin {"idle", "next"} /\ ThreadTask(task[w]) /\ Stored(task[w])
      /\ Shape(task[w]) /\ Ends(task[w]) /\ Noted(task[w])
      /\ task[w].op \notin {"none"} \cup LoopOps \cup {"create", "patch"}
      /\ task[w] \in Task /\ w \in Workers /\ task \in [Workers -> Task]
  <2>1. task[w].pc # "idle" /\ Ends(task[w]) /\ Noted(task[w])
    BY StepOthers, LoopWorker DEF Serial, Orderly, Known
  <2> QED BY <2>1, Busy, LoopWorker DEF Serial, Inv, TypeOK, DockerTypeOK, Noted
<1>2. /\ Deleting(i) <=> task[w].op = "delete"
      /\ Deleting(i)' <=> task'[w].op = "delete" /\ task'[w].inst = i
  BY DeletingStep DEF DeletedElsewhere
<1>3. Def \cap {None} = {} /\ Torn \notin Def
  BY NoneAssumption, TornAssumption DEF Def
<1>4. task[w].op # "delete" =>
        \/ Live(i)' = Live(i)
        \/ task[w].pc = "wait" /\ Live(i)' = task[w].def
  BY <1>1, LiveStep DEF ThreadTask, RemoveLabels
<1>5. prev'[i] = prev[i] \/ task[w].pc \in {"note", "rmPrev"}
  BY PrevStep
<1>6. \/ yaml'[i] = yaml[i]
      \/ task[w].pc = "put" /\ yaml'[i] = Torn
      \/ task[w].pc = "putWrite" /\ yaml'[i] = task[w].def
      \/ task[w].pc = "rmYaml" /\ yaml'[i] = None
  <2>1. task[w].pc = "putWrite" => yaml[i] # None
    BY <1>1 DEF Stored
  <2> QED BY <2>1, YamlStep
<1>7. CASE task[w].op \in {"update", "updateAll"} /\ task[w].pc \notin Turns
  <2>1. KeepsRequest(w) /\ task'[w].pc \in Follows(task[w].pc)
    BY <1>1, <1>7, LabelStep
  <2>2. task'[w].pc \notin {"note", "next"}
    BY <1>7, <2>1 DEF Follows, CallLabels, TryLabels, Turns
  <2> QED BY <1>7, <2>1, <2>2 DEF Past, KeepsRequest
<1>8. CASE task[w].op \in {"update", "updateAll"} /\ task[w].pc \in Turns
  <2>1. Past(task[w]) /\ task[w].base \in Def /\ task[w].pc # "rmYaml" /\ task[w].op # "delete"
    BY <1>1, <1>8 DEF Past, Turns, Serial, Inv, WellFormed, ThreadTask, RemoveLabels
  <2>2. UNCHANGED cont /\ yaml'[i] = yaml[i] /\ prev'[i] = prev[i]
    BY <1>5, <1>6, <1>8, <2>1, TurnStep DEF Turns
  <2>3. Live(i)' = Live(i)
    BY <2>2, UnchangedMild, LiveMild
  <2>4. prev[i] = task[w].base.image
    BY <1>1, <2>1 DEF Noted
  <2>5. CASE Undo(w)
    BY <1>8, <2>5, UndoFields, LoopWorker DEF Past, Serial
  <2>6. CASE Goto(w, "verify")
    <3>1. task'[w].pc = "verify" /\ task'[w].op = task[w].op /\ task'[w].inst = i
      BY <1>1, <2>6, GotoFields DEF Serial
    <3> QED BY <1>8, <3>1 DEF Past
  <2>7. CASE ~Updating(w) /\ task[w].pc \in {"returned", "raised"}
    <3>1. yaml[i] = task[w].def /\ task[w].def = task[w].base
      BY <1>1, <1>8, <2>1, <2>7 DEF Updating, Stored, Ends
    <3> QED BY <2>2, <2>4, <3>1 DEF Retraceable
  <2>8. CASE task[w].pc = "verify"
    <3>1. yaml[i] = task[w].def /\ RunsAs(i, task[w].def) /\ task[w].def \in Def \cup {None}
      BY <1>1, <2>8 DEF Stored, Shape, Task
    <3>2. \A x \in DOMAIN cont : cont[x].inst = i => cont[x].accepted
      BY <1>1, <2>8, Sole DEF Orderly, Untried, TrialLabels, SpareLabels
    <3>3. task[w].def \in Def => Live(i) = task[w].def
      BY <1>3, <3>1, <3>2, LiveNamed
    <3> QED BY <1>3, <2>2, <2>3, <3>1, <3>3 DEF Retraceable
  <2> QED BY <1>1, <1>8, <2>1, <2>5, <2>6, <2>7, <2>8, TurnStep DEF Turns, OnlyFaults
<1>9. CASE task[w].op \in {"reconcile", "rollback"}
  <2>1. ~Deleting(i) /\ task[w].pc \notin {"note", "rmPrev", "rmYaml"}
    BY <1>1, <1>2, <1>9 DEF ThreadTask, RemoveLabels
  <2>2. \A v \in Threads : ~(Past(task[v]) /\ task[v].inst = i)
    BY <1>1, <1>9, PastWorks, Distinct DEF Past
  <2>3. Retraceable(i)
    BY <2>2 DEF Known
  <2>4. prev'[i] = prev[i]
    BY <1>5, <2>1
  <2>5. CASE yaml'[i] = yaml[i]
    <3>1. CASE Live(i)' = Live(i)
      BY <2>1, <2>3, <2>4, <2>5, <3>1 DEF Retraceable
    <3>2. CASE task[w].pc = "wait" /\ Live(i)' = task[w].def
      <4>1. yaml[i] = task[w].def
        BY <1>1, <3>2 DEF Stored, AfterLook, SwapLabels
      <4> QED BY <1>3, <2>5, <3>2, <4>1 DEF Retraceable
    <3> QED BY <1>4, <1>9, <3>1, <3>2
  <2>6. CASE yaml'[i] = Torn
    BY <1>3, <2>6 DEF Retraceable
  <2>7. CASE task[w].pc = "putWrite" /\ yaml'[i] = task[w].def
    <3>1. task[w].op = "rollback" /\ task[w].def.image = prev[i]
      BY <1>1, <1>9, <2>7 DEF ThreadTask, Noted
    <3> QED BY <2>4, <2>7, <3>1 DEF Retraceable
  <2> QED BY <1>6, <2>1, <2>5, <2>6, <2>7
<1>10. CASE task[w].op = "delete"
  <2>1. CASE yaml'[i] = None
    BY <1>3, <2>1 DEF Retraceable
  <2>2. CASE task[w].pc # "rmYaml"
    <3>1. task'[w].op = "delete" /\ task'[w].inst = i
      <4>1. CASE task[w].pc \in Turns
        <5>1. task[w].pc = "returned"
          BY <1>1, <1>10, <2>2, <4>1 DEF ThreadTask, RemoveLabels, Turns, Ends
        <5>2. Goto(w, "rmPrev")
          BY <1>10, <4>1, <5>1, TurnStep
        <5> QED BY <1>1, <1>10, <5>2, GotoFields DEF Serial
      <4>2. CASE task[w].pc \notin Turns
        BY <1>10, <4>2, LabelStep DEF KeepsRequest
      <4> QED BY <4>1, <4>2
    <3> QED BY <1>2, <3>1 DEF Retraceable
  <2>3. CASE task[w].pc = "rmYaml"
    <3>1. yaml'[i] = None
      <4>1. DeleteFiles(w)
        BY <2>3, RemovingStep DEF RemoveLabels, RemoveStep, FindMain, Remove, RemoveVolume,
           DeleteLists, At
      <4>2. Unlink(task[w].inst)
        BY <2>3, <4>1 DEF DeleteFiles, FileStep, At, Inst
      <4> QED BY <4>2 DEF Unlink, Serial, Inv, TypeOK, StoreTypeOK
    <3> QED BY <2>1, <3>1
  <2> QED BY <2>1, <2>2, <2>3
<1>11. task[w].op \in {"update", "updateAll", "reconcile", "rollback", "delete"}
  BY <1>1 DEF Task, SyncOps
<1> QED BY <1>7, <1>8, <1>9, <1>10, <1>11

\* Any other instance.
LEMMA KnownElsewhere ==
  ASSUME OnlyFaults, Serial, Serial', Orderly, Apart, Known, NEW w \in Threads, Step(w),
         NEW j \in Instances, j # task[w].inst \/ task[w].pc = "next"
  PROVE  (\E v \in Threads : Past(task[v])' /\ task'[v].inst = j) \/ Retraceable(j)'
<1>1. task[w].pc # "idle" /\ \A v \in Threads \ {w} : task'[v] = task[v]
  BY StepOthers, LoopWorker DEF Serial
<1>2. task[w].pc = "next" => task[w].op # "delete" /\ ~Past(task[w])
  BY <1>1 DEF Past, Serial, ThreadTask, RemoveLabels
<1>3. ASSUME NEW v \in Threads, Past(task[v]), task[v].inst = j
      PROVE  Past(task[v])' /\ task'[v].inst = j
  BY <1>1, <1>2, <1>3 DEF Past
<1>4. CASE Retraceable(j)
  <2>1. Live(j)' = Live(j)
    BY LiveStep
  <2>2. yaml'[j] = yaml[j]
    BY YamlStep
  <2>3. prev'[j] = prev[j]
    BY PrevStep
  <2>4. Deleting(j) => Deleting(j)'
    BY <1>2, DeletingStep DEF DeletedElsewhere
  <2> QED BY <1>4, <2>1, <2>2, <2>3, <2>4 DEF Retraceable
<1> QED BY <1>3, <1>4 DEF Known

\* What another thread knows of its own instance stays true.
LEMMA NotedElsewhere ==
  ASSUME Serial, Apart, NEW w \in Threads, Step(w), NEW v \in Threads \ {w}, Noted(task[v])
  PROVE  Noted(task[v])'
<1>1. task[w].pc # "idle" /\ task'[v] = task[v]
  BY StepOthers, LoopWorker DEF Serial
<1>2. CASE task[v].pc \in {"idle", "next"}
  BY <1>1, <1>2, PastWorks DEF Noted, Past
<1>3. CASE task[v].pc \notin {"idle", "next"}
  <2> DEFINE j == task[v].inst
  <2>1. j \in Instances /\ j # task[w].inst
    BY <1>1, <1>3, Distinct
  <2>2. yaml'[j] = yaml[j]
    BY <2>1, YamlStep
  <2>3. prev'[j] = prev[j]
    BY <2>1, PrevStep
  <2> QED BY <1>1, <2>2, <2>3 DEF Noted, Past
<1> QED BY <1>2, <1>3

\* What changes no container's name or definition and no file.
LEMMA KnownMild ==
  ASSUME Serial, Serial', Known, Mild, UNCHANGED <<yaml, prev>>,
         \A v \in Threads : task'[v] = task[v]
  PROVE  Known'
<1>1. task[Loop].op # "delete" /\ task'[Loop].op # "delete"
  BY DEF Serial, LoopTask, LoopOps
<1>2. \A j : Deleting(j)' <=> Deleting(j)
  BY <1>1 DEF Deleting, Inst, Workers
<1>3. \A j : Live(j)' = Live(j)
  BY LiveMild
<1>4. \A j \in Instances : Retraceable(j) => Retraceable(j)'
  BY <1>2, <1>3 DEF Retraceable
<1>5. \A v \in Threads : Noted(task[v])'
  BY DEF Known, Noted, Past
<1> QED BY <1>4, <1>5 DEF Known, Past

LEMMA KnownNext ==
  ASSUME OnlyFaults, NoEdits, Serial, Serial', Orderly, Apart, Known, [Next]_vars
  PROVE  Known'
<1>1. ASSUME NEW w \in Threads, Step(w) PROVE Known'
  <2>1. \A v \in Threads \ {w} : Noted(task[v])'
    BY <1>1, NotedElsewhere DEF Known
  <2>2. Noted(task[w])'
    BY <1>1, NotedThread DEF Known
  <2>3. ASSUME NEW j \in Instances
        PROVE  (\E v \in Threads : Past(task[v])' /\ task'[v].inst = j) \/ Retraceable(j)'
    <3>1. CASE j = task[w].inst /\ task[w].pc # "next"
      BY <1>1, <3>1, KnownHere
    <3>2. CASE j # task[w].inst \/ task[w].pc = "next"
      BY <1>1, <3>2, KnownElsewhere
    <3> QED BY <3>1, <3>2
  <2> QED BY <2>1, <2>2, <2>3 DEF Known
<1>2. CASE Step(Loop)
  BY <1>2, LoopStep, LoopKeeps, StepOthers, LoopWorker, KnownMild DEF Serial, storeVars
<1>3. CASE Request
  <2>1. ASSUME NEW w \in Threads, NEW t, BeginTask(t), Begin(w, t), Free(w) PROVE Known'
    <3>1. /\ task'[w] = t /\ UNCHANGED <<cont, yaml, prev>>
          /\ \A v \in Workers \ {w} : task'[v] = task[v]
      BY <2>1, LoopWorker DEF Begin, storeVars, Serial, Inv, TypeOK, DockerTypeOK
    <3>2. task[w].op = "none"
      BY <2>1 DEF Free, Serial, ThreadTask
    <3>3. \A j : Deleting(j) => Deleting(j)'
      BY <3>1, <3>2, LoopWorker DEF Deleting, Inst
    <3>4. \A j \in Instances : Live(j)' = Live(j)
      BY <3>1, UnchangedMild, LiveMild
    <3>5. ASSUME NEW j \in Instances
          PROVE  (\E v \in Threads : Past(task[v])' /\ task'[v].inst = j) \/ Retraceable(j)'
      <4>1. CASE Retraceable(j)
        <5>1. ~Deleting(j)' => ~Deleting(j)
          BY <3>3
        <5> QED BY <3>1, <3>4, <4>1, <5>1 DEF Retraceable
      <4>2. ASSUME NEW v \in Threads, Past(task[v]), task[v].inst = j
            PROVE  Past(task[v])' /\ task'[v].inst = j
        <5>1. v # w
          BY <3>2, <4>2 DEF Past
        <5> QED BY <3>1, <4>2, <5>1, LoopWorker DEF Past
      <4> QED BY <4>1, <4>2 DEF Known
    <3>6. Noted(t)'
      <4>1. t.op \notin {"create", "patch"}
        BY <2>1 DEF BeginTask, NoEdits
      <4>2. ~Past(t)
        BY <2>1 DEF BeginTask, Past
      <4>3. t.pc = "note" => yaml[t.inst] = t.base
        <5>1. t.pc = "note" => t.base \in Def
          BY <3>1, LoopWorker DEF Serial, Inv, WellFormed
        <5>2. None \notin Def
          BY NoneAssumption DEF Def
        <5> QED BY <2>1, <5>1, <5>2 DEF BeginTask, Get
      <4>4. t.op = "rollback" => t.def.image = prev[t.inst]
        BY <2>1 DEF BeginTask
      <4> QED BY <3>1, <4>1, <4>2, <4>3, <4>4 DEF Noted, Past
    <3>7. \A v \in Threads : Noted(task[v])'
      <4>1. Noted(task[w])'
        BY <3>1, <3>6
      <4> QED BY <3>1, <4>1, LoopWorker DEF Known, Noted, Past
    <3> QED BY <3>5, <3>7 DEF Known
  <2>2. ASSUME NEW op \in LoopOps, NEW i \in Instances, Lifecycle(op, i) PROVE Known'
    <3>1. \A w \in Threads : task'[w] = task[w]
      BY <2>2, LoopWorker DEF Lifecycle, Begin, Serial, Inv, TypeOK, DockerTypeOK
    <3> QED BY <2>2, <3>1, UnchangedMild, KnownMild DEF Lifecycle, Begin, storeVars
  <2>3. ASSUME NEW i \in Instances, EditLists(i) PROVE Known'
    BY <2>3, UnchangedMild, KnownMild DEF EditLists, storeVars
  <2> QED BY <1>3, <2>1, <2>2, <2>3, RequestBegins
<1>4. CASE Environment
  BY <1>4, EnvironmentMild, KnownMild DEF Environment, storeVars, Serial
<1>5. ~Crash /\ ~Reboot
  BY DEF OnlyFaults, Crash, Reboot
<1>6. CASE UNCHANGED vars
  BY <1>6, UnchangedMild, KnownMild DEF vars
<1> QED BY <1>1, <1>2, <1>3, <1>4, <1>5, <1>6 DEF Next, Workers

NotesStep ==
  \A i \in Instances : prev'[i] \notin {prev[i], None} =>
    \E x \in Named(i, "main") : cont[x].accepted /\ cont[x].def.image = prev'[i]

LEMMA NotesStepHolds ==
  ASSUME OnlyFaults, Serial, Orderly, Apart, Known, [Next]_vars PROVE NotesStep
<1> SUFFICES ASSUME NEW i \in Instances, prev'[i] \notin {prev[i], None}
             PROVE  \E x \in Named(i, "main") : cont[x].accepted /\ cont[x].def.image = prev'[i]
  BY DEF NotesStep
<1>1. PICK w \in Threads : Step(w)
  <2>1. ~Step(Loop) /\ ~Environment /\ ~Crash /\ ~Reboot /\ ~UNCHANGED vars
    BY LoopKeeps DEF storeVars, Environment, OnlyFaults, Crash, Reboot, vars
  <2>2. ~Request
    BY RequestBegins DEF Begin, Lifecycle, EditLists, storeVars
  <2> QED BY <2>1, <2>2 DEF Next, Workers
<1>2. task[w].inst = i /\ task[w].pc = "note" /\ prev'[i] = task[w].base.image
  BY <1>1, PrevStep
<1>3. /\ task[w].op \in {"update", "updateAll"} /\ Noted(task[w]) /\ ~Past(task[w])
      /\ task[w].base \in Def /\ yaml[i] = task[w].base
  BY <1>2, Busy, LoopWorker DEF Known, Past, Noted, ThreadTask, Serial, Inv, WellFormed
<1>4. \A v \in Threads : ~(Past(task[v]) /\ task[v].inst = i)
  BY <1>2, <1>3, PastWorks, Distinct
<1>5. ~Deleting(i)
  BY <1>1, <1>2, <1>3, DeletingStep
<1>6. Retraceable(i)
  BY <1>4 DEF Known
<1>7. Live(i) # None /\ Live(i).image = prev'[i]
  BY <1>2, <1>3, <1>5, <1>6 DEF Retraceable
<1>8. PICK s \in {"main", "old"} : \E x \in Passed(cont, i, s) : Live(i) = cont[x].def
  BY <1>7, LiveSome, LiveBoth
<1>9. PICK x \in Passed(cont, i, s) : Live(i) = cont[x].def
  BY <1>8
<1>10. cont[x].slot = "main"
  BY <1>2, <1>9, Sole DEF Passed, Orderly, Temporary, SpareLabels, SwapLabels
<1> QED BY <1>7, <1>9, <1>10 DEF Passed, Named

\* What an update notes as "the last known-good" image is one that a container
\* of the instance passed its gate with, for as long as definitions change only
\* by updates and rollbacks: a create or a patch stores its definition before it
\* is tried, and an update after a failed one notes an image that never ran.
THEOREM NotesAreKnownGood ==
  OnlyFaults /\ NoEdits => (Spec /\ []Apart => NotesKnownGood)
<1> SUFFICES ASSUME OnlyFaults, NoEdits PROVE Spec /\ []Apart => NotesKnownGood
  OBVIOUS
<1>1. Init => Known
  <2> SUFFICES ASSUME Init PROVE Known
    OBVIOUS
  <2>1. \A w \in Threads : Noted(task[w])
    BY InitialHost, LoopWorker DEF Noted, Past, Idle
  <2>2. ASSUME NEW i \in Instances, yaml[i] \in Def PROVE Live(i) = yaml[i]
    <3>1. yaml[i] # None
      BY <2>2, NoneAssumption DEF Def
    <3> QED BY <2>2, <3>1, InitialHost, InitSerial, LiveNamed
  <2>3. None \notin Def
    BY NoneAssumption DEF Def
  <2> QED BY <2>1, <2>2, <2>3 DEF Known, Retraceable
<1>2. Serial /\ Serial' /\ Orderly /\ Apart /\ Known /\ [Next]_vars => Known'
  BY KnownNext
<1>3. Serial /\ Orderly /\ Apart /\ Known /\ [Next]_vars => [NotesStep]_vars
  BY NotesStepHolds
<1>4. NotesKnownGood <=> [][NotesStep]_vars
  BY PTL DEF NotesKnownGood, NotesStep
<1> QED BY <1>1, <1>2, <1>3, <1>4, SerialInvariant, OrderlyInvariant, PTL DEF Spec

-----------------------------------------------------------------------------
(* An instance stays in service.                                           *)

NoHazards == Hazards = {}
NoStops == Ops \cap {"create", "stop"} = {}
OwnPorts == \A i, j \in Instances : i # j => PortsOf[i] \cap PortsOf[j] = {}

Fits(i, d) == d \in Def /\ d.port \in PortsOf[i]
FitTask(t) ==
  /\ t.pc \notin {"idle", "next"} /\ t.op # "delete" => Fits(t.inst, t.def)
  /\ t.pc \notin {"idle", "next"} /\ t.op \in {"update", "updateAll"} => Fits(t.inst, t.base)
  /\ \A i \in Instances : t.todo[i] # None => Fits(i, t.todo[i])

\* Every definition, stored, worn or being applied, has its instance's ports.
Ported ==
  /\ \A x \in DOMAIN cont : Fits(cont[x].inst, cont[x].def)
  /\ \A i \in Instances : yaml[i] \in Def => Fits(i, yaml[i])
  /\ \A w \in Threads : FitTask(task[w])

Serves(i) == \E x \in DOMAIN cont : Held(x, i, "main") /\ Up(x)

\* Between the stop of the old container and the new one's gate or the old
\* one's return, and once a delete has removed it.
Gap(t) ==
  \/ t.pc \in {"park", "promote", "start", "wait", "retire", "discard", "unpark", "revive"}
  \/ t.pc \in AfterDrop
  \/ t.pc = "returned" /\ t.op = "delete"

\* A replacement has an old container to go back to, and none spills.
Served(t) ==
  /\ t.pc \in SweepLabels \cup {"promote", "start", "wait", "discard"} => t.old # None
  /\ t.pc \in {"wait", "retire"} => Up(t.new)
  /\ t.pc \in {"note", "put"} => yaml[t.inst] # None
  /\ t.pc # "spill"

Serving ==
  /\ task[Loop].op # "stop"
  /\ \A x \in DOMAIN cont : cont[x].state = "running" => ~cont[x].manual
  /\ \A w \in Threads : Served(task[w])
  /\ \A i \in Instances :
       yaml[i] # None => Serves(i) \/ \E w \in Threads : task[w].inst = i /\ Gap(task[w])

\* Containers keep their definitions; a new one has its task's.
LEMMA DefsKept ==
  ASSUME Serial, NEW w \in Threads, Step(w), NEW x \in DOMAIN cont'
  PROVE  \/ x \in DOMAIN cont /\ cont'[x].def = cont[x].def /\ cont'[x].inst = cont[x].inst
         \/ /\ task[w].pc = "create"
            /\ cont'[x].def = task[w].def /\ cont'[x].inst = task[w].inst
<1>0. \A y \in DOMAIN cont : cont[y] \in Container
  BY DEF Serial, Inv, TypeOK, EngineTypeOK
<1>1. ASSUME NEW y, RemoveContainer(y) \/ StopContainer(y) \/ StartContainer(y)
      PROVE  x \in DOMAIN cont /\ cont'[x].def = cont[x].def /\ cont'[x].inst = cont[x].inst
  <2>1. CASE RemoveContainer(y)
    BY <2>1 DEF RemoveContainer
  <2>2. CASE StopContainer(y) \/ StartContainer(y)
    <3>1. x \in DOMAIN cont /\ (x # y => cont'[x] = cont[x])
      BY <2>2 DEF StopContainer, StartContainer
    <3>2. CASE x = y
      BY <1>0, <2>2, <3>1, <3>2 DEF StopContainer, StartContainer, Started, Halted, Container
    <3> QED BY <3>1, <3>2
  <2> QED BY <1>1, <2>1, <2>2
<1>2. ASSUME NEW y, NEW s, RenameTo(y, s) \/ cont' = [cont EXCEPT ![y].accepted = TRUE]
      PROVE  x \in DOMAIN cont /\ cont'[x].def = cont[x].def /\ cont'[x].inst = cont[x].inst
  BY <1>0, <1>2 DEF RenameTo, Container
<1>3. ASSUME NEW y, NEW i, NEW d, CreateOn(y, i, d)
      PROVE  \/ x \in DOMAIN cont /\ cont'[x].def = cont[x].def /\ cont'[x].inst = cont[x].inst
             \/ cont'[x].def = d /\ cont'[x].inst = i
  BY <1>3 DEF CreateOn, New
<1>4. Effect(task[w])
  BY ThreadEffect
<1>5. CASE task[w].pc = "create" /\ \E y \in FreshIds : CreateOn(y, task[w].inst, task[w].def)
  BY <1>3, <1>5
<1>6. CASE ~(task[w].pc = "create" /\ \E y \in FreshIds : CreateOn(y, task[w].inst, task[w].def))
  BY <1>1, <1>2, <1>4, <1>6 DEF Effect
<1> QED BY <1>5, <1>6

LEMMA FitThread ==
  ASSUME Serial, Ported, NEW w \in Threads, Step(w) PROVE FitTask(task[w])'
<1>1. /\ task[w].pc # "idle" /\ w \in Workers /\ task \in [Workers -> Task]
      /\ FitTask(task[w]) /\ ThreadTask(task[w]) /\ None \notin Def
  BY StepOthers, LoopWorker, NoneAssumption
     DEF Serial, Inv, TypeOK, DockerTypeOK, Ported, Def
<1>2. CASE task[w].pc \notin Turns
  <2>1. KeepsRequest(w)
    BY <1>2, LabelStep
  <2>2. task[w].pc \notin {"idle", "next"}
    BY <1>1, <1>2 DEF Turns
  <2> QED BY <1>1, <2>1, <2>2 DEF FitTask, KeepsRequest
<1>3. CASE task[w].pc \in Turns
  <2>1. task' = [task EXCEPT ![w] = Idle] => FitTask(task[w])'
    BY <1>1 DEF FitTask, Idle
  <2>2. ASSUME NEW e \in BOOLEAN, Finish(w, e) PROVE FitTask(task[w])'
    BY <1>1, <2>1, <2>2, FinishFields DEF FitTask, Serial
  <2>3. ASSUME Undo(w), Updating(w), task[w].pc # "next" PROVE FitTask(task[w])'
    BY <1>1, <2>3, UndoFields DEF FitTask, Serial, Updating
  <2>4. ASSUME NEW l, Goto(w, l), task[w].pc = "returned" PROVE FitTask(task[w])'
    <3>1. /\ task'[w].op = task[w].op /\ task'[w].inst = task[w].inst
          /\ task'[w].base = task[w].base /\ task'[w].def = task[w].def
          /\ task'[w].todo = task[w].todo
      BY <1>1, <2>4, GotoFields DEF Serial
    <3> QED BY <1>1, <2>4, <3>1 DEF FitTask
  <2>5. ASSUME NextInstance(w) PROVE FitTask(task[w])'
    <3>1. CASE task' = [task EXCEPT ![w] = Idle]
      BY <2>1, <3>1
    <3>2. CASE ~(task' = [task EXCEPT ![w] = Idle])
      <4>1. task[w].op \in {"reconcile", "updateAll"} /\ task[w].todo \in [Instances -> Def \cup {None}]
            /\ (task[w].op = "updateAll" => task[w].goal \in Images)
        <5>1. task[w].pc = "next" /\ task[w] \in Task
          BY <1>1, <2>5 DEF NextInstance, At
        <5> QED BY <1>1, <5>1 DEF Serial, Inv, WellFormed, Task
      <4>2. PICK i \in First(w) :
              /\ task'[w].op = task[w].op
              /\ task'[w].todo = [task[w].todo EXCEPT ![i] = None]
              /\ \/ /\ task[w].op = "reconcile" /\ task'[w].pc = "look"
                    /\ task'[w].inst = i /\ task'[w].def = task[w].todo[i]
                 \/ /\ task[w].op # "reconcile" /\ task'[w].pc = "next"
                 \/ /\ task[w].op # "reconcile" /\ task'[w].pc = "note"
                    /\ task'[w].inst = i /\ task'[w].base = Get(i) /\ Get(i) # None
                    /\ task'[w].def = [Get(i) EXCEPT !.image = task[w].goal]
        BY <1>1, <2>5, <3>2, NextFields DEF Serial
      <4>3. i \in Instances /\ task[w].todo[i] # None
        BY DEF First, Pending
      <4>4. Fits(i, task[w].todo[i])
        BY <1>1, <4>3 DEF FitTask
      <4>5. \A j \in Instances : task'[w].todo[j] # None => Fits(j, task'[w].todo[j])
        BY <1>1, <4>1, <4>2 DEF FitTask
      <4>6. Get(i) # None => Fits(i, Get(i))
        BY <4>3 DEF Get, Ported
      <4>7. \A m \in Images : Get(i) # None => Fits(i, [Get(i) EXCEPT !.image = m])
        <5>1. SUFFICES ASSUME NEW d, d = Get(i), d # None, NEW m \in Images
                       PROVE  Fits(i, [d EXCEPT !.image = m])
          OBVIOUS
        <5> QED BY <4>6, <5>1 DEF Fits, Def
      <4> QED BY <4>1, <4>2, <4>4, <4>5, <4>6, <4>7 DEF FitTask
    <3> QED BY <3>1, <3>2
  <2>6. Verify(w) \/ VerifyAborts(w) => (\E e \in BOOLEAN : Finish(w, e)) \/ Undo(w)
    BY DEF Verify, VerifyAborts
  <2>7. task[w].pc = "verify" => Updating(w)
    BY <1>1 DEF ThreadTask, Updating
  <2> QED BY <1>3, <2>1, <2>2, <2>3, <2>4, <2>5, <2>6, <2>7, TurnStep
<1> QED BY <1>2, <1>3

\* What a request begins with.
Starting(t) ==
  /\ t.pc \in {"put", "note", "rmFind", "next"}
  /\ t.pc \in {"put", "note"} => yaml[t.inst] # None

LEMMA RequestStarts ==
  ASSUME NoStops, Serial, Ported, Request
  PROVE  \/ \E w \in Threads : \E t : Begin(w, t) /\ Free(w) /\ FitTask(t) /\ Starting(t)
         \/ \E op \in LoopOps \ {"stop"}, i \in Instances : Lifecycle(op, i)
         \/ \E i \in Instances : EditLists(i)
<1> DEFINE Goal == \E w \in Threads : \E t : Begin(w, t) /\ Free(w) /\ FitTask(t) /\ Starting(t)
<1>1. \A i \in Instances : Get(i) # None => Fits(i, Get(i)) /\ yaml[i] # None
  BY NoneAssumption DEF Get, Ported, Def
<1>2. ASSUME NEW w \in Threads, NEW i \in Instances, NEW op \in {"patch", "rollback"}, NEW d,
             Get(i) # None, Fits(i, d), Free(w),
             Begin(w, [Idle EXCEPT !.op = op, !.pc = "put", !.inst = i, !.def = d])
      PROVE  Goal
  <2> DEFINE t == [Idle EXCEPT !.op = op, !.pc = "put", !.inst = i, !.def = d]
  <2>1. FitTask(t) /\ Starting(t)
    BY <1>1, <1>2 DEF FitTask, Starting, Idle
  <2> QED BY <1>2, <2>1
<1>3. ASSUME NEW w \in Threads, NEW i \in Instances, NEW keep \in BOOLEAN, DeleteInstance(w, i, keep)
      PROVE  Goal
  <2> DEFINE t == [Idle EXCEPT !.op = "delete", !.pc = "rmFind", !.inst = i, !.keep = keep]
  <2>1. FitTask(t) /\ Starting(t)
    BY DEF FitTask, Starting, Idle
  <2> QED BY <1>3, <2>1 DEF DeleteInstance
<1>4. \A d, i : Fits(i, d) => \A m \in Images : Fits(i, [d EXCEPT !.image = m])
  BY DEF Fits, Def
<1>5. ASSUME NEW w \in Threads, NEW i \in Instances, NEW m \in Images, Update(w, i, m) PROVE Goal
  <2> DEFINE t == [Idle EXCEPT !.op = "update", !.pc = "note", !.inst = i, !.base = Get(i),
                     !.def = [Get(i) EXCEPT !.image = m], !.goal = m]
  <2>1. /\ t.op = "update" /\ t.pc = "note" /\ t.inst = i /\ t.base = Get(i)
        /\ t.def = [Get(i) EXCEPT !.image = m] /\ \A j \in Instances : t.todo[j] = None
    BY DEF Idle
  <2>2. Get(i) # None /\ Begin(w, t) /\ Free(w)
    BY <1>5 DEF Update
  <2>3. Fits(i, Get(i)) /\ Fits(i, [Get(i) EXCEPT !.image = m]) /\ yaml[i] # None
    BY <1>1, <1>4, <2>2
  <2> HIDE DEF t
  <2>4. FitTask(t) /\ Starting(t)
    BY <2>1, <2>3 DEF FitTask, Starting
  <2> QED BY <2>2, <2>4
<1>6. ASSUME NEW w \in Threads, NEW i \in Instances, Rollback(w, i) PROVE Goal
  <2>1. prev[i] \in Images
    BY <1>6 DEF Rollback, Serial, Inv, TypeOK, StoreTypeOK
  <2>2. Get(i) # None /\ Fits(i, [Get(i) EXCEPT !.image = prev[i]])
    BY <1>1, <1>4, <1>6, <2>1 DEF Rollback
  <2> QED BY <1>2, <1>6, <2>2 DEF Rollback
<1>7. ASSUME NEW w \in Threads, NEW i \in Instances, NEW m \in Images, NEW p \in Ports,
             PatchInstance(w, i, [image |-> m, port |-> p])
      PROVE  Goal
  <2>1. PICK d : d = [image |-> m, port |-> p]
    OBVIOUS
  <2>2. /\ Get(i) # None /\ Free(w)
        /\ d \in Def /\ d.port \in {Get(i).port} \cup PortsOf[i]
        /\ Begin(w, [Idle EXCEPT !.op = "patch", !.pc = "put", !.inst = i, !.def = d])
    BY <1>7, <2>1 DEF PatchInstance, Def
  <2>3. Fits(i, d)
    BY <1>1, <2>2 DEF Fits
  <2> QED BY <1>2, <2>2, <2>3
<1>8. ASSUME NEW w \in Threads, NEW op \in {"reconcile", "updateAll"}, NEW t, Begin(w, t), Free(w),
             t.pc = "next", t.todo = List
      PROVE  Goal
  <2>1. FitTask(t) /\ Starting(t)
    BY <1>1, <1>8 DEF FitTask, Starting, List
  <2> QED BY <1>8, <2>1
<1>9. ASSUME NEW w \in Threads, ReconcileAll(w) PROVE Goal
  <2> DEFINE t == [Idle EXCEPT !.op = "reconcile", !.pc = "next", !.todo = List]
  <2>1. t.pc = "next" /\ t.todo = List
    BY DEF Idle
  <2> QED BY <1>8, <1>9, <2>1 DEF ReconcileAll
<1>10. ASSUME NEW w \in Threads, NEW m \in Images, UpdateAll(w, m) PROVE Goal
  <2> DEFINE t == [Idle EXCEPT !.op = "updateAll", !.pc = "next", !.goal = m, !.todo = List]
  <2>1. t.pc = "next" /\ t.todo = List
    BY DEF Idle
  <2> QED BY <1>8, <1>10, <2>1 DEF UpdateAll
<1>11. ASSUME NEW w \in Threads, NEW i \in Instances, NEW d PROVE ~CreateInstance(w, i, d)
  BY DEF CreateInstance, NoStops
<1>12. ASSUME NEW i \in Instances PROVE ~Lifecycle("stop", i)
  BY DEF Lifecycle, NoStops
<1> HIDE DEF Goal
<1>13. Goal \/ (\E op \in LoopOps \ {"stop"}, i \in Instances : Lifecycle(op, i))
            \/ (\E i \in Instances : EditLists(i))
  BY <1>3, <1>5, <1>6, <1>7, <1>9, <1>10, <1>11, <1>12 DEF Request
<1> QED BY <1>13 DEF Goal

LEMMA PortedInit == ASSUME Init PROVE Ported
<1>1. PICK known \in SUBSET Instances : \E d \in [known -> [image : CanPass, port : Ports]] :
        /\ \A i \in known : d[i].port \in PortsOf[i]
        /\ yaml = [i \in Instances |-> IF i \in known THEN d[i] ELSE None]
  BY DEF Init
<1>2. PICK d \in [known -> [image : CanPass, port : Ports]] :
        /\ \A i \in known : d[i].port \in PortsOf[i]
        /\ yaml = [i \in Instances |-> IF i \in known THEN d[i] ELSE None]
  BY <1>1
<1>3. \A i \in Instances : yaml[i] \in Def => Fits(i, yaml[i])
  BY <1>2, NoneAssumption DEF Fits, Def
<1>4. \A x \in DOMAIN cont : Fits(cont[x].inst, cont[x].def)
  BY <1>3, InitialHost
<1>5. \A w \in Threads : FitTask(task[w])
  BY InitialHost, LoopWorker DEF FitTask, Idle
<1> QED BY <1>3, <1>4, <1>5 DEF Ported

LEMMA PortedMild ==
  ASSUME Ported, Mild, UNCHANGED yaml, \A w \in Threads : FitTask(task[w])'
  PROVE  Ported'
BY DEF Ported, Mild

LEMMA PortedNext ==
  ASSUME OnlyFaults, NoStops, Serial, Serial', Ported, [Next]_vars PROVE Ported'
<1>1. ASSUME NEW w \in Threads, Step(w) PROVE Ported'
  <2>1. \A v \in Threads : FitTask(task[v])'
    <3>1. \A v \in Threads \ {w} : task'[v] = task[v]
      BY <1>1, StepOthers, LoopWorker DEF Serial
    <3> QED BY <1>1, <3>1, FitThread DEF Ported
  <2>2. task[w].pc \notin {"idle", "next"} /\ task[w].op # "delete" => Fits(task[w].inst, task[w].def)
    BY DEF Ported, FitTask
  <2>3. task[w].pc \in {"create", "putWrite"} => task[w].op # "delete"
    BY DEF Serial, ThreadTask, RemoveLabels
  <2>4. \A x \in DOMAIN cont' : Fits(cont'[x].inst, cont'[x].def)
    BY <1>1, <2>2, <2>3, DefsKept DEF Ported
  <2>5. ASSUME NEW i \in Instances, yaml'[i] \in Def PROVE Fits(i, yaml'[i])
    <3>1. yaml'[i] = yaml[i] \/ (i = task[w].inst /\ task[w].pc = "putWrite" /\ yaml'[i] = task[w].def)
      <4>1. task[w].pc = "putWrite" => yaml[task[w].inst] # None
        BY DEF Serial, Stored
      <4>2. None \notin Def /\ Torn \notin Def
        BY NoneAssumption, TornAssumption DEF Def
      <4> QED BY <1>1, <2>5, <4>1, <4>2, YamlStep
    <3> QED BY <2>2, <2>3, <2>5, <3>1 DEF Ported
  <2> QED BY <2>1, <2>4, <2>5 DEF Ported
<1>2. ASSUME Mild, UNCHANGED yaml, \A w \in Threads : task'[w] = task[w] PROVE Ported'
  <2>1. \A w \in Threads : FitTask(task[w])'
    BY <1>2 DEF Ported, FitTask
  <2> QED BY <1>2, <2>1, PortedMild
<1>3. CASE Step(Loop)
  BY <1>2, <1>3, LoopStep, StepOthers, LoopWorker DEF Serial
<1>4. CASE Request
  <2>1. ASSUME NEW w \in Threads, NEW t, Begin(w, t), FitTask(t) PROVE Ported'
    <3>1. task'[w] = t /\ \A v \in Threads \ {w} : task'[v] = task[v]
      BY <2>1, LoopWorker DEF Begin, Serial, Inv, TypeOK, DockerTypeOK
    <3>2. \A v \in Threads : FitTask(task[v])'
      BY <2>1, <3>1 DEF Ported, FitTask
    <3> QED BY <2>1, <3>2, UnchangedMild, PortedMild DEF Begin, storeVars
  <2>2. ASSUME NEW op, NEW i, Lifecycle(op, i) PROVE Ported'
    BY <1>2, <2>2, UnchangedMild, LoopWorker
       DEF Lifecycle, Begin, storeVars, Serial, Inv, TypeOK, DockerTypeOK
  <2>3. ASSUME NEW i, EditLists(i) PROVE Ported'
    BY <1>2, <2>3, UnchangedMild DEF EditLists, storeVars
  <2> QED BY <1>4, <2>1, <2>2, <2>3, RequestStarts
<1>5. CASE Environment
  BY <1>2, <1>5, EnvironmentMild DEF Environment, storeVars, Serial
<1>6. ~Crash /\ ~Reboot
  BY DEF OnlyFaults, Crash, Reboot
<1>7. CASE UNCHANGED vars
  BY <1>2, <1>7, UnchangedMild DEF vars
<1> QED BY <1>1, <1>3, <1>4, <1>5, <1>6, <1>7 DEF Next, Workers

\* With no call refused for a reason of the daemon's own, only a start can
\* fail, and the old container's cannot: nothing else has its port.
LEMMA SwapSure ==
  ASSUME NoHazards, OwnPorts, Serial, Ported, NEW w \in Threads, Step(w)
  PROVE  /\ task[w].pc = "stop" => StopContainer(task[w].old) /\ task'[w].pc = "park"
         /\ task[w].pc = "park" => RenameTo(task[w].old, "old") /\ task'[w].pc = "promote"
         /\ task[w].pc = "revive" => StartContainer(task[w].old)
<1>0. PICK i, o : i = task[w].inst /\ o = task[w].old
  OBVIOUS
<1>1. w \in Workers /\ task \in [Workers -> Task]
  BY LoopWorker DEF Serial, Inv, TypeOK, DockerTypeOK
<1>2. ASSUME NEW l, Goto(w, l) PROVE task'[w].pc = l
  BY <1>1, <1>2, GotoFields DEF Serial
<1>3. ASSUME task[w].pc \in {"stop", "park", "revive"}
      PROVE  \/ task[w].pc = "stop" /\ StopOld(w)
             \/ task[w].pc = "park" /\ Park(w)
             \/ task[w].pc = "revive" /\ Revive(w)
  <2>1. ~DockerFault(w) /\ ~VerifyAborts(w)
    BY DEF NoHazards, DockerFault, Refuse, Abort, VerifyAborts
  <2>2. EnsureStep(w)
    BY <1>3, <2>1 DEF Step, Work, DockerStep, RemoveStep, FindMain, Remove, RemoveVolume,
       DeleteLists, LifecycleStep, LifecycleAct, Note, Put, DeleteFiles, FileStep, NextInstance,
       Returned, Raised, Verify, At
  <2> QED BY <1>3, <2>2 DEF EnsureStep, Look, Fast, FastStart, Sweep, FindStale, Remove, Create,
       StopOld, Park, Rename, Spill, Promote, StartNew, WaitHealthy, Retire, Discard, Unpark,
       Revive, At
<1>4. task[w].pc \in {"stop", "park", "revive"} => Shape(task[w]) /\ task[w].op # "delete"
  BY Busy DEF ThreadTask, RemoveLabels
<1>5. CASE task[w].pc = "stop"
  <2>1. o \in DOMAIN cont
    BY <1>0, <1>4, <1>5 DEF Shape, BuiltLabels, Outdated, Held
  <2> QED BY <1>0, <1>2, <1>3, <1>5, <2>1 DEF StopOld, Call, Exists
<1>6. CASE task[w].pc = "park"
  <2>1. CanRename(o, "old")
    BY <1>0, <1>4, <1>6 DEF Shape, BuiltLabels, Outdated, Held, Vacant, CanRename, Exists, Named
  <2> QED BY <1>0, <1>2, <1>3, <1>6, <2>1 DEF Park, Rename, Call
<1>7. CASE task[w].pc = "revive"
  <2>1. Held(o, i, "main") /\ Vacant(i, "new") /\ Vacant(i, "old") /\ i \in Instances
    BY <1>0, <1>4, <1>7, Busy DEF Shape
  <2>2. \A y \in DOMAIN cont : cont[y].inst = i => y = o
    BY <2>1 DEF Held, Vacant, Serial, Inv, TypeOK, EngineTypeOK, Container, UniqueNames
  <2>3. \A y \in DOMAIN cont :
          cont[y].inst \in Instances /\ cont[y].def.port \in PortsOf[cont[y].inst]
    BY DEF Ported, Fits, Serial, Inv, TypeOK, EngineTypeOK, Container
  <2>4. \A y \in DOMAIN cont \ {o} : cont[y].def.port # cont[o].def.port
    BY <2>1, <2>2, <2>3 DEF OwnPorts, Held
  <2>5. CanStart(o)
    BY <2>1, <2>4 DEF CanStart, Exists, PortFree, Held
  <2> QED BY <1>0, <1>3, <1>7, <2>5 DEF Revive, Call
<1> QED BY <1>5, <1>6, <1>7

LEMMA ServesLifts == ASSUME Lifts PROVE \A i : Serves(i) => Serves(i)'
<1> SUFFICES ASSUME NEW i, Serves(i) PROVE Serves(i)'
  OBVIOUS
<1>1. PICK x \in DOMAIN cont : Held(x, i, "main") /\ Up(x)
  BY DEF Serves
<1> QED BY <1>1 DEF Lifts, Held, Serves

\* Nothing that changes one container, and not instance i's, takes i out of
\* service.
LEMMA ServesElsewhere ==
  ASSUME NEW x, Alters(x), NEW i, x \in DOMAIN cont => cont[x].inst # i, Serves(i)
  PROVE  Serves(i)'
<1>1. PICK y \in DOMAIN cont : Held(y, i, "main") /\ Up(y)
  BY DEF Serves
<1>2. y # x /\ y \in DOMAIN cont' /\ cont'[y] = cont[y]
  BY <1>1 DEF Alters, Held
<1> QED BY <1>1, <1>2 DEF Serves, Held, Up, Exists

LEMMA GapWorks == \A v \in Threads : Gap(task[v]) => task[v].pc \notin {"idle", "next"}
BY DEF Gap, AfterDrop

\* The instance a thread works on.
LEMMA ServingHere ==
  ASSUME NoHazards, OnlyFaults, OwnPorts, Serial, Serial', Orderly, Orderly', Ported,
         Apart, Serving, NEW w \in Threads, Step(w), task[w].pc # "next",
         NEW i \in Instances, i = task[w].inst, yaml'[i] # None
  PROVE  Serves(i)' \/ (task'[w].inst = i /\ Gap(task[w])')
<1>0. PICK o, n : o = task[w].old /\ n = task[w].new
  OBVIOUS
<1>1. /\ task[w].pc # "idle" /\ ThreadTask(task[w]) /\ Shape(task[w]) /\ Stored(task[w])
      /\ Served(task[w]) /\ w \in Workers /\ task \in [Workers -> Task] /\ None \notin DOMAIN cont
      /\ SwapStep(w) /\ Effect(task[w])
  BY StepOthers, LoopWorker, Busy, SwapSteps, ThreadEffect
     DEF Serial, Inv, TypeOK, DockerTypeOK, Serving
<1>2. task[w].pc \notin Turns => KeepsRequest(w) /\ task'[w].pc \in Follows(task[w].pc)
  BY LabelStep
<1>3. Inv /\ NoneManual
  BY DEF Serving, NoneManual, Serial
<1>4. ~Gap(task[w]) => Serves(i)
  <2>1. \A v \in Threads \ {w} : ~(task[v].inst = i /\ Gap(task[v]))
    BY <1>1, GapWorks, Distinct
  <2>2. yaml[i] # None
    BY <1>1, YamlStep DEF Served, Stored
  <2> QED BY <2>1, <2>2 DEF Serving
<1>5. CASE UNCHANGED cont /\ ~Gap(task[w])
  BY <1>3, <1>4, <1>5, UnchangedLifts, ServesLifts
<1>6. CASE task[w].op = "delete" /\ task[w].pc \notin {"rmFind", "raised"}
  <2>1. task'[w].op = "delete" => task'[w].pc # "raised"
    BY DEF Orderly, Ends
  <2>2. CASE task[w].pc = "returned"
    <3>1. Goto(w, "rmPrev")
      BY <1>6, <2>2, TurnStep DEF Turns
    <3>2. task'[w].pc = "rmPrev" /\ task'[w].inst = i
      BY <1>1, <3>1, GotoFields DEF Serial
    <3> QED BY <3>2 DEF Gap, AfterDrop
  <2>3. CASE task[w].pc \in {"rmDrop", "rmCache", "rmLogs", "rmLists", "rmPrev"}
    <3>1. KeepsRequest(w) /\ task'[w].pc \in Follows(task[w].pc)
      BY <1>2, <2>3 DEF Turns
    <3>2. task'[w].op = "delete" /\ task'[w].inst = i /\ task'[w].pc # "raised"
      BY <1>6, <2>1, <3>1 DEF KeepsRequest
    <3>3. task'[w].pc \in AfterDrop \cup {"returned"}
      BY <2>3, <3>1, <3>2 DEF Follows, CallLabels, TryLabels, AfterDrop
    <3> QED BY <3>2, <3>3 DEF Gap
  <2>4. CASE task[w].pc = "rmYaml"
    <3>1. DeleteFiles(w)
      BY <2>4, RemovingStep DEF RemoveLabels, RemoveStep, FindMain, Remove, RemoveVolume,
         DeleteLists, At
    <3>2. Unlink(task[w].inst)
      BY <2>4, <3>1 DEF DeleteFiles, FileStep, At, Inst
    <3> QED BY <3>2 DEF Unlink, Serial, Inv, TypeOK, StoreTypeOK
  <2> QED BY <1>1, <1>6, <2>2, <2>3, <2>4 DEF ThreadTask, RemoveLabels
<1>7. CASE task[w].pc \in {"stop", "park", "promote", "start", "wait", "discard", "unpark"}
  <2>1. task'[w].inst = i
    BY <1>2, <1>7 DEF Turns, KeepsRequest
  <2>2. task'[w].pc \in {"park", "promote", "start", "wait", "retire", "discard", "unpark", "revive"}
    BY <1>1, <1>7, SwapSure DEF SwapStep, Served
  <2> QED BY <2>1, <2>2 DEF Gap
<1>8. CASE task[w].pc = "retire"
  <2>1. Held(n, i, "main") /\ Held(o, i, "old") /\ Up(n)
    BY <1>0, <1>1, <1>8 DEF Shape, Served
  <2>2. RemoveContainer(o)
    BY <1>0, <1>1, <1>8 DEF SwapStep
  <2>3. n # o /\ n \in DOMAIN cont' /\ cont'[n] = cont[n]
    BY <2>1, <2>2 DEF Held, RemoveContainer
  <2> QED BY <2>1, <2>3 DEF Serves, Held, Up, Exists
<1>9. CASE task[w].pc = "revive"
  <2>1. Held(o, i, "main") /\ StartContainer(o)
    BY <1>0, <1>1, <1>9, SwapSure DEF Shape
  <2>2. Lifts /\ Up(o)'
    BY <1>3, <2>1, StartLifts DEF Held
  <2> QED BY <2>1, <2>2 DEF Lifts, Serves, Held
<1>10. CASE task[w].pc \in {"dropNew", "dropOld", "create", "fastStart"}
  <2>1. PICK x \in DOMAIN cont : Held(x, i, "main") /\ Up(x)
    BY <1>4, <1>10 DEF Serves, Gap, AfterDrop
  <2>2. CASE task[w].pc \in {"dropNew", "dropOld"}
    <3>1. n # x
      BY <1>0, <1>1, <2>1, <2>2 DEF Shape, Held
    <3>2. UNCHANGED cont \/ RemoveContainer(n)
      BY <1>0, <1>1, <2>2 DEF Effect
    <3>3. x \in DOMAIN cont' /\ cont'[x] = cont[x]
      BY <2>1, <3>1, <3>2 DEF RemoveContainer
    <3> QED BY <2>1, <3>3 DEF Serves, Held, Up, Exists
  <2>3. CASE task[w].pc = "create"
    <3>1. UNCHANGED cont \/ \E y \in FreshIds : CreateOn(y, task[w].inst, task[w].def)
      BY <1>1, <2>3 DEF Effect
    <3>2. ASSUME NEW y \in FreshIds, NEW j, NEW d, CreateOn(y, j, d)
          PROVE  x \in DOMAIN cont' /\ cont'[x] = cont[x]
      BY <2>1, <3>2 DEF CreateOn, FreshIds
    <3>3. x \in DOMAIN cont' /\ cont'[x] = cont[x]
      BY <3>1, <3>2
    <3> QED BY <2>1, <3>3 DEF Serves, Held, Up, Exists
  <2>4. CASE task[w].pc = "fastStart"
    <3>1. o \in DOMAIN cont /\ (UNCHANGED cont \/ StartContainer(o))
      BY <1>0, <1>1, <2>4 DEF Effect, Shape, FastLabels, Held
    <3>2. Lifts
      BY <1>3, <3>1, StartLifts, UnchangedLifts
    <3> QED BY <2>1, <3>2, ServesLifts DEF Serves
  <2> QED BY <1>10, <2>2, <2>3, <2>4
<1>11. CASE /\ ~(task[w].op = "delete" /\ task[w].pc \notin {"rmFind", "raised"})
            /\ task[w].pc \notin {"stop", "park", "promote", "start", "wait", "discard", "unpark",
                                  "retire", "revive", "dropNew", "dropOld", "create", "fastStart"}
  <2>1. task[w].pc # "spill" /\ task[w].pc # "rmDrop" /\ ~Gap(task[w])
    BY <1>1, <1>11 DEF Served, Gap, AfterDrop, ThreadTask, RemoveLabels
  <2>2. UNCHANGED cont
    BY <1>1, <1>11, <2>1 DEF Effect
  <2> QED BY <1>5, <2>1, <2>2
<1> QED BY <1>6, <1>7, <1>8, <1>9, <1>10, <1>11

LEMMA ServedThread ==
  ASSUME NoHazards, OnlyFaults, OwnPorts, Serial, Serial', Orderly, Ported, Apart, Serving,
         NEW w \in Threads, Step(w)
  PROVE  Served(task[w])'
<1>0. PICK i, o, n : i = task[w].inst /\ o = task[w].old /\ n = task[w].new
  OBVIOUS
<1>1. /\ task[w].pc # "idle" /\ Served(task[w]) /\ w \in Workers /\ task \in [Workers -> Task]
      /\ None \notin DOMAIN cont /\ SwapStep(w) /\ Inv /\ NoneManual /\ None \notin Def
  BY StepOthers, LoopWorker, SwapSteps, NoneAssumption
     DEF Serial, Inv, TypeOK, DockerTypeOK, EngineTypeOK, Serving, NoneManual, Def
<1>2. CASE task[w].pc \notin Turns
  <2>1. /\ KeepsRequest(w) /\ task'[w].pc \in Follows(task[w].pc) /\ i \in Instances
        /\ Shape(task[w]) /\ Stored(task[w]) /\ ThreadTask(task[w])
    BY <1>0, <1>1, <1>2, LabelStep, Busy DEF Turns
  <2>2. task'[w].pc \notin {"note", "next"}
    BY <1>2, <2>1 DEF Follows, CallLabels, TryLabels, Turns
  <2>3. task'[w].pc # "spill"
    <3>1. task'[w].pc = "spill" => task[w].pc \in {"stop", "park"}
      BY <1>2, <2>1 DEF Follows, CallLabels, TryLabels, Turns
    <3> QED BY <3>1, SwapSure
  <2>4. task'[w].pc = "put" => yaml'[i] # None
    <3>1. task'[w].pc = "put" => task[w].pc = "note"
      BY <1>2, <2>1 DEF Follows, CallLabels, TryLabels, Turns
    <3>2. task[w].pc = "note" => yaml'[i] = yaml[i]
      BY <2>1, YamlStep
    <3> QED BY <1>0, <1>1, <3>1, <3>2 DEF Served
  <2>5. CASE task'[w].pc \in SweepLabels \cup {"promote", "start", "wait", "discard"}
    <3>1. CASE task[w].pc = "look"
      <4>1. yaml[i] = task[w].def /\ task[w].def \in Def
        BY <1>0, <1>1, <2>1, <3>1 DEF Stored, Serial, Inv, WellFormed, EnsureLabels
      <4>2. Serves(i)
        <5>1. \A v \in Threads : ~(task[v].inst = i /\ Gap(task[v]))
          BY <1>0, <1>1, <3>1, GapWorks, Distinct DEF Gap, AfterDrop
        <5> QED BY <1>1, <2>1, <4>1, <5>1 DEF Serving
      <4>3. Named(i, "main") # {}
        BY <4>2 DEF Serves, Held, Named
      <4>4. Look(w)
        <5>1. ~DockerFault(w)
          BY DEF NoHazards, DockerFault, Refuse, Abort
        <5> QED BY <3>1, <5>1 DEF Step, Work, DockerStep, EnsureStep, Fast, FastStart, Sweep,
             FindStale, Remove, Create, StopOld, Park, Rename, Spill, Promote, StartNew,
             WaitHealthy, Retire, Discard, Unpark, Revive, RemoveStep, FindMain, RemoveVolume,
             DeleteLists, LifecycleStep, LifecycleAct, Put, Note, DeleteFiles, FileStep,
             NextInstance, Returned, Raised, Verify, VerifyAborts, At
      <4>5. PICK x \in Named(i, "main") :
              task' = [task EXCEPT ![w].old = x, ![w].new = None,
                         ![w].pc = IF x # None /\ cont[x].def = task[w].def
                                   THEN "fast" ELSE "findNew"]
        BY <1>0, <4>3, <4>4 DEF Look, Lookup, Inst
      <4>6. task'[w].old = x
        BY <1>1, <4>5 DEF Task
      <4>7. x # None
        BY <1>1 DEF Named
      <4>8. task'[w].pc = "findNew"
        BY <2>1, <2>5, <3>1 DEF SweepLabels, Follows, CallLabels, TryLabels
      <4> QED BY <4>6, <4>7, <4>8 DEF Served
    <3>2. CASE task[w].pc # "look"
      <4>1. task[w].pc \in SweepLabels \cup {"park", "promote", "start", "wait"}
        BY <1>2, <2>1, <2>3, <2>5, <3>2 DEF Follows, CallLabels, TryLabels, SweepLabels, Turns
      <4>2. task[w].old # None
        <5>1. task[w].pc = "park" => task[w].old \in DOMAIN cont
          BY <2>1 DEF Shape, BuiltLabels, Outdated, Held
        <5> QED BY <1>1, <4>1, <5>1 DEF Served
      <4>3. task'[w].old = task[w].old
        BY <2>1, <3>2, <4>1 DEF KeepsRequest, SweepLabels
      <4>4. task'[w].pc = "wait" => Up(task[w].new)'
        <5>1. task'[w].pc = "wait" => task[w].pc = "start"
          BY <1>2, <2>1 DEF Follows, CallLabels, TryLabels, Turns
        <5>2. CASE task'[w].pc = "wait"
          <6>1. StartContainer(n) /\ n \in DOMAIN cont /\ task'[w].new = n
            BY <1>0, <1>1, <2>1, <5>1, <5>2 DEF SwapStep, Shape, Candidate, Held, KeepsRequest
          <6>2. Up(n)'
            BY <1>1, <6>1, StartLifts
          <6> QED BY <6>1, <6>2 DEF Up, Exists
        <5> QED BY <5>2
      <4> QED BY <2>1, <2>2, <2>3, <2>4, <2>5, <4>2, <4>3, <4>4, <1>0
           DEF Served, KeepsRequest, SweepLabels, Up, Exists
    <3> QED BY <3>1, <3>2
  <2>6. CASE task'[w].pc \notin SweepLabels \cup {"promote", "start", "wait", "discard"}
    <3>1. CASE task'[w].pc = "retire"
      <4>1. task[w].pc = "wait"
        BY <1>2, <2>1, <3>1 DEF Follows, CallLabels, TryLabels, Turns
      <4>2. cont' = [cont EXCEPT ![n].accepted = TRUE] /\ task'[w].new = n /\ Up(n)
        BY <1>0, <1>1, <2>1, <3>1, <4>1 DEF SwapStep, Served, KeepsRequest
      <4>3. cont[n] \in Container
        BY <1>1, <4>2 DEF Up, Exists, Inv, TypeOK, EngineTypeOK
      <4>4. Up(n)'
        BY <4>2, <4>3 DEF Up, Exists, Container
      <4> QED BY <2>6, <3>1, <4>2, <4>4 DEF Served, Up, Exists
    <3> QED BY <1>0, <2>1, <2>2, <2>3, <2>4, <2>6, <3>1 DEF Served, KeepsRequest
  <2> QED BY <2>5, <2>6
<1>3. CASE task[w].pc \in Turns
  <2>1. task' = [task EXCEPT ![w] = Idle] => Served(task[w])'
    BY <1>1 DEF Served, SweepLabels, Idle
  <2>2. ASSUME NEW e \in BOOLEAN, Finish(w, e) PROVE Served(task[w])'
    BY <1>1, <2>1, <2>2, FinishFields DEF Served, SweepLabels
  <2>3. ASSUME Undo(w), Updating(w), task[w].pc \in {"raised", "verify"} PROVE Served(task[w])'
    <3>1. task'[w].pc = "put" /\ task'[w].inst = i
      BY <1>0, <1>1, <2>3, UndoFields
    <3>2. yaml[i] = task[w].def /\ task[w].def \in Def /\ i \in Instances
      <4>1. Stored(task[w]) /\ i \in Instances /\ FitTask(task[w]) /\ Ends(task[w])
        BY <1>0, <2>3, Busy DEF Ported, Orderly
      <4> QED BY <1>0, <2>3, <4>1 DEF Stored, Ends, FitTask, Fits, Updating
    <3>3. yaml'[i] = yaml[i]
      BY <2>3, <3>2, YamlStep
    <3> QED BY <1>1, <3>1, <3>2, <3>3 DEF Served, SweepLabels
  <2>4. ASSUME NEW l \in {"rmPrev", "verify", "raised"}, Goto(w, l) PROVE Served(task[w])'
    BY <1>1, <2>4, GotoFields DEF Served, SweepLabels
  <2>5. ASSUME NextInstance(w) PROVE Served(task[w])'
    <3>1. CASE task' = [task EXCEPT ![w] = Idle]
      BY <2>1, <3>1
    <3>2. CASE ~(task' = [task EXCEPT ![w] = Idle])
      <4>1. PICK j \in First(w) :
              /\ UNCHANGED yaml
              /\ \/ task'[w].pc \in {"look", "next"}
                 \/ task'[w].pc = "note" /\ task'[w].inst = j /\ Get(j) # None
        BY <1>1, <2>5, <3>2, NextFields
      <4> QED BY <1>1, <4>1 DEF Served, SweepLabels, Get
    <3> QED BY <3>1, <3>2
  <2>6. Verify(w) \/ VerifyAborts(w) => (\E e \in BOOLEAN : Finish(w, e)) \/ Undo(w)
    BY DEF Verify, VerifyAborts
  <2>7. task[w].pc = "verify" => Updating(w)
    BY Busy DEF ThreadTask, Updating
  <2> QED BY <1>3, <2>1, <2>2, <2>3, <2>4, <2>5, <2>6, <2>7, TurnStep
<1> QED BY <1>2, <1>3

\* Every call of a thread is about its own instance's containers.
LEMMA OwnAltered ==
  ASSUME OnlyFaults, Serial, NEW w \in Threads, Step(w), task[w].pc # "next", ~UNCHANGED cont
  PROVE  \E x : Alters(x) /\ (x \in DOMAIN cont => cont[x].inst = task[w].inst)
<1> USE DEF AfterLook, FastLabels, SweepLabels, BuiltLabels, SwapLabels
<1>1. /\ Effect(task[w]) /\ Shape(task[w])
  BY ThreadEffect, Busy, StepOthers, LoopWorker DEF Serial
<1>2. ASSUME NEW x, RemoveContainer(x) \/ StopContainer(x) \/ StartContainer(x) PROVE Alters(x)
  BY <1>2 DEF RemoveContainer, StopContainer, StartContainer, Alters
<1>3. ASSUME NEW x, NEW s, RenameTo(x, s) \/ cont' = [cont EXCEPT ![x].accepted = TRUE]
      PROVE  Alters(x)
  BY <1>3 DEF RenameTo, Alters
<1>4. ASSUME NEW x \in FreshIds, CreateOn(x, task[w].inst, task[w].def)
      PROVE  Alters(x) /\ x \notin DOMAIN cont
  BY <1>4 DEF CreateOn, Alters, FreshIds
<1>5. CASE task[w].pc \in {"dropNew", "dropOld", "spill", "discard", "promote", "start", "wait"}
  <2>1. Alters(task[w].new)
    BY <1>1, <1>2, <1>3, <1>5 DEF Effect
  <2>2. cont[task[w].new].inst = task[w].inst
    BY <1>1, <1>5 DEF Shape, Candidate, Held
  <2> QED BY <2>1, <2>2
<1>6. CASE task[w].pc \in {"retire", "rmDrop", "stop", "park", "unpark", "fastStart", "revive"}
  <2>1. Alters(task[w].old)
    BY <1>1, <1>2, <1>3, <1>6 DEF Effect
  <2>2. cont[task[w].old].inst = task[w].inst
    BY <1>1, <1>6 DEF Shape, Outdated, Held
  <2> QED BY <2>1, <2>2
<1>7. CASE task[w].pc = "create"
  BY <1>1, <1>4, <1>7 DEF Effect
<1> QED BY <1>1, <1>5, <1>6, <1>7 DEF Effect

\* What another thread's replacement goes back to is left alone.
LEMMA ServedElsewhere ==
  ASSUME Serial, Apart, NEW w \in Threads, Step(w), NEW v \in Threads \ {w}, Served(task[v])
  PROVE  Served(task[v])'
<1>1. task[w].pc # "idle" /\ task'[v] = task[v]
  BY StepOthers, LoopWorker DEF Serial
<1>2. CASE task[v].pc \in {"idle", "next"}
  BY <1>1, <1>2 DEF Served, SweepLabels
<1>3. CASE task[v].pc \notin {"idle", "next"}
  <2> DEFINE j == task[v].inst
             x == task[v].new
  <2>1. j \in Instances /\ j # task[w].inst
    BY <1>1, <1>3, Distinct
  <2>2. yaml'[j] = yaml[j]
    BY <2>1, YamlStep
  <2>3. task[v].pc \in {"wait", "retire"} => x \in DOMAIN cont /\ cont[x].inst = j
    BY <1>3, Busy DEF Shape, Candidate, Held
  <2>4. task[v].pc \in {"wait", "retire"} => x \in DOMAIN cont' /\ cont'[x] = cont[x]
    BY <2>1, <2>3, OthersUntouched
  <2> QED BY <1>1, <2>2, <2>4 DEF Served, Up, Exists
<1> QED BY <1>2, <1>3

LEMMA ServingNext ==
  ASSUME NoHazards, NoStops, OwnPorts, Serial, Serial', Orderly, Orderly', Ported, Apart,
         Serving, [Next]_vars
  PROVE  Serving'
<1>0. OnlyFaults /\ NoneManual /\ Inv
  BY DEF NoHazards, OnlyFaults, Serving, NoneManual, Serial
<1>1. ASSUME NEW w \in Threads, Step(w) PROVE Serving'
  <2>1. /\ task[w].pc # "idle" /\ task'[Loop] = task[Loop]
        /\ \A v \in Threads \ {w} : task'[v] = task[v]
    BY <1>1, StepOthers, LoopWorker DEF Serial
  <2>2. \A v \in Threads : Served(task[v])'
    BY <1>0, <1>1, ServedThread, ServedElsewhere DEF Serving
  <2>3. NoneManual'
    BY <1>0, <1>1, ManualStep
  <2>4. ASSUME NEW j \in Instances, yaml'[j] # None
        PROVE  Serves(j)' \/ \E v \in Threads : task'[v].inst = j /\ Gap(task[v])'
    <3>1. CASE j = task[w].inst /\ task[w].pc # "next"
      BY <1>0, <1>1, <2>4, <3>1, ServingHere
    <3>2. CASE j # task[w].inst \/ task[w].pc = "next"
      <4>1. ASSUME NEW v \in Threads, task[v].inst = j, Gap(task[v])
            PROVE  task'[v].inst = j /\ Gap(task[v])'
        BY <2>1, <3>2, <4>1 DEF Gap, AfterDrop
      <4>2. yaml[j] # None
        BY <1>1, <2>4, <3>2, YamlStep
      <4>3. CASE Serves(j) /\ task[w].pc = "next"
        <5>1. UNCHANGED cont
          BY <1>1, <4>3, TurnStep DEF Turns
        <5> QED BY <1>0, <4>3, <5>1, UnchangedLifts, ServesLifts
      <4>4. CASE Serves(j) /\ task[w].pc # "next"
        <5>1. j # task[w].inst
          BY <3>2, <4>4
        <5>2. CASE UNCHANGED cont
          BY <1>0, <4>4, <5>2, UnchangedLifts, ServesLifts
        <5>3. CASE ~UNCHANGED cont
          <6>1. PICK x : Alters(x) /\ (x \in DOMAIN cont => cont[x].inst = task[w].inst)
            BY <1>0, <1>1, <2>1, <4>4, <5>3, OwnAltered
          <6> QED BY <4>4, <5>1, <6>1, ServesElsewhere
        <5> QED BY <5>2, <5>3
      <4> QED BY <4>1, <4>2, <4>3, <4>4 DEF Serving
    <3> QED BY <3>1, <3>2
  <2> QED BY <2>1, <2>2, <2>3, <2>4 DEF Serving, NoneManual
<1>2. ASSUME Lifts, UNCHANGED yaml, \A w \in Threads : task'[w] = task[w],
             task'[Loop].op # "stop"
      PROVE  Serving'
  <2>1. \A i \in Instances : Serves(i) => Serves(i)'
    BY <1>2, ServesLifts
  <2>2. \A w \in Threads : Served(task[w])'
    BY <1>2 DEF Serving, Served, Lifts, Up, Exists
  <2> QED BY <1>2, <2>1, <2>2 DEF Serving, Lifts, Gap
<1>3. CASE Step(Loop)
  <2>1. task'[Loop].op # "stop"
    BY <1>3, LoopOp DEF Serving
  <2>2. UNCHANGED yaml /\ \A w \in Threads : task'[w] = task[w]
    BY <1>3, LoopStep, StepOthers, LoopWorker DEF Serial
  <2>3. Lifts
    BY <1>0, <1>3, LoopLifts DEF Serving
  <2> QED BY <1>2, <2>1, <2>2, <2>3
<1>4. CASE Request
  <2>0. Lifts
    BY <1>0, <1>4, RequestBegins, UnchangedLifts DEF Begin, Lifecycle, EditLists
  <2>1. ASSUME NEW w \in Threads, NEW t, Begin(w, t), Free(w), Starting(t) PROVE Serving'
    <3>1. /\ task'[w] = t /\ UNCHANGED yaml
          /\ \A v \in Workers \ {w} : task'[v] = task[v]
      BY <2>1, LoopWorker DEF Begin, storeVars, Serial, Inv, TypeOK, DockerTypeOK
    <3>2. Served(task[w])'
      BY <2>1, <3>1 DEF Starting, Served, SweepLabels
    <3>3. \A v \in Threads : Served(task[v])'
      BY <2>0, <3>1, <3>2, LoopWorker DEF Serving, Served, Lifts, Up, Exists
    <3>4. ~Gap(task[w])
      BY <2>1 DEF Free, Gap, AfterDrop
    <3>5. \A v \in Threads : Gap(task[v]) => task'[v] = task[v] /\ Gap(task[v])'
      BY <3>1, <3>4, LoopWorker DEF Gap
    <3>6. \A i \in Instances : Serves(i) => Serves(i)'
      BY <2>0, ServesLifts
    <3> QED BY <2>0, <3>1, <3>3, <3>5, <3>6, LoopWorker DEF Serving, Lifts
  <2>2. ASSUME NEW op \in LoopOps \ {"stop"}, NEW i \in Instances, Lifecycle(op, i) PROVE Serving'
    <3>1. /\ UNCHANGED yaml /\ \A w \in Threads : task'[w] = task[w]
          /\ task'[Loop].op = op
      BY <2>2, LoopWorker
         DEF Lifecycle, Begin, storeVars, Serial, Inv, TypeOK, DockerTypeOK, Idle
    <3> QED BY <1>2, <2>0, <3>1
  <2>3. ASSUME NEW i \in Instances, EditLists(i) PROVE Serving'
    BY <1>2, <2>0, <2>3 DEF EditLists, storeVars, Serving
  <2> QED BY <1>4, <2>1, <2>2, <2>3, RequestStarts
<1>5. CASE Environment
  BY <1>0, <1>2, <1>5, EnvironmentLifts DEF Environment, storeVars, Serving
<1>6. ~Crash /\ ~Reboot
  BY DEF NoHazards, Crash, Reboot
<1>7. CASE UNCHANGED vars
  BY <1>0, <1>2, <1>7, UnchangedLifts DEF vars, Serving
<1> QED BY <1>1, <1>3, <1>4, <1>5, <1>6, <1>7 DEF Next, Workers

\* After any request but a create or a stop, on instances with ports of their
\* own, each stored instance has a container under its name that serves or that
\* the restart policy brings back: a failed replacement has its old container to
\* go back to, and that one can be started again.
THEOREM StaysInService ==
  NoHazards /\ NoStops /\ OwnPorts => (Spec /\ []Apart => []RestInService)
<1> SUFFICES ASSUME NoHazards, NoStops, OwnPorts PROVE Spec /\ []Apart => []RestInService
  OBVIOUS
<1>0. OnlyFaults
  BY DEF NoHazards, OnlyFaults
<1>1. Init => Ported
  BY PortedInit
<1>2. Serial /\ Serial' /\ Ported /\ [Next]_vars => Ported'
  BY <1>0, PortedNext
<1>3. Init => Serving
  <2> SUFFICES ASSUME Init PROVE Serving
    OBVIOUS
  <2>1. /\ \A x \in DOMAIN cont : cont[x].state = "running" /\ ~cont[x].manual
        /\ \A w \in Workers : task[w] = Idle
        /\ \A i \in Instances : yaml[i] # None => RunsAs(i, yaml[i])
    BY InitialHost
  <2>2. \A i \in Instances : yaml[i] # None => Serves(i)
    BY <2>1 DEF RunsAs, Serves, Up, Exists
  <2>3. \A w \in Threads : Served(task[w])
    BY <2>1, LoopWorker DEF Served, SweepLabels, Idle
  <2> QED BY <2>1, <2>2, <2>3, LoopWorker DEF Serving, Idle
<1>4. Serial /\ Serial' /\ Orderly /\ Orderly' /\ Ported /\ Apart /\ Serving /\ [Next]_vars
        => Serving'
  BY ServingNext
<1>5. Serving => RestInService
  <2> SUFFICES ASSUME Serving, AtRest, NEW i \in Instances, yaml[i] \in Def PROVE InService(i)
    BY DEF RestInService
  <2>1. yaml[i] # None
    BY NoneAssumption DEF Def
  <2>2. \A w \in Threads : ~Gap(task[w])
    BY LoopWorker DEF AtRest, Free, Gap, AfterDrop
  <2>3. Serves(i)
    BY <2>1, <2>2 DEF Serving
  <2> QED BY <2>3 DEF Serves, Held, Up, Exists, InService, Named
<1> QED BY <1>0, <1>1, <1>2, <1>3, <1>4, <1>5, SerialInvariant, OrderlyInvariant, PTL DEF Spec
=============================================================================
