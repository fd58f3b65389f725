------------------------ MODULE PackageServiceProofs ------------------------
(***************************************************************************)
(* Proofs about PackageService: types, the admin's decision, and the code  *)
(* that runs, for any number of versions and instances.                    *)
(***************************************************************************)
EXTENDS PackageService, TLAPS

\* The steps of a configure before and after the unit has been handled.
Handled == {"verb", "restart", "start", "tryRestart",
            "active", "wait", "updateAll", "reconcile", "end"}
Restarted == {"active", "wait", "updateAll", "reconcile", "end"}

\* Where dpkg is: which state of the package each step belongs to.
Places ==
  /\ job.at = "preinst" => pkg = "installed"
  /\ job.at = "unpack" => pkg # "unpacked"
  /\ job.at \in {"helper"} \cup Handled => pkg = "unpacked"
  /\ job.at # "none" => job.to \in Versions
  /\ pkg = "installed" => from # 0

\* The record: a decision that is not recorded is on an old version that no
\* script has begun to replace.
Recorded ==
  /\ ~record /\ choice = "off" => pkg = "installed" /\ job.at \in {"none", "preinst"}
  /\ pkg = "installed" /\ ver >= Keeps => record
  /\ job.at \in Handled => record
  /\ record /\ choice = "none" => link

\* The process: one of an older version runs only between the unpacking of a
\* new one and the restart.
Current ==
  /\ pkg \in {"purged", "removed"} => service = 0
  /\ from = 0 \/ pkg = "installed" \/ job.at \in Restarted => service \in {0, ver}
  /\ job.at = "start" => from = 0
  /\ job.at \in {"verb", "restart", "start", "tryRestart"} => up
  /\ job.at = "restart" => ~masked
  /\ ~up => service = 0

Decision == DecisionKept /\ Places /\ Recorded

USE PackageAssumption DEF Versions, PackageAssumption, unit, process, history

-----------------------------------------------------------------------------
(* Types, part by part.                                                    *)

LEMMA FlagsTyped == FlagsTypeOK /\ Next => FlagsTypeOK'
<1> SUFFICES ASSUME FlagsTypeOK, Next PROVE FlagsTypeOK'
  OBVIOUS
<1> USE DEF FlagsTypeOK, Launch, Runs
<1>1. CASE Dpkg
  BY <1>1 DEF Dpkg, Install, Upgrade, Configure
<1>2. CASE Script
  BY <1>2 DEF Script, Preinst, Unpack, ConfigureUnit, ChooseVerb, RunVerb, CheckActive,
    WaitForApi, UpdateAll, Reconcile, Finish, HelperEnable, HelperUpdateState, Invoke, Batch
<1>3. CASE Remove \/ Purge \/ Environment
  BY <1>3 DEF Remove, Purge, Environment, Decide, Mask, Start, Stop, Answers,
    ServiceFails, PowerLoss, Boot
<1> QED BY <1>1, <1>2, <1>3 DEF Next

LEMMA DpkgTyped == DpkgTypeOK /\ Next => DpkgTypeOK'
<1> SUFFICES ASSUME DpkgTypeOK, Next PROVE DpkgTypeOK'
  OBVIOUS
<1> USE DEF DpkgTypeOK, Launch, Runs, NoJob, Steps
<1>1. CASE Dpkg
  BY <1>1 DEF Dpkg, Install, Upgrade, Configure, Idle
<1>2. CASE Script
  <2> USE DEF At, Goto
  <2>1. CASE Preinst \/ Unpack \/ ConfigureUnit
    BY <2>1 DEF Preinst, Unpack, ConfigureUnit
  <2>2. CASE ChooseVerb
    BY <2>2 DEF ChooseVerb
  <2>7. CASE RunVerb
    BY <2>7 DEF RunVerb, Invoke
  <2>8. CASE CheckActive
    BY <2>8 DEF CheckActive
  <2>3. CASE WaitForApi
    BY <2>3 DEF WaitForApi
  <2>6. CASE Finish
    BY <2>6 DEF Finish
  <2>4. CASE UpdateAll
    <3>1. job' = [job EXCEPT !.at = "reconcile"] \/ job' = [job EXCEPT !.at = "end"]
      BY <2>4 DEF UpdateAll
    <3>2. job.at = "updateAll" /\ UNCHANGED <<pkg, ver, from, service>>
      BY <2>4 DEF UpdateAll
    <3> QED BY <3>1, <3>2
  <2>5. CASE Reconcile
    BY <2>5 DEF Reconcile
  <2> QED BY <1>2, <2>1, <2>2, <2>3, <2>4, <2>5, <2>6, <2>7, <2>8 DEF Script
<1>3. CASE Remove \/ Purge \/ Environment
  BY <1>3 DEF Remove, Purge, Environment, Decide, Mask, Start, Stop, Answers,
    ServiceFails, PowerLoss, Boot
<1> QED BY <1>1, <1>2, <1>3 DEF Next

LEMMA InstancesTyped == TypeOK /\ Next => InstancesTypeOK'
<1> SUFFICES ASSUME TypeOK, Next PROVE InstancesTypeOK'
  OBVIOUS
<1> USE DEF TypeOK, DpkgTypeOK, InstancesTypeOK
<1>1. CASE UpdateAll
  <2> DEFINE v == IF service = 0 THEN ver ELSE service
             S == [image : {Pin[u] : u \in Versions}, mount : BOOLEAN]
  <2>1. PICK done : inst' = [i \in Instances |->
                      IF i \in done THEN [image |-> Pin[v], mount |-> v >= Mounts] ELSE inst[i]]
    BY <1>1 DEF UpdateAll, Batch
  <2>2. v \in Versions
    OBVIOUS
  <2>3. [image |-> Pin[v], mount |-> v >= Mounts] \in S
    BY <2>2
  <2> QED BY <2>1, <2>3
<1>2. CASE Reconcile
  <2>1. PICK done : inst' = [i \in Instances |->
                      IF i \in done THEN [inst[i] EXCEPT !.mount = TRUE] ELSE inst[i]]
    BY <1>2 DEF Reconcile
  <2> QED BY <2>1
<1>3. CASE inst' = inst
  BY <1>3
<1> QED
  BY <1>1, <1>2, <1>3 DEF Next, Dpkg, Remove, Purge, Environment, Decide, Mask, Start, Stop,
    Answers, ServiceFails, PowerLoss, Boot, Script, Preinst, Unpack, ConfigureUnit, ChooseVerb,
    RunVerb, CheckActive, WaitForApi, Finish

\* The state of package, unit, process and instances keeps its types.
THEOREM PackageTypeCorrect == Spec => []TypeOK
<1>1. Init => TypeOK
  <2> SUFFICES ASSUME Init PROVE TypeOK
    OBVIOUS
  <2>1. DpkgTypeOK
    <3>1. ver \in 1..(Keeps - 1) /\ from \in {0, ver} /\ service \in {0, ver}
      BY DEF Init
    <3>2. pkg \in {"purged", "removed", "unpacked", "installed"} /\ job = NoJob
      BY DEF Init
    <3> QED BY <3>1, <3>2 DEF DpkgTypeOK
  <2>2. FlagsTypeOK
    BY DEF Init, FlagsTypeOK
  <2>3. InstancesTypeOK
    <3>1. ver \in Versions /\ [image |-> Pin[ver], mount |-> ver >= Mounts]
                                \in [image : {Pin[v] : v \in Versions}, mount : BOOLEAN]
      BY DEF Init
    <3>2. inst \in [Instances -> {[image |-> Pin[ver], mount |-> ver >= Mounts]}]
      BY DEF Init
    <3> QED BY <3>1, <3>2 DEF InstancesTypeOK
  <2> QED BY <2>1, <2>2, <2>3 DEF TypeOK
<1>2. TypeOK /\ [Next]_vars => TypeOK'
  <2>1. ASSUME TypeOK, UNCHANGED vars PROVE TypeOK'
    BY <2>1 DEF vars, TypeOK, DpkgTypeOK, FlagsTypeOK, InstancesTypeOK
  <2> QED BY <2>1, DpkgTyped, FlagsTyped, InstancesTyped DEF TypeOK
<1> QED BY <1>1, <1>2, PTL DEF Spec

-----------------------------------------------------------------------------
(* The admin's decision.                                                   *)

LEMMA InitDecision == Init => Decision
  BY DEF Init, Decision, DecisionKept, Places, Recorded, NoJob, Handled

LEMMA ScriptDecision == TypeOK /\ Decision /\ Script => Decision'
<1> SUFFICES ASSUME TypeOK, Decision, Script PROVE Decision'
  OBVIOUS
<1> USE DEF TypeOK, DpkgTypeOK, FlagsTypeOK, Decision, DecisionKept, Places, Recorded, NoJob,
            Handled, Steps, At, Goto, Enabled
<1>1. CASE Preinst
  BY <1>1 DEF Preinst, HelperEnable, HelperUpdateState
<1>2. CASE Unpack
  BY <1>2 DEF Unpack
<1>3. CASE ConfigureUnit
  BY <1>3 DEF ConfigureUnit, WasEnabled, HelperEnable, HelperUpdateState
<1>4. CASE ChooseVerb
  BY <1>4 DEF ChooseVerb
<1>5. CASE RunVerb
  BY <1>5 DEF RunVerb
<1>6. CASE CheckActive
  BY <1>6 DEF CheckActive
<1>7. CASE WaitForApi
  BY <1>7 DEF WaitForApi
<1>8. CASE UpdateAll
  BY <1>8 DEF UpdateAll
<1>9. CASE Reconcile
  BY <1>9 DEF Reconcile
<1>10. CASE Finish
  BY <1>10 DEF Finish
<1> QED
  BY <1>1, <1>2, <1>3, <1>4, <1>5, <1>6, <1>7, <1>8, <1>9, <1>10 DEF Script

LEMMA RestDecision ==
  TypeOK /\ Decision /\ (Dpkg \/ Remove \/ Purge \/ Environment) => Decision'
<1> SUFFICES ASSUME TypeOK, Decision, Dpkg \/ Remove \/ Purge \/ Environment PROVE Decision'
  OBVIOUS
<1> USE DEF TypeOK, DpkgTypeOK, FlagsTypeOK, Decision, DecisionKept, Places, Recorded, NoJob,
            Handled, Steps, Idle, UnitOnDisk
<1>1. CASE Dpkg
  <2>1. CASE \E v \in Keeps..Last : Upgrade(v)
    BY <1>1, <2>1 DEF Dpkg, Upgrade
  <2>2. CASE \E v \in Keeps..Last : Install(v)
    BY <1>1, <2>2 DEF Dpkg, Install
  <2>3. CASE Configure
    BY <1>1, <2>3 DEF Dpkg, Configure
  <2> QED BY <1>1, <2>1, <2>2, <2>3 DEF Dpkg
<1>2. CASE Remove
  BY <1>2 DEF Remove
<1>3. CASE Purge
  BY <1>3 DEF Purge
<1>4. CASE \E on \in BOOLEAN : Decide(on)
  BY <1>4 DEF Decide
<1>5. CASE Mask \/ Start \/ Stop \/ Answers \/ ServiceFails \/ PowerLoss \/ Boot
  BY <1>5 DEF Mask, Start, Stop, Answers, ServiceFails, PowerLoss, Boot
<1> QED BY <1>1, <1>2, <1>3, <1>4, <1>5 DEF Environment

\* The admin's enable and disable survive the package, whatever sequence of
\* installations, upgrades, removals and power failures meets them.
THEOREM DecisionSurvives == Spec => []DecisionKept
<1>1. TypeOK /\ Decision /\ [Next]_vars => Decision'
  <2>1. ASSUME Decision, UNCHANGED vars PROVE Decision'
    BY <2>1 DEF vars, Decision, DecisionKept, Places, Recorded
  <2> QED BY <2>1, ScriptDecision, RestDecision DEF Next
<1>2. Decision => DecisionKept
  BY DEF Decision
<1> QED BY InitDecision, PackageTypeCorrect, <1>1, <1>2, PTL DEF Spec

-----------------------------------------------------------------------------
(* The code that runs.                                                     *)

LEMMA CurrentStep ==
  ASSUME "policy" \notin Hazards, TypeOK, Places, Current, Next
  PROVE  Current'
<1> USE DEF TypeOK, DpkgTypeOK, FlagsTypeOK, Places, Current, NoJob, Handled, Restarted, Steps,
            Runs, Launch, Idle, UnitOnDisk
<1>1. CASE Dpkg
  BY <1>1 DEF Dpkg, Upgrade, Install, Configure
<1>2. CASE Script
  <2> USE DEF At, Goto
  <2>1. CASE Preinst
    BY <2>1 DEF Preinst
  <2>2. CASE Unpack
    BY <2>2 DEF Unpack
  <2>3. CASE ConfigureUnit
    BY <2>3 DEF ConfigureUnit
  <2>4. CASE ChooseVerb
    BY <2>4 DEF ChooseVerb, Enabled
  <2>5. CASE RunVerb
    BY <2>5 DEF RunVerb, Invoke, Starts
  <2>6. CASE CheckActive
    BY <2>6 DEF CheckActive
  <2>7. CASE WaitForApi
    BY <2>7 DEF WaitForApi
  <2>8. CASE UpdateAll
    BY <2>8 DEF UpdateAll
  <2>9. CASE Reconcile
    BY <2>9 DEF Reconcile
  <2>10. CASE Finish
    BY <2>10 DEF Finish
  <2> QED
    BY <1>2, <2>1, <2>2, <2>3, <2>4, <2>5, <2>6, <2>7, <2>8, <2>9, <2>10 DEF Script
<1>3. CASE Remove
  BY <1>3 DEF Remove
<1>4. CASE Purge
  BY <1>4 DEF Purge
<1>5. CASE Environment
  <2>1. CASE \E on \in BOOLEAN : Decide(on)
    BY <2>1 DEF Decide
  <2>2. CASE Mask \/ Start \/ Stop \/ Answers
    BY <2>2 DEF Mask, Start, Stop, Answers
  <2>3. CASE ServiceFails \/ PowerLoss
    BY <2>3 DEF ServiceFails, PowerLoss
  <2>4. CASE Boot
    BY <2>4 DEF Boot
  <2> QED BY <1>5, <2>1, <2>2, <2>3, <2>4 DEF Environment
<1> QED BY <1>1, <1>2, <1>3, <1>4, <1>5 DEF Next

\* Unless policy-rc.d keeps the package from the service, no process of an
\* earlier version survives a configure.
THEOREM NewCodeAfterConfigure ==
  ASSUME "policy" \notin Hazards
  PROVE  Spec => []NewCodeRuns
<1>1. Init => Current
  BY DEF Init, Current, NoJob, Restarted
<1>2. TypeOK /\ Decision /\ Current /\ [Next]_vars => Current'
  <2>1. ASSUME Current, UNCHANGED vars PROVE Current'
    BY <2>1 DEF vars, Current
  <2> QED BY <2>1, CurrentStep DEF Decision
<1>3. TypeOK /\ Decision /\ [Next]_vars => Decision'
  <2>1. ASSUME Decision, UNCHANGED vars PROVE Decision'
    BY <2>1 DEF vars, Decision, DecisionKept, Places, Recorded
  <2> QED BY <2>1, ScriptDecision, RestDecision DEF Next
<1>4. Current => NewCodeRuns
  BY DEF Current, NewCodeRuns
<1> QED BY InitDecision, PackageTypeCorrect, <1>1, <1>2, <1>3, <1>4, PTL DEF Spec

-----------------------------------------------------------------------------
(* Switched off, and the instances an upgrade lifts.                       *)

LEMMA DecisionInvariant == Spec => []Decision
<1>1. TypeOK /\ Decision /\ [Next]_vars => Decision'
  <2>1. ASSUME Decision, UNCHANGED vars PROVE Decision'
    BY <2>1 DEF vars, Decision, DecisionKept, Places, Recorded
  <2> QED BY <2>1, ScriptDecision, RestDecision DEF Next
<1> QED BY InitDecision, PackageTypeCorrect, <1>1, PTL DEF Spec

LEMMA CurrentInvariant ==
  ASSUME "policy" \notin Hazards
  PROVE  Spec => []Current
<1>1. Init => Current
  BY DEF Init, Current, NoJob, Restarted
<1>2. TypeOK /\ Decision /\ Current /\ [Next]_vars => Current'
  <2>1. ASSUME Current, UNCHANGED vars PROVE Current'
    BY <2>1 DEF vars, Current
  <2> QED BY <2>1, CurrentStep DEF Decision
<1> QED BY DecisionInvariant, PackageTypeCorrect, <1>1, <1>2, PTL DEF Spec

OffStep == (choice = "off" \/ masked) /\ service = 0 /\ service' # 0 => Start

LEMMA OffNext == TypeOK /\ Decision /\ [Next]_vars => [OffStep]_vars
<1> SUFFICES ASSUME TypeOK, Decision, Next, choice = "off" \/ masked, service = 0, service' # 0
             PROVE  Start
  BY DEF OffStep
<1>1. ~Enabled
  BY DEF Decision, DecisionKept, Enabled
<1>2. CASE Script
  <2>1. ~RunVerb
    BY <1>1 DEF RunVerb, Invoke, Starts
  <2> QED BY <1>2, <2>1 DEF Script, Preinst, Unpack, ConfigureUnit, ChooseVerb, CheckActive,
    WaitForApi, UpdateAll, Reconcile, Finish
<1>3. CASE Environment
  BY <1>1, <1>3 DEF Environment, Decide, Mask, Stop, Answers, ServiceFails, PowerLoss, Boot, Runs
<1>4. CASE Dpkg \/ Remove \/ Purge
  BY <1>4 DEF Dpkg, Remove, Purge, Runs
<1> QED BY <1>2, <1>3, <1>4 DEF Next

\* A service that is masked, or switched off and stopped, comes up again by the
\* admin's own start alone: no script, no boot, no restart of the unit.
THEOREM OffUntilStarted == Spec => OffStaysOff
<1>1. OffStaysOff <=> [][OffStep]_vars
  BY PTL DEF OffStaysOff, OffStep
<1> QED BY <1>1, OffNext, DecisionInvariant, PackageTypeCorrect, PTL DEF Spec

\* What the batches of a configure have behind them, unless apt showed a line;
\* a script brings a version with these rules, and those have the mount.
Lifted ==
  /\ job.at # "none" => job.to >= Keeps
  /\ job.at \in {"helper"} \cup Handled => ver >= Keeps
  /\ job.at \in {"reconcile", "end"} /\ up /\ from # 0 /\ ~told =>
       \A i \in Instances :
         /\ inst[i].image = Pin[ver]
         /\ job.at = "end" /\ from < Mounts => inst[i].mount

LEMMA LiftedStep ==
  ASSUME TypeOK, Places, Current, Lifted, Next
  PROVE  Lifted'
<1> USE DEF TypeOK, DpkgTypeOK, FlagsTypeOK, NoJob, Steps, Handled
<1>1. CASE Dpkg
  BY <1>1 DEF Dpkg, Idle, Upgrade, Install, Configure, Lifted
<1>2. CASE Preinst \/ Unpack \/ ConfigureUnit \/ ChooseVerb
  BY <1>2 DEF Preinst, Unpack, ConfigureUnit, ChooseVerb, At, Goto, Lifted
<1>3. CASE RunVerb \/ CheckActive \/ WaitForApi
  BY <1>3 DEF RunVerb, CheckActive, WaitForApi, At, Goto, Lifted
<1>4. CASE UpdateAll
  <2>1. /\ job.at = "updateAll" /\ UNCHANGED <<ver, from, up>>
        /\ job' = [job EXCEPT !.at = IF from < Mounts THEN "reconcile" ELSE "end"]
    BY <1>4 DEF UpdateAll, At, Goto
  <2>2. job'.to = job.to /\ job'.at \in {"reconcile", "end"} /\ (job'.at = "end" => ~(from < Mounts))
    BY <2>1
  <2>3. ASSUME ~told' PROVE \A i \in Instances : inst'[i].image = Pin[ver]
    <3> DEFINE v == IF service = 0 THEN ver ELSE service
               lifted == [image |-> Pin[v], mount |-> v >= Mounts]
    <3>1. PICK done : /\ inst' = [i \in Instances |-> IF i \in done THEN lifted ELSE inst[i]]
                      /\ told' = (told \/ done # Behind(v) \/ service = 0 \/ ~ready)
      BY <1>4 DEF UpdateAll, Batch
    <3>2. done = Behind(v) /\ v = ver
      BY <2>1, <2>3, <3>1 DEF Current, Restarted
    <3> HIDE DEF v
    <3>3. lifted.image = Pin[ver]
      BY <3>2
    <3> HIDE DEF lifted
    <3> QED BY <3>1, <3>2, <3>3 DEF Behind
  <2> QED BY <2>1, <2>2, <2>3 DEF Lifted
<1>5. CASE Reconcile
  <2>1. /\ job.at = "reconcile" /\ UNCHANGED <<ver, from, up>>
        /\ job' = [job EXCEPT !.at = "end"]
    BY <1>5 DEF Reconcile, At, Goto
  <2>2. PICK done :
          /\ inst' = [i \in Instances |->
                        IF i \in done THEN [inst[i] EXCEPT !.mount = TRUE] ELSE inst[i]]
          /\ told' = (told \/ service = 0 \/ ~ready \/ (service >= Mounts /\ done # Unmounted))
    BY <1>5 DEF Reconcile
  <2>3. ASSUME ~told'
        PROVE  /\ ~told /\ done = Unmounted
               /\ \A i \in Instances : inst'[i].image = inst[i].image /\ inst'[i].mount
    <3>1. service # 0 /\ service \in {0, ver}
      BY <2>1, <2>2, <2>3 DEF Current, Restarted
    <3>2. ver >= Mounts
      BY <2>1, PackageAssumption DEF Lifted, Versions
    <3>3. ~told /\ done = Unmounted
      BY <2>2, <2>3, <3>1, <3>2
    <3>4. ASSUME NEW i \in Instances
          PROVE  inst'[i].image = inst[i].image /\ inst'[i].mount
      <4>1. inst[i] \in [image : {Pin[v] : v \in Versions}, mount : BOOLEAN]
        BY DEF InstancesTypeOK
      <4>2. CASE i \in done
        BY <2>2, <4>1, <4>2
      <4>3. CASE i \notin done
        BY <2>2, <3>3, <4>3 DEF Unmounted
      <4> QED BY <4>2, <4>3
    <3> QED BY <3>3, <3>4
  <2>4. job'.at = "end" /\ job'.to = job.to
    BY <2>1
  <2> QED BY <2>1, <2>3, <2>4 DEF Lifted
<1>6. CASE Finish \/ Remove \/ Purge
  BY <1>6 DEF Finish, Remove, Purge, Idle, Lifted
<1>7. CASE Environment
  BY <1>7 DEF Environment, Decide, Mask, Start, Stop, Answers, ServiceFails, PowerLoss, Boot,
    Idle, Lifted
<1> QED BY <1>1, <1>2, <1>3, <1>4, <1>5, <1>6, <1>7 DEF Next, Script

\* An upgrade of a running system that says nothing has put every instance on
\* its own image, and every container that lacked it on the lists mount.
THEOREM SilentMeansLifted ==
  ASSUME "policy" \notin Hazards
  PROVE  Spec => LiftedOrTold
<1> DEFINE Told == (job.at = "end" /\ Idle' /\ up /\ from # 0 /\ ~told) =>
              \A i \in Instances : /\ inst[i].image = Pin[ver]
                                   /\ from < Mounts => inst[i].mount
<1>1. Init => Lifted
  BY DEF Init, Lifted, NoJob, Handled
<1>2. TypeOK /\ Decision /\ Current /\ Lifted /\ [Next]_vars => Lifted'
  <2>1. ASSUME Lifted, UNCHANGED vars PROVE Lifted'
    BY <2>1 DEF vars, Lifted
  <2> QED BY <2>1, LiftedStep DEF Decision
<1>3. Lifted /\ [Next]_vars => [Told]_vars
  BY DEF Lifted
<1>4. LiftedOrTold <=> [][Told]_vars
  BY PTL DEF LiftedOrTold
<1> QED BY <1>1, <1>2, <1>3, <1>4, CurrentInvariant, DecisionInvariant, PackageTypeCorrect, PTL
    DEF Spec
=============================================================================
