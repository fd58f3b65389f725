--------------------------- MODULE PackageService ---------------------------
(***************************************************************************)
(* The package and its service: the maintainer scripts under dpkg, the     *)
(* unit's enable link and mask, the record deb-systemd-helper keeps, the    *)
(* process, and the images of the instances an upgrade lifts.  An admin     *)
(* acts and the power fails between any two steps of a script; a host that  *)
(* is not `up' is also one whose disk is worked on in a chroot.             *)
(*                                                                         *)
(* Up to the version before Keeps no record was kept; those versions are    *)
(* the state they leave (Init), their scripts are not modelled.  What       *)
(* update-all and reconcile do inside the service is in ControlPlane.       *)
(***************************************************************************)
EXTENDS Naturals

CONSTANTS
  Last,      \* versions are 1..Last
  Keeps,     \* the first one with these scripts (7.3.7)
  Mounts,    \* the first one whose containers have the lists mount (7.3.1)
  Pin,       \* the default image of each version
  Instances,
  Hazards    \* "policy": policy-rc.d denies; "fault": a service fails to start

Versions == 1..Last

ASSUME PackageAssumption ==
  /\ Last \in Nat /\ Keeps \in Versions /\ Mounts \in 1..Keeps
  /\ DOMAIN Pin = Versions

VARIABLES
  pkg,     \* "purged", "removed" (config-files), "unpacked" or "installed"
  ver,     \* the version on the disk
  from,    \* the most recently configured version ($2), 0 for none
  job,     \* the step dpkg's script is at, and the version it brings
  link,    \* the unit is enabled by a link in /etc
  masked,
  record,  \* deb-systemd-helper has a record of the link
  up,      \* systemd runs
  service, \* the version of the running process, 0 for none
  ready,   \* the API answers
  inst,    \* each instance's image and whether its container has the mount
  told,    \* apt showed a line about the instances
  choice   \* history: the admin's last word, "on" or "off", or "none"

vars == <<pkg, ver, from, job, link, masked, record, up, service, ready, inst, told, choice>>
unit == <<link, masked, record>>
process == <<service, ready>>
history == <<told, choice>>

NoJob == [at |-> "none", to |-> 0]
Steps == {"preinst", "unpack", "helper", "verb", "restart", "start", "tryRestart",
          "active", "wait", "updateAll", "reconcile", "end"}
Enabled == link /\ ~masked
UnitOnDisk == pkg \in {"unpacked", "installed"}
Goto(s) == job' = [job EXCEPT !.at = s]
At(s, s2) == job.at = s /\ Goto(s2)

DpkgTypeOK ==
  /\ pkg \in {"purged", "removed", "unpacked", "installed"}
  /\ ver \in Versions /\ from \in 0..Last /\ service \in 0..Last
  /\ job \in {NoJob} \cup [at : Steps, to : Versions]
FlagsTypeOK ==
  /\ link \in BOOLEAN /\ masked \in BOOLEAN /\ record \in BOOLEAN
  /\ up \in BOOLEAN /\ ready \in BOOLEAN /\ told \in BOOLEAN
  /\ choice \in {"none", "on", "off"}
InstancesTypeOK ==
  inst \in [Instances -> [image : {Pin[v] : v \in Versions}, mount : BOOLEAN]]
TypeOK == DpkgTypeOK /\ FlagsTypeOK /\ InstancesTypeOK

\* A server an older version left, or one that never had the package.  The
\* link an old version made or did not make offline is nobody's decision.
Init ==
  /\ pkg \in {"purged", "removed", "installed"}
  /\ ver \in 1..(Keeps - 1)
  /\ from = IF pkg = "purged" THEN 0 ELSE ver
  /\ job = NoJob /\ record = FALSE /\ up \in BOOLEAN
  /\ link \in IF pkg = "installed" THEN BOOLEAN ELSE {FALSE}
  /\ masked \in IF pkg = "installed" THEN BOOLEAN ELSE {FALSE}
  /\ service \in IF pkg = "installed" /\ up THEN {0, ver} ELSE {0}
  /\ ready = (service # 0)
  /\ inst \in [Instances -> {[image |-> Pin[ver], mount |-> ver >= Mounts]}]
  /\ told = FALSE
  /\ choice \in IF pkg # "installed" THEN {"none"}
               ELSE IF link THEN {"none", "on"} ELSE {"none", "off"}

-----------------------------------------------------------------------------
(* deb-systemd-helper and deb-systemd-invoke (external).                   *)

\* was-enabled: every recorded link exists; true when none is recorded.
WasEnabled == record => link
\* enable: makes a link only the first time it records it.
HelperEnable == record' = TRUE /\ link' = (link \/ ~record) /\ UNCHANGED masked
HelperUpdateState == record' = TRUE /\ UNCHANGED <<link, masked>>

\* A started process reads the code on the disk; the start may fail.
Runs(v) == service' = v /\ ready' = FALSE
Launch == Runs(ver) \/ ("fault" \in Hazards /\ Runs(0))
\* restart and start fail on a masked unit, and skip a disabled one that is down.
Starts(verb) ==
  /\ service # 0 \/ (verb # "tryRestart" /\ Enabled)
  /\ verb = "start" => service = 0
  /\ verb = "restart" => ~masked
\* Mutant: systemctl without regard to the admin's decision.
InvokeAlways(verb) == Launch

Invoke(verb) ==
  \/ Starts(verb) /\ Launch
  \/ ~Starts(verb) /\ UNCHANGED process
  \/ "policy" \in Hazards /\ UNCHANGED process

-----------------------------------------------------------------------------
(* dpkg: what starts a script.                                             *)

Idle == job = NoJob
Upgrade(v) ==
  /\ pkg = "installed" /\ v >= ver
  /\ job' = [at |-> "preinst", to |-> v]
  /\ UNCHANGED <<pkg, ver>>
Install(v) ==
  /\ pkg \in {"purged", "removed"}
  /\ job' = [at |-> "unpack", to |-> v]
  /\ UNCHANGED <<pkg, ver>>
\* dpkg --configure -a after a script was cut off, or dpkg-reconfigure.
Configure ==
  /\ UnitOnDisk /\ ver >= Keeps
  /\ job' = [at |-> "helper", to |-> ver]
  /\ pkg' = "unpacked" /\ UNCHANGED ver

Dpkg ==
  /\ Idle
  /\ \/ \E v \in Keeps..Last : Upgrade(v) \/ Install(v)
     \/ Configure
  /\ told' = FALSE
  /\ UNCHANGED <<from, unit, up, process, inst, choice>>

\* prerm remove: stop, and nothing else.
Remove ==
  /\ Idle /\ pkg = "installed" /\ ver >= Keeps
  /\ pkg' = "removed"
  /\ IF up /\ "policy" \notin Hazards THEN Runs(0) ELSE UNCHANGED process
  /\ UNCHANGED <<ver, from, job, unit, up, inst, history>>

\* postrm purge: the decision is forgotten with its record.
Purge ==
  /\ Idle /\ pkg = "removed"
  /\ pkg' = "purged" /\ from' = 0
  /\ link' = FALSE /\ record' = FALSE /\ choice' = "none"
  /\ UNCHANGED <<ver, job, masked, up, process, inst, told>>

-----------------------------------------------------------------------------
(* preinst, unpack, postinst configure.                                    *)

\* Mutant: no transition from the versions without a record.
PreinstSkips ==
  /\ At("preinst", "unpack")
  /\ choice' = IF record \/ Enabled \/ up THEN choice ELSE "none"
  /\ UNCHANGED <<pkg, ver, from, unit, up, process, inst, told>>

\* The first upgrade to these rules takes over the state the unit is in;
\* offline, a missing link is taken for no decision (operations.md:297).
Preinst ==
  /\ At("preinst", "unpack")
  /\ IF record THEN UNCHANGED <<unit, choice>>
     ELSE IF Enabled THEN HelperEnable /\ UNCHANGED choice
     ELSE IF up THEN HelperUpdateState /\ choice' = IF link THEN choice ELSE "off"
     ELSE UNCHANGED unit /\ choice' = IF link THEN choice ELSE "none"
  /\ UNCHANGED <<pkg, ver, from, up, process, inst, told>>

Unpack ==
  /\ At("unpack", "helper")
  /\ pkg' = "unpacked" /\ ver' = job.to
  /\ UNCHANGED <<from, unit, up, process, inst, history>>

ConfigureUnit ==
  /\ At("helper", IF up THEN "verb" ELSE "end")
  /\ IF WasEnabled THEN HelperEnable ELSE HelperUpdateState
  /\ UNCHANGED <<pkg, ver, from, up, process, inst, history>>

\* Mutant: only an enabled service gets the new code.
ChooseVerbEnabledOnly ==
  /\ At("verb", IF Enabled THEN IF from # 0 THEN "restart" ELSE "start" ELSE "active")
  /\ UNCHANGED <<pkg, ver, from, unit, up, process, inst, history>>

ChooseVerb ==
  /\ At("verb", IF ~Enabled THEN "tryRestart" ELSE IF from # 0 THEN "restart" ELSE "start")
  /\ UNCHANGED <<pkg, ver, from, unit, up, process, inst, history>>

RunVerb ==
  /\ job.at \in {"restart", "start", "tryRestart"}
  /\ Goto("active") /\ Invoke(job.at)
  /\ UNCHANGED <<pkg, ver, from, unit, up, inst, history>>

\* is-active; a service that is off is not started for the instances.
CheckActive ==
  /\ At("active", IF from # 0 /\ service # 0 THEN "wait" ELSE "end")
  /\ told' = (from # 0 /\ service = 0)
  /\ UNCHANGED <<pkg, ver, from, unit, up, process, inst, choice>>

\* Thirty tries of `lmnsquid health', then on in any case.
WaitForApi ==
  /\ At("wait", "updateAll")
  /\ UNCHANGED <<pkg, ver, from, unit, up, process, inst, history>>

\* Mutant: the failures go to the journal only.
BatchQuiet(S, lifted) ==
  /\ \E done \in SUBSET S :
       inst' = [i \in Instances |-> IF i \in done THEN lifted ELSE inst[i]]
  /\ UNCHANGED told

\* A batch of the running service lifts some of S; the exit status tells of
\* the others.  A service that is gone or late takes none.
Batch(S, lifted) ==
  \E done \in IF service # 0 /\ ready THEN SUBSET S ELSE {{}} :
    /\ inst' = [i \in Instances |-> IF i \in done THEN lifted ELSE inst[i]]
    /\ told' = (told \/ done # S \/ service = 0 \/ ~ready)

Behind(v) == {i \in Instances : inst[i].image # Pin[v]}
Unmounted == {i \in Instances : ~inst[i].mount}
UpdateAll ==
  /\ At("updateAll", IF from < Mounts THEN "reconcile" ELSE "end")
  /\ LET v == IF service = 0 THEN ver ELSE service IN
     Batch(Behind(v), [image |-> Pin[v], mount |-> v >= Mounts])
  /\ UNCHANGED <<pkg, ver, from, unit, up, process, choice>>

\* A container made before Mounts is replaced on the image it has.
Reconcile ==
  /\ At("reconcile", "end")
  /\ \E done \in IF service >= Mounts /\ ready THEN SUBSET Unmounted ELSE {{}} :
       /\ inst' = [i \in Instances |->
                     IF i \in done THEN [inst[i] EXCEPT !.mount = TRUE] ELSE inst[i]]
       /\ told' = (told \/ service = 0 \/ ~ready
                        \/ (service >= Mounts /\ done # Unmounted))
  /\ UNCHANGED <<pkg, ver, from, unit, up, process, choice>>

Finish ==
  /\ job.at = "end" /\ job' = NoJob
  /\ pkg' = "installed" /\ from' = ver
  /\ UNCHANGED <<ver, unit, up, process, inst, history>>

Script ==
  \/ Preinst \/ Unpack \/ ConfigureUnit \/ ChooseVerb \/ RunVerb
  \/ CheckActive \/ WaitForApi \/ UpdateAll \/ Reconcile \/ Finish
-----------------------------------------------------------------------------
(* The admin, systemd, the power.                                          *)

\* systemctl enable / disable, where there is a decision to change.
Decide(on) ==
  /\ record \/ (pkg = "installed" /\ Idle)
  /\ UnitOnDisk /\ ~masked
  /\ link' = on /\ choice' = IF on THEN "on" ELSE "off"
  /\ UNCHANGED <<pkg, ver, from, job, masked, record, up, process, inst, told>>
\* A mask between is-enabled and the restart (some milliseconds) is left out.
Mask ==
  /\ UnitOnDisk /\ job.at # "restart" /\ masked' = ~masked
  /\ UNCHANGED <<pkg, ver, from, job, link, record, up, process, inst, history>>
Start ==
  /\ up /\ UnitOnDisk /\ ~masked /\ service = 0 /\ Launch
  /\ UNCHANGED <<pkg, ver, from, job, unit, up, inst, history>>
Stop ==
  /\ service # 0 /\ Runs(0)
  /\ UNCHANGED <<pkg, ver, from, job, unit, up, inst, history>>
Answers ==
  /\ service # 0 /\ ready' = TRUE
  /\ UNCHANGED <<pkg, ver, from, job, unit, up, service, inst, history>>
\* Restart=on-failure: the process that comes back has the code on the disk.
ServiceFails ==
  /\ service # 0 /\ UnitOnDisk /\ Runs(ver)
  /\ UNCHANGED <<pkg, ver, from, job, unit, up, inst, history>>
PowerLoss ==
  /\ up' = FALSE /\ Runs(0) /\ job' = NoJob
  /\ UNCHANGED <<pkg, ver, from, unit, inst, history>>
Boot ==
  /\ ~up /\ Idle /\ up' = TRUE
  /\ Runs(IF Enabled /\ UnitOnDisk THEN ver ELSE 0)
  /\ UNCHANGED <<pkg, ver, from, job, unit, inst, history>>

Environment ==
  \/ \E on \in BOOLEAN : Decide(on)
  \/ Mask \/ Start \/ Stop \/ Answers \/ ServiceFails \/ PowerLoss \/ Boot

Next == Dpkg \/ Remove \/ Purge \/ Script \/ Environment

Spec == Init /\ [][Next]_vars
-----------------------------------------------------------------------------
(* Properties.                                                             *)

\* `systemctl disable' and `enable' survive every upgrade, reinstallation and
\* reconfiguration, cut off or not, from the versions without a record too;
\* and where nobody decided anything, an installation enables (postinst:116).
DecisionKept ==
  /\ choice = "off" => ~link
  /\ choice = "on" => link
  /\ choice = "none" /\ pkg = "installed" /\ ver >= Keeps => link

\* A service the admin switched off and stopped is started by the admin only:
\* not by a script, not by the unit's restart, not by a boot.
OffStaysOff ==
  [][(choice = "off" \/ masked) /\ service = 0 /\ service' # 0 => Start]_vars

\* After a configure no process runs the code of an earlier version, whatever
\* was enabled, masked or stopped meanwhile (postinst:135-139).
NewCodeRuns == pkg = "installed" /\ Idle /\ service # 0 => service = ver

\* An upgrade on a running system that prints nothing has put every instance
\* on its own image, and every container from before the lists mount on it.
LiftedOrTold ==
  [][(job.at = "end" /\ Idle' /\ up /\ from # 0 /\ ~told) =>
       \A i \in Instances :
         /\ inst[i].image = Pin[ver]
         /\ from < Mounts => inst[i].mount]_vars
=============================================================================
