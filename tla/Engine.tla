------------------------------- MODULE Engine -------------------------------
(***************************************************************************)
(* The Docker Engine as the control plane uses it (external: modelled from *)
(* the calls docker_service.py makes and the answers it handles).          *)
(*                                                                         *)
(* A container is reached through an id (a docker-py object); its name is  *)
(* a slot of its instance: "main" is lmnsquid-<name>, "new" and "old" are  *)
(* the .new and .old names of a replacement.  Names are unique and can be  *)
(* re-bound, so an id looked up by one request may be renamed or removed   *)
(* by another before it is used.                                           *)
(*                                                                         *)
(* A definition is reduced to what the properties tell apart: the image    *)
(* and the host port; a container is labelled with the definition it was   *)
(* created from (the fingerprint is taken as injective).                   *)
(***************************************************************************)
EXTENDS Naturals, FiniteSets

CONSTANTS
  Instances,  \* instance names, numbered in their sorting order
  Images,     \* image references
  Ports,      \* host ports
  CanPass,    \* images whose HEALTHCHECK may report healthy
  CanFail,    \* images that may report unhealthy, never answer, or exit
  Unchecked,  \* images without a HEALTHCHECK
  Ids,        \* container ids
  Pick(_),    \* which of the free ids the daemon hands out next
  Hazards,    \* what the environment may do: subset of AllHazards
  None        \* no container, no definition, no instance

AllHazards == {"fault", "abort", "crash", "reboot", "killed"}

ASSUME InstancesAssumption == Instances \subseteq Nat
ASSUME ImagesAssumption ==
  /\ CanPass \subseteq Images /\ CanFail \subseteq Images
  /\ Unchecked \subseteq Images /\ Hazards \subseteq AllHazards
ASSUME PickAssumption ==
  \A S \in SUBSET Ids : Pick(S) \subseteq S /\ (S # {} => Pick(S) # {})
ASSUME NoneAssumption == None \notin Ids /\ None \notin [image : Images, port : Ports]

VARIABLES
  cont,  \* the existing containers: id -> container
  vols   \* the named volumes of each instance

engineVars == <<cont, vols>>

Def == [image : Images, port : Ports]
Volumes == {"cache", "logs"}
Container ==
  [inst : Instances, slot : {"main", "new", "old"}, def : Def,
   state : {"created", "running", "exited"},
   health : {"none", "starting", "healthy", "unhealthy"},
   manual : BOOLEAN,    \* stopped by an API call: no restart by policy
   accepted : BOOLEAN]  \* history: it passed a health gate of ensure_running

EngineTypeOK ==
  /\ DOMAIN cont \subseteq Ids
  /\ \A x \in DOMAIN cont : cont[x] \in Container
  /\ vols \in [Instances -> SUBSET Volumes]

Exists(x) == x \in DOMAIN cont
Named(i, s) == {x \in DOMAIN cont : cont[x].inst = i /\ cont[x].slot = s}
Of(i) == {x \in DOMAIN cont : cont[x].inst = i}
\* The answer of a lookup by name: the id, or None for NotFound.
Lookup(i, s) == IF Named(i, s) = {} THEN {None} ELSE Named(i, s)
Running(x) == Exists(x) /\ cont[x].state = "running"
PortFree(x) ==
  \A y \in DOMAIN cont \ {x} :
    cont[y].state = "running" => cont[y].def.port # cont[x].def.port

-----------------------------------------------------------------------------
(* Calls.  The guard says when the daemon accepts the call.                *)

New(i, d) ==
  [inst |-> i, slot |-> "new", def |-> d, state |-> "created",
   health |-> "none", manual |-> FALSE, accepted |-> FALSE]

Started(c) ==
  [c EXCEPT !.state = "running", !.manual = FALSE,
            !.health = IF c.def.image \in Unchecked THEN "none" ELSE "starting"]
Halted(c) == [c EXCEPT !.state = "exited", !.health = "none"]

\* containers.create: the name must be free; the named volumes come with it.
CreateOn(x, i, d) ==
  /\ cont' = [y \in DOMAIN cont \cup {x} |-> IF y = x THEN New(i, d) ELSE cont[y]]
  /\ vols' = [vols EXCEPT ![i] = Volumes]

RemoveContainer(x) == cont' = [y \in DOMAIN cont \ {x} |-> cont[y]]

CanRename(x, s) == Exists(x) /\ Named(cont[x].inst, s) = {}
RenameTo(x, s) == cont' = [cont EXCEPT ![x].slot = s]

\* Starting a running container answers "not modified".
CanStart(x) == Exists(x) /\ (cont[x].state = "running" \/ PortFree(x))
StartContainer(x) ==
  cont' = [cont EXCEPT ![x] = IF @.state = "running" THEN @ ELSE Started(@)]

\* Stopping a container that never ran is "not modified" too.  One that is
\* "exited" and not manual is down until its restart policy brings it back:
\* the daemon cancels that restart.
StopContainer(x) ==
  cont' = [cont EXCEPT ![x] = IF @.state = "created" THEN @
                              ELSE [Halted(@) EXCEPT !.manual = TRUE]]

-----------------------------------------------------------------------------
(* What the daemon and the containers do on their own.                     *)

Probe(x) ==
  /\ Running(x) /\ cont[x].def.image \notin Unchecked
  /\ \E h \in {"healthy", "unhealthy"} :
       /\ h = "healthy" => cont[x].def.image \in CanPass
       /\ h = "unhealthy" => cont[x].def.image \in CanFail
       /\ cont[x].health # h
       /\ cont' = [cont EXCEPT ![x].health = h]
  /\ UNCHANGED vols

Exit(x) ==
  /\ Running(x) /\ cont[x].def.image \in CanFail
  /\ cont' = [cont EXCEPT ![x] = Halted(@)]
  /\ UNCHANGED vols

\* restart policy unless-stopped (spec_for): not for a container that was
\* stopped by a call, and not for one that was never started.
PolicyRestart(x) ==
  /\ Exists(x) /\ cont[x].state = "exited" /\ ~cont[x].manual /\ PortFree(x)
  /\ cont' = [cont EXCEPT ![x] = Started(@)]
  /\ UNCHANGED vols

EngineNext == \E x \in DOMAIN cont : Probe(x) \/ Exit(x) \/ PolicyRestart(x)

\* The host goes down: every container stops, none of them by a call.
HostDown ==
  cont' = [x \in DOMAIN cont |->
             IF cont[x].state = "running" THEN Halted(cont[x]) ELSE cont[x]]
=============================================================================
