---------------------------- MODULE Replacement ----------------------------
(***************************************************************************)
(* What the control plane promises of an instance's container: at every    *)
(* moment one definition is live (a container made from it passed its      *)
(* health gate and was not given up), and the live definition changes only *)
(* in one step, to the one that is wanted.  It goes only when the instance *)
(* is being removed.                                                       *)
(***************************************************************************)
CONSTANTS Instances, Defs, Unreadable, None

VARIABLES
  want,    \* the stored definition
  live,    \* the definition of the container to fall back on
  leaving  \* instances being removed

vars == <<want, live, leaving>>

Init ==
  /\ want \in [Instances -> Defs \cup {None}]
  /\ live = want
  /\ leaving = {}

Define(i) ==
  /\ i \notin leaving
  /\ \E d \in Defs \cup {Unreadable} : want' = [want EXCEPT ![i] = d]
  /\ UNCHANGED <<live, leaving>>

\* The whole replacement, seen from outside.
Switch(i) ==
  /\ i \notin leaving /\ want[i] \in Defs
  /\ live' = [live EXCEPT ![i] = want[i]]
  /\ UNCHANGED <<want, leaving>>

Leave(i) ==
  /\ want[i] \in Defs
  /\ leaving' = leaving \cup {i}
  /\ UNCHANGED <<want, live>>

Drop(i) ==
  /\ i \in leaving
  /\ live' = [live EXCEPT ![i] = None]
  /\ UNCHANGED <<want, leaving>>

Forget(i) ==
  /\ i \in leaving /\ live[i] = None
  /\ want' = [want EXCEPT ![i] = None]
  /\ leaving' = leaving \ {i}
  /\ UNCHANGED live

Next == \E i \in Instances : Define(i) \/ Switch(i) \/ Leave(i) \/ Drop(i) \/ Forget(i)

Spec == Init /\ [][Next]_vars
=============================================================================
