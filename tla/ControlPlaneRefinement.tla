----------------------- MODULE ControlPlaneRefinement -----------------------
(***************************************************************************)
(* While no two requests are after one instance, the many steps of         *)
(* ensure_running are the one step of Replacement.  The live definition is *)
(* that of the accepted container under the instance's name or, while a    *)
(* replacement is tried, of the parked one.                                *)
(***************************************************************************)
EXTENDS ControlPlane

Accepted(i, s) == {x \in Named(i, s) : cont[x].accepted}
Live(i) ==
  LET S == IF Accepted(i, "main") # {} THEN Accepted(i, "main") ELSE Accepted(i, "old")
  IN IF S = {} THEN None ELSE cont[CHOOSE x \in S : TRUE].def

Promise == INSTANCE Replacement WITH
  Defs <- Def, Unreadable <- Torn,
  want <- yaml,
  live <- [i \in Instances |-> Live(i)],
  leaving <- {i \in Instances : Deleting(i)}

\* The detailed specification implements the promise: a replacement takes
\* effect in one step, at its health gate, or not at all.
AtomicReplacement == Promise!Spec
=============================================================================
