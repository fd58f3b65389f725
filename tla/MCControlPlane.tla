--------------------------- MODULE MCControlPlane ---------------------------
(***************************************************************************)
(* Values of the constants of ControlPlane for TLC.  Container ids are     *)
(* interchangeable, so the daemon handing out the smallest free one loses  *)
(* no behaviour up to a renaming of ids.                                   *)
(***************************************************************************)
EXTENDS ControlPlaneRefinement

CONSTANTS good, good2, bad, open, p1, p2  \* images and ports

Smallest(S) == {x \in S : \A y \in S : x <= y}
MCFirstId == [i \in Instances |-> i]

OwnPort == [i \in Instances |-> IF i = 1 THEN {p1} ELSE {p2}]
=============================================================================
