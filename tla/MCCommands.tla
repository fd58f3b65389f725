----------------------------- MODULE MCCommands -----------------------------
(***************************************************************************)
(* Commands with the values of the constants of MCControlPlane, and with   *)
(* the refinement.                                                         *)
(***************************************************************************)
EXTENDS Commands, MCControlPlane, TLC

\* How the last command ended matters to the step that ends it only.
View == <<vars, [w \in Workers |-> Waits(w)]>>
\* Images that pass and fail alike are interchangeable.
Symmetry == Permutations({good, good2})
=============================================================================
