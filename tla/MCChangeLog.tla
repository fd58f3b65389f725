---------------------------- MODULE MCChangeLog ----------------------------
(***************************************************************************)
(* ChangeLog for TLC: neither definitions nor threads are told apart.      *)
(***************************************************************************)
EXTENDS ChangeLog, TLC

Symmetry == Permutations(Instances) \cup Permutations(Threads)
=============================================================================
