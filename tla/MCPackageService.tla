-------------------------- MODULE MCPackageService --------------------------
(***************************************************************************)
(* Versions of PackageService for TLC: 1 is 7.3.0 (no lists mount, no       *)
(* record), 2 is 7.3.6 (mount, no record), 3 is 7.3.7 on the image 2 had,   *)
(* 4 a later version that moves the image.                                 *)
(***************************************************************************)
EXTENDS PackageService

CONSTANTS a, b, i1, i2

MCPin == <<a, a, a, b>>
=============================================================================
