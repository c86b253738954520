------------------------------- MODULE MCRecovery -------------------------------
(***************************************************************************)
(* Instances of Recovery for TLC.                                          *)
(***************************************************************************)
EXTENDS Recovery, TLC

CONSTANTS f1, f2, pa, pb

Twins == Permutations({f1, f2}) \cup Permutations({pa, pb})
=================================================================================
