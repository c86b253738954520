----------------------------- MODULE MCCredentials -----------------------------
(***************************************************************************)
(* Instances of Credentials for TLC.                                       *)
(***************************************************************************)
EXTENDS Credentials, TLC

CONSTANTS n1, n2, t1, t2, t3

Threads == Permutations({t1, t2})
================================================================================
