------------------------------- MODULE MCRequests -------------------------------
(***************************************************************************)
(* Instances of Requests for TLC.                                          *)
(***************************************************************************)
EXTENDS Requests

CONSTANTS t1, t2
=================================================================================
