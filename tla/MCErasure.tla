------------------------------- MODULE MCErasure -------------------------------
(***************************************************************************)
(* Instances of Erasure for TLC.                                           *)
(***************************************************************************)
EXTENDS Erasure, TLC

CONSTANTS pa, pb, pc, pd, r1

\* Only pa and pd can be told from the others, by their removal: pa has a share
\* of the upload, pd is the one that is spare.
MCHomes == {{<<0, pa>>, <<1, pb>>, <<2, pc>>}}
================================================================================
