----------------------------- MODULE MCScatterbox -----------------------------
(* Instances of Scatterbox for TLC.  The manifests are given by chunk name;   *)
(* a run has the chunks its set Chunk lists.                                   *)
EXTENDS Scatterbox

CONSTANTS f1, f2, c1, c2, c3

MCFileOf == [c \in Chunk |-> IF c = c3 THEN f2 ELSE f1]
MCSeqOf == [c \in Chunk |-> IF c = c2 THEN 1 ELSE 0]
SamePath == [f \in File |-> "/a"]

(* Uploads and deletions without scrubs, for the runs whose question is what  *)
(* two processes, crashes and failing providers do to an upload.               *)
UploadsNext ==
    \/ \E w \in Worker : PutStep(w) \/ RemoveStep(w) \/ Crash(w)
    \/ Environment
UploadsSpec == Init /\ [][UploadsNext]_vars
=============================================================================
