------------------------------ MODULE MCJobQueue ------------------------------
(* Instances of JobQueue for TLC: two uploads, a deletion and a scrub.        *)
EXTENDS JobQueue

CONSTANTS up1, up2, del, scr, a, b

MCKindOf == [r \in Request |-> IF r = del THEN "delete"
                               ELSE IF r = scr THEN "scrub" ELSE "upload"]
OnePath == [r \in Request |-> a]
=============================================================================
