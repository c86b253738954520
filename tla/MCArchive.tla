-------------------------------- MODULE MCArchive --------------------------------
(***************************************************************************)
(* Instances of Archive for TLC.                                           *)
(***************************************************************************)
EXTENDS Archive

CONSTANTS a, b, p1, m1

H(tier, reliability, free, exact) ==
    [tier |-> tier, reliability |-> reliability, free |-> free, exact |-> exact, up |-> TRUE]

\* Four providers: one without limits, one reliable and nearly full, one slow
\* and one that is flaky; then the first is down.
MCFleet ==
    LET one == <<H("hot", 9, Unlimited, TRUE), H("hot", 10, 1, TRUE),
                 H("glacial", 9, 8, FALSE), H("warm", 5, 4, TRUE)>>
    IN  {one, [one EXCEPT ![1].up = FALSE, ![2].free = 2, ![2].exact = FALSE]}

\* One copy in each of three groups, packed; two shares, either of which is enough.
Packed == Over([replicas |-> 1, minSpread |-> 3, mode |-> "packed", excluded |-> {4}], Default)
Shares == Over([scheme |-> "ec", k |-> 1, n |-> 2], Default)

MCPutPath == {<<a, a>>, <<a, b>>, <<b>>}
MCSource == {<<a>>, <<a, b>>}
MCDestination == {<<b>>}
MCOverride == {[replicas |-> 1]}
MCFolderPolicy == {<<Root, Packed>>, <<(<<a>>), Shares>>}
================================================================================
