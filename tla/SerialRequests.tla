----------------------------- MODULE SerialRequests -----------------------------
(***************************************************************************)
(* What the daemon promises of the requests it queues: they are served in  *)
(* the order they were asked, each once, whatever crashes and restarts     *)
(* happen; only a deletion may be carried out again, and only before any   *)
(* later request is served.  Files may be renamed meanwhile.  A file is    *)
(* known by the upload that made it.                                       *)
(***************************************************************************)
EXTENDS Naturals, Sequences

CONSTANTS
    Request,        \* requests, each made at most once
    VPath,          \* virtual paths
    KindOf,         \* what a request asks for
    PathOf,         \* the path it names
    NoFile          \* nothing is stored at a path

VARIABLES
    asked,          \* the requests in the order they were queued
    handled,        \* the positions of those that have been served
    tree            \* what is stored at each path

vars == <<asked, handled, tree>>

Without(f) == [p \in VPath |-> IF tree[p] = f THEN NoFile ELSE tree[p]]

\* A request may fail; an upload stores its file at a free path; a deletion
\* removes one file.
Effect(r) ==
    \/ UNCHANGED tree
    \/ /\ KindOf[r] = "upload" /\ tree[PathOf[r]] = NoFile
       /\ tree' = [tree EXCEPT ![PathOf[r]] = r]
    \/ /\ KindOf[r] = "delete"
       /\ \E f \in Request : tree' = Without(f)

Ask(r) == asked' = Append(asked, r) /\ UNCHANGED <<handled, tree>>

Rename(src, dst) ==
    /\ tree[src] # NoFile /\ tree[dst] = NoFile
    /\ tree' = [tree EXCEPT ![dst] = tree[src], ![src] = NoFile]
    /\ UNCHANGED <<asked, handled>>

Handle(i) ==
    /\ i \notin handled
    /\ \A j \in DOMAIN asked : j < i => j \in handled
    /\ handled' = handled \cup {i}
    /\ Effect(asked[i])
    /\ UNCHANGED asked

DeleteAgain(i) ==
    /\ KindOf[asked[i]] = "delete"
    /\ i \in handled
    /\ \A j \in DOMAIN asked : j > i => j \notin handled
    /\ Effect(asked[i])
    /\ UNCHANGED <<asked, handled>>

Init ==
    /\ asked = <<>>
    /\ handled = {}
    /\ tree = [p \in VPath |-> NoFile]

Next ==
    \/ \E r \in Request : Ask(r)
    \/ \E src, dst \in VPath : Rename(src, dst)
    \/ \E i \in DOMAIN asked : Handle(i) \/ DeleteAgain(i)

Spec == Init /\ [][Next]_vars
=============================================================================
