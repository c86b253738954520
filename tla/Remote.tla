--------------------------------- MODULE Remote ---------------------------------
(***************************************************************************)
(* The providers, as the Provider protocol of providers/base.py promises   *)
(* them and chaos.py misbehaves them: every object may silently vanish or  *)
(* rot, and a call to a flaky provider may raise whatever it did.  An      *)
(* object is named by the chunk it stores, and put() overwrites, as in     *)
(* localfs.py and the other adapters whose ref is the object's path.       *)
(***************************************************************************)
EXTENDS Register

CONSTANTS
    Flaky,          \* providers whose calls may raise, or take too long
    MaxFaults       \* bound: objects damaged behind the program's back

ASSUME RemoteAssumption == Flaky \subseteq Provider /\ MaxFaults \in Nat

VARIABLES
    remote,         \* what is under the name of each chunk on each provider
    faults          \* damaged objects so far

remoteVars == <<remote, faults>>

Object == {"never", "intact", "corrupt", "gone"}

Exists(p, c) == remote[p][c] \in {"intact", "corrupt"}
Intact(p, c) == remote[p][c] = "intact"

\* The store after the puts (deletes) of these <<provider, chunk>> pairs.
WithPut(objs) ==
    [p \in Provider |-> [c \in Chunk |->
        IF <<p, c>> \in objs THEN "intact" ELSE remote[p][c]]]
WithDelete(p, c) ==
    IF remote[p][c] = "never" THEN remote ELSE [remote EXCEPT ![p][c] = "gone"]

Put(p, c) == remote' = WithPut({<<p, c>>}) /\ UNCHANGED faults

\* A call that raises may have been carried out or not.
PutRaises(p, c) ==
    /\ p \in Flaky
    /\ remote' \in {remote, WithPut({<<p, c>>})}
    /\ UNCHANGED faults

Delete(p, c) ==
    /\ remote' \in {WithDelete(p, c)} \cup (IF p \in Flaky THEN {remote} ELSE {})
    /\ UNCHANGED faults

\* exists() answers False, or get() does not return the right bytes.
ProbeCanFail(p, c) == p \in Flaky \/ ~Exists(p, c)
GetCanFail(p, c) == p \in Flaky \/ ~Intact(p, c)

\* A provider drops an object, or flips bytes in it, and says nothing.
Damage(p, c) ==
    /\ faults < MaxFaults
    /\ faults' = faults + 1
    /\ \/ Exists(p, c) /\ remote' = [remote EXCEPT ![p][c] = "gone"]
       \/ Intact(p, c) /\ remote' = [remote EXCEPT ![p][c] = "corrupt"]

RemoteInit ==
    /\ remote = [p \in Provider |-> [c \in Chunk |-> "never"]]
    /\ faults = 0

RemoteTypeOK ==
    /\ remote \in [Provider -> [Chunk -> Object]]
    /\ faults \in 0..MaxFaults
=============================================================================
