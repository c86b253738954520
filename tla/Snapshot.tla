-------------------------------- MODULE Snapshot --------------------------------
(***************************************************************************)
(* Register snapshots (portability.py, the snapshotter of worker.py): the  *)
(* register is encrypted and put on the most reliable providers after      *)
(* changes, the vault records where, and the previous snapshot is pruned.  *)
(* A later restore knows only what the vault file records.  The daemon and *)
(* the command-line program each hold a copy of the vault in memory.       *)
(*                                                                         *)
(* A step goes from the answer of one provider call to the next call.      *)
(***************************************************************************)
EXTENDS Naturals, FiniteSets

CONSTANTS
    Provider,
    Duplicating,    \* those where a put always makes another object
    Flaky,          \* those whose calls may raise
    Adjustable,     \* those whose limits the user changes
    Daemon, Cli,    \* the two programs
    NoRegister, NoObject, Closed,
    OneVault,       \* no second copy of the vault is opened beside the first
    MinTargets,     \* SNAPSHOT_MIN_TARGETS
    MaxChanges,     \* bound: changes to the register
    MaxPuts,        \* bound: objects made by puts on the duplicating providers
    MaxStarts       \* bound: starts of the daemon

ASSUME SnapshotAssumption ==
    /\ IsFiniteSet(Provider)
    /\ Duplicating \subseteq Provider /\ Flaky \subseteq Provider
    /\ Adjustable \subseteq Provider
    /\ Daemon # Cli /\ OneVault \in BOOLEAN
    /\ {MinTargets, MaxChanges, MaxPuts, MaxStarts} \subseteq Nat

VARIABLES
    register,       \* register.db: the changes it has seen, the providers' limits
    remote,         \* at each provider, the object behind each reference
    recorded,       \* the locations in vault.json
    opened,         \* the locations in the daemon's copy of the vault, or Closed
    job,            \* where each program stands
    dirty,          \* the daemon's event: a change to be snapshotted
    puts, starts,   \* counters
    promised        \* history: the changes in the snapshot recorded last

vars == <<register, remote, recorded, opened, job, dirty, puts, starts, promised>>

Program == {Daemon, Cli}
Change == 1..MaxChanges
Limits == {0, 1}
Data == [changes : SUBSET Change, limits : [Provider -> Limits]]
Name == 0                       \* the one reference of SNAPSHOT_OBJECT_NAME
Ref == Name..MaxPuts
Location == [provider : Provider, limits : Limits, ref : Ref]
ASSUME AbsenceAssumption == NoRegister \notin Data /\ NoObject \notin Data

At(op) == [at |-> op]
Putting(d, todo, found, prev, own) ==
    [at |-> "putting", data |-> d, todo |-> todo, found |-> found, previous |-> prev, own |-> own]
Pruning(locs) == [at |-> "pruning", locs |-> locs]
Restoring(locs) == [at |-> "restoring", locs |-> locs]

JobType == {At(op) : op \in {"down", "idle", "settling"}}
             \cup [at : {"putting"}, data : Data, todo : SUBSET Provider,
                   found : SUBSET Location, previous : SUBSET Location, own : BOOLEAN]
             \cup [at : {"pruning", "restoring"}, locs : SUBSET Location]

Busy(w) == job[w].at \in {"putting", "pruning", "restoring"}
Become(w, j) == job' = [job EXCEPT ![w] = j]

There(p) == {r \in Ref : remote[p][r] # NoObject}

ObjectAt(loc) == remote[loc.provider][loc.ref]

(***************************************************************************)
(* Changes, locks, the daemon's life.                                      *)
(***************************************************************************)

\* A mutation of the register; only the daemon's own set its event.
NextChange == CHOOSE n \in Change : n \notin register.changes /\ \A m \in 1..(n - 1) : m \in register.changes

Mutate(w) ==
    /\ register # NoRegister /\ register.changes # Change
    /\ job[w].at # "down" /\ (w = Cli => job[w].at = "idle")
    /\ register' = [register EXCEPT !.changes = @ \cup {NextChange}]
    /\ dirty' = IF w = Daemon THEN TRUE ELSE dirty
    /\ UNCHANGED <<remote, recorded, opened, job, puts, starts, promised>>

\* provider set: other limits, in the configuration that locations carry too.
Adjust(p) ==
    /\ register # NoRegister /\ p \in Adjustable /\ job[Cli].at = "idle"
    /\ register' = [register EXCEPT !.limits[p] = 1 - @]
    /\ UNCHANGED <<remote, recorded, opened, job, dirty, puts, starts, promised>>

Start ==
    /\ job[Daemon].at = "down" /\ register # NoRegister /\ ~Busy(Cli)
    /\ starts < MaxStarts
    /\ starts' = starts + 1
    /\ Become(Daemon, At("idle"))
    /\ dirty' = FALSE /\ opened' = Closed
    /\ UNCHANGED <<register, remote, recorded, puts, promised>>

\* A crash or a shutdown, which cancels the snapshotter at its await.
Stop ==
    /\ job[Daemon].at # "down"
    /\ Become(Daemon, At("down"))
    /\ dirty' = FALSE /\ opened' = Closed
    /\ UNCHANGED <<register, remote, recorded, puts, starts, promised>>

Unlock ==
    /\ job[Daemon].at # "down" /\ opened = Closed
    /\ OneVault => ~Busy(Cli) /\ ~Busy(Daemon)
    /\ opened' = recorded
    /\ UNCHANGED <<register, remote, recorded, job, dirty, puts, starts, promised>>

\* A snapshot under way keeps the copy of the vault it was given.
Lock ==
    /\ opened # Closed
    /\ opened' = Closed
    /\ job' = IF job[Daemon].at = "putting" THEN [job EXCEPT ![Daemon].own = FALSE] ELSE job
    /\ UNCHANGED <<register, remote, recorded, dirty, puts, starts, promised>>

(***************************************************************************)
(* snapshot_to_providers.                                                  *)
(***************************************************************************)

\* Steps of snapshot and restore leave the rest of the daemon alone.
Rest == <<register, dirty, starts>>

\* The register is copied, then every provider's adapter is made.
StartSnapshot(w, copy, own) == Become(w, Putting(register, Provider, {}, copy, own))

\* The command-line program opens the vault for the one snapshot.
CliSnapshot ==
    /\ job[Cli].at = "idle" /\ register # NoRegister
    /\ OneVault => opened = Closed /\ ~Busy(Daemon)
    /\ StartSnapshot(Cli, recorded, FALSE)
    /\ UNCHANGED <<Rest, remote, recorded, opened, puts, promised>>

\* run_snapshotter: the event, the debounce, and its clearing before the copy.
Wake ==
    /\ job[Daemon].at = "idle" /\ dirty
    /\ Become(Daemon, At("settling"))
    /\ UNCHANGED <<Rest, remote, recorded, opened, puts, promised>>

Settle ==
    /\ job[Daemon].at = "settling"
    /\ dirty' = FALSE
    /\ IF opened = Closed THEN Become(Daemon, At("idle"))
       ELSE StartSnapshot(Daemon, opened, TRUE)
    /\ UNCHANGED <<register, remote, recorded, opened, puts, starts, promised>>

\* Targets are tried until enough have taken the snapshot.
Trying(w, p) ==
    /\ job[w].at = "putting" /\ Cardinality(job[w].found) < MinTargets
    /\ p \in job[w].todo

\* Under a name the object is replaced; elsewhere there is one more.
RefOf(p) == IF p \in Duplicating THEN puts + 1 ELSE Name
Lands(w, p) ==
    /\ RefOf(p) \in Ref
    /\ remote' = [remote EXCEPT ![p][RefOf(p)] = job[w].data]
    /\ puts' = IF p \in Duplicating THEN puts + 1 ELSE puts

PutLands(w, p) ==
    /\ Trying(w, p)
    /\ Lands(w, p)
    /\ job' = [job EXCEPT ![w].todo = @ \ {p},
                          ![w].found = @ \cup {[provider |-> p, limits |-> job[w].data.limits[p],
                                                ref |-> RefOf(p)]}]
    /\ UNCHANGED <<Rest, recorded, opened, promised>>

\* A put that raises, whether or not it was carried out.
PutRaises(w, p) ==
    /\ Trying(w, p) /\ p \in Flaky
    /\ job' = [job EXCEPT ![w].todo = @ \ {p}]
    /\ Lands(w, p) \/ UNCHANGED <<remote, puts>>
    /\ UNCHANGED <<Rest, recorded, opened, promised>>

PutsDone(w) ==
    /\ job[w].at = "putting"
    /\ Cardinality(job[w].found) >= MinTargets \/ job[w].todo = {}

\* Mutant: everything recorded before is pruned.
StaleAll(previous, fresh) == previous

\* What was recorded before and is not the place of a new object.
Stale(previous, fresh) == previous \ fresh

\* Mutant: the event is cleared when the snapshot is done.
RecordClears(w) ==
    /\ PutsDone(w) /\ job[w].found # {}
    /\ recorded' = job[w].found /\ promised' = job[w].data.changes
    /\ opened' = IF job[w].own THEN job[w].found ELSE opened
    /\ Become(w, Pruning(Stale(job[w].previous, job[w].found)))
    /\ dirty' = FALSE
    /\ UNCHANGED <<register, starts, remote, puts>>

Record(w) ==
    /\ PutsDone(w) /\ job[w].found # {}
    /\ recorded' = job[w].found /\ promised' = job[w].data.changes
    /\ opened' = IF job[w].own THEN job[w].found ELSE opened
    /\ Become(w, Pruning(Stale(job[w].previous, job[w].found)))
    /\ UNCHANGED <<Rest, remote, puts>>

\* Every provider failed: the vault keeps the previous locations.
SnapshotFails(w) ==
    /\ PutsDone(w) /\ job[w].found = {}
    /\ Become(w, At("idle"))
    /\ UNCHANGED <<Rest, remote, recorded, opened, puts, promised>>

\* delete is idempotent, and its failure is ignored.
Prune(w, loc) ==
    /\ job[w].at = "pruning" /\ loc \in job[w].locs
    /\ job' = [job EXCEPT ![w].locs = @ \ {loc}]
    /\ \/ remote' = [remote EXCEPT ![loc.provider][loc.ref] = NoObject]
       \/ loc.provider \in Flaky /\ UNCHANGED remote
    /\ UNCHANGED <<Rest, recorded, opened, puts, promised>>

EndSnapshot(w) ==
    /\ job[w].at = "pruning" /\ job[w].locs = {}
    /\ Become(w, At("idle"))
    /\ UNCHANGED <<Rest, remote, recorded, opened, puts, promised>>

SnapshotStep(w) ==
    \/ Record(w) \/ SnapshotFails(w) \/ EndSnapshot(w)
    \/ \E p \in Provider : PutLands(w, p) \/ PutRaises(w, p)
    \/ job[w].at = "pruning" /\ \E loc \in job[w].locs : Prune(w, loc)

(***************************************************************************)
(* restore_register_from_snapshot, with the daemon stopped: a running one  *)
(* would keep the replaced file open.                                      *)
(***************************************************************************)

LoseRegister ==
    /\ job[Daemon].at = "down" /\ job[Cli].at = "idle" /\ register # NoRegister
    /\ register' = NoRegister
    /\ UNCHANGED <<remote, recorded, opened, job, dirty, puts, starts, promised>>

\* Without --force only when there is no register; with it, at any time.
StartRestore ==
    /\ job[Daemon].at = "down" /\ job[Cli].at = "idle" /\ recorded # {}
    /\ Become(Cli, Restoring(recorded))
    /\ UNCHANGED <<Rest, remote, recorded, opened, puts, promised>>

RestoreFrom(loc) ==
    /\ job[Cli].at = "restoring" /\ loc \in job[Cli].locs
    /\ ObjectAt(loc) # NoObject
    /\ register' = ObjectAt(loc)
    /\ Become(Cli, At("idle"))
    /\ UNCHANGED <<remote, recorded, opened, dirty, puts, starts, promised>>

RestoreMisses(loc) ==
    /\ job[Cli].at = "restoring" /\ loc \in job[Cli].locs
    /\ ObjectAt(loc) = NoObject \/ loc.provider \in Flaky
    /\ job' = [job EXCEPT ![Cli].locs = @ \ {loc}]
    /\ UNCHANGED <<Rest, remote, recorded, opened, puts, promised>>

RestoreFails ==
    /\ job[Cli].at = "restoring" /\ job[Cli].locs = {}
    /\ Become(Cli, At("idle"))
    /\ UNCHANGED <<Rest, remote, recorded, opened, puts, promised>>

Restore ==
    \/ StartRestore \/ RestoreFails
    \/ job[Cli].at = "restoring" /\ \E loc \in job[Cli].locs : RestoreFrom(loc) \/ RestoreMisses(loc)

Init ==
    /\ register = [changes |-> {}, limits |-> [p \in Provider |-> 0]]
    /\ remote = [p \in Provider |-> [r \in Ref |-> NoObject]]
    /\ recorded = {} /\ promised = {}
    /\ opened = Closed
    /\ job = [w \in Program |-> At(IF w = Daemon THEN "down" ELSE "idle")]
    /\ dirty = FALSE /\ puts = 0 /\ starts = 0

Next ==
    \/ \E w \in Program : Mutate(w) \/ SnapshotStep(w)
    \/ \E p \in Provider : Adjust(p)
    \/ Start \/ Stop \/ Unlock \/ Lock \/ LoseRegister
    \/ CliSnapshot \/ Wake \/ Settle \/ Restore

Spec == Init /\ [][Next]_vars

(***************************************************************************)
(* The snapshotter runs on: every provider call returns or raises.         *)
(***************************************************************************)
FairSpec == Spec /\ WF_vars(Wake \/ Settle \/ SnapshotStep(Daemon))

(***************************************************************************)
(* Properties.                                                             *)
(***************************************************************************)

\* Every variable has its type.
TypeOK ==
    /\ register \in Data \cup {NoRegister}
    /\ remote \in [Provider -> [Ref -> Data \cup {NoObject}]]
    /\ recorded \in SUBSET Location
    /\ opened = Closed \/ opened \in SUBSET Location
    /\ job \in [Program -> JobType]
    /\ dirty \in BOOLEAN /\ puts \in 0..MaxPuts /\ starts \in 0..MaxStarts
    /\ promised \in SUBSET Change

HoldsPromise(d) == d # NoObject /\ promised \subseteq d.changes

\* Whatever fails or stops between the puts, the recording and the pruning,
\* each location in vault.json has an object at least as new as the snapshot
\* that was recorded (snapshot_to_providers: "deleted only after the new
\* locations are safely in the vault").  The same goes for a recovery without a
\* vault, which takes the newest object of the snapshot's name at a provider.
Found(p) == IF There(p) = {} THEN NoObject
            ELSE remote[p][CHOOSE r \in There(p) : \A q \in There(p) : q <= r]
RecordedHolds ==
    \A loc \in recorded : HoldsPromise(ObjectAt(loc)) /\ HoldsPromise(Found(loc.provider))

\* A change made while the daemon is unlocked reaches the recorded snapshot, if
\* the daemon stays up and unlocked, or one that has it is refused by every
\* provider; even if it is made while another snapshot is under way.
Reached(c) == c \in promised \/ opened = Closed
Refused(c) ==
    /\ job[Daemon].at = "putting" /\ job[Daemon].todo = {} /\ job[Daemon].found = {}
    /\ c \in job[Daemon].data.changes
CatchesUp == \A c \in Change :
    (register # NoRegister /\ c \in register.changes /\ dirty /\ opened # Closed)
        ~> Reached(c) \/ Refused(c)

================================================================================
