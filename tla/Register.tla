-------------------------------- MODULE Register --------------------------------
(***************************************************************************)
(* The central register (register.py): which file stores its chunks where, *)
(* and what has been observed of every copy.  The tables files, manifests  *)
(* and chunks are one set here, because a file's manifest and chunks are   *)
(* inserted with it and cascade away with it; what a manifest and a chunk  *)
(* say never changes, so those columns are constants.  The replicas table  *)
(* is a function from row ids, because the ids matter: they are what a job *)
(* or a download remembers of a row across an await.                       *)
(***************************************************************************)
EXTENDS Integers, FiniteSets, Functions

CONSTANTS
    Provider,       \* providers that are, or once were, configured
    File,           \* file incarnations: one per upload of a virtual path
    Chunk,          \* stored objects (a fresh nonce makes each upload's differ)
    VPathOf,        \* files.vpath
    FileOf,         \* the file whose manifest owns a chunk
    SeqOf,          \* chunks.seq
    ReplicaTarget,  \* manifests.replica_target, the per-chunk floor
    MinSpread,      \* manifests.min_spread, the number of shard groups
    SpreadCap,      \* manifests.spread_cap, groups one provider may hold
    MaxRows,        \* bound: replicas.id is at most MaxRows
    NoRow           \* an id of the replicas table that has no row

RowId == 1..MaxRows
State == {"pending", "stored", "suspect", "lost"}
Row == [chunk : Chunk, prov : Provider, state : State]

ASSUME ManifestAssumption ==
    /\ IsFiniteSet(Provider) /\ IsFiniteSet(Chunk)
    /\ FileOf \in [Chunk -> File]
    /\ SeqOf \in [Chunk -> Nat]
    /\ \A c, d \in Chunk : FileOf[c] = FileOf[d] /\ SeqOf[c] = SeqOf[d] => c = d
    /\ ReplicaTarget \in Nat
    /\ MinSpread \in Nat \ {0}
    /\ SpreadCap \in Nat \ {0}
    /\ MaxRows \in Nat
    /\ NoRow \notin Row

VARIABLES
    files,      \* SUBSET File: the files with a row
    provs,      \* SUBSET Provider: the providers with a row
    rows        \* [RowId -> Row \cup {NoRow}]: the replicas table

regVars == <<files, provs, rows>>

Snapshot == [RowId -> Row \cup {NoRow}]

----------------------------------------------------------------------------
(* Queries.  They take the table as a parameter where a job evaluates them *)
(* on what it fetched earlier.                                             *)

\* chunks.spread_group, as put_file deals it: seq % number of groups.
Group == 0..MinSpread - 1
GroupOf(c) == SeqOf[c] % MinSpread

ChunksOf(f) == {c \in Chunk : FileOf[c] = f}

\* The next chunk in seq order among those still to do.
IsNextChunk(c, todo) == c \in todo /\ \A d \in todo : SeqOf[c] <= SeqOf[d]

Ids(t) == {i \in RowId : t[i] # NoRow}
IdsOf(t, c) == {i \in Ids(t) : t[i].chunk = c}
NonLost(t) == {i \in Ids(t) : t[i].state # "lost"}
InState(t, c, s) == {i \in IdsOf(t, c) : t[i].state = s}

\* get_replicas: the rows of one chunk, as fetched now.
RowsOf(c) == [i \in RowId |-> IF i \in IdsOf(rows, c) THEN rows[i] ELSE NoRow]

\* The ORDER BY of get_replicas.
Rank(s) == CASE s = "stored" -> 0 [] s = "pending" -> 1
             [] s = "suspect" -> 2 [] OTHER -> 3
IsHealthiest(t, i, todo) ==
    /\ i \in todo
    /\ \A j \in todo : \/ Rank(t[i].state) < Rank(t[j].state)
                       \/ Rank(t[i].state) = Rank(t[j].state) /\ i <= j

\* Stored copies of a chunk, and the chunks repair has to look at.
Live(c) == Cardinality(InState(rows, c, "stored"))
ChunksBelowFloor == {c \in Chunk : FileOf[c] \in files /\ Live(c) < ReplicaTarget}

\* The shard groups of a file a provider holds a non-lost row of.
GroupsHeld(t, f, p) ==
    {GroupOf(t[i].chunk) : i \in {j \in NonLost(t) : /\ t[j].prov = p
                                                     /\ FileOf[t[j].chunk] = f}}

\* Mutated form: the cap is exceeded by one group before it is enforced.
SpreadConflictLate(c) ==
    {p \in Provider :
        LET held == GroupsHeld(rows, FileOf[c], p)
        IN  GroupOf(c) \notin held /\ Cardinality(held) > SpreadCap}

\* Providers that must not receive a chunk of c's group.
SpreadConflictProviders(c) ==
    {p \in Provider :
        LET held == GroupsHeld(rows, FileOf[c], p)
        IN  GroupOf(c) \notin held /\ Cardinality(held) >= SpreadCap}

----------------------------------------------------------------------------
(* Updates.                                                                *)

\* Mutated form: a lost row may be revived in place.
TransitionsRevive == [pending |-> {"stored", "suspect", "lost"},
                      stored  |-> {"suspect", "lost"},
                      suspect |-> {"stored", "lost"},
                      lost    |-> {"stored"}]

\* _REPLICA_TRANSITIONS; setting a row to the state it has is a no-op.
Transitions == [pending |-> {"stored", "suspect", "lost"},
                stored  |-> {"suspect", "lost"},
                suspect |-> {"stored", "lost"},
                lost    |-> {}]

\* set_replica_state raises exactly when this is false.
CanSet(i, s) ==
    /\ rows[i] # NoRow
    /\ s = rows[i].state \/ s \in Transitions[rows[i].state]
SetReplicaState(i, s) == rows' = [rows EXCEPT ![i].state = s]

\* INTEGER PRIMARY KEY without AUTOINCREMENT: the largest id in use plus 1,
\* so the id of a deleted last row is given out again.
IsNextId(n) ==
    /\ n \in 1..MaxRows + 1
    /\ \A i \in RowId : i >= n => rows[i] = NoRow
    /\ n > 1 => rows[n - 1] # NoRow

\* Bound: without ids left for k more rows an INSERT raises, as SQLite's own
\* limit makes it.
HasRoom(k) == k <= MaxRows /\ \A i \in RowId : i > MaxRows - k => rows[i] = NoRow

\* The foreign keys of a replicas row; an INSERT without them raises.
CanAddReplica(c, p) == FileOf[c] \in files /\ p \in provs /\ HasRoom(1)

\* ON DELETE CASCADE from files down to replicas.
DeleteFile(f) ==
    /\ files' = files \ {f}
    /\ rows' = [i \in RowId |-> IF i \in Ids(rows) /\ FileOf[rows[i].chunk] = f
                                THEN NoRow ELSE rows[i]]
    /\ UNCHANGED provs

\* The rows a new file is born with: one stored row per <<chunk, provider>>
\* of placed, numbered from n on.  The numbering among them is immaterial.
Numbering(n, placed) ==
    CHOOSE num \in Bijection(n..n + Cardinality(placed) - 1, placed) : TRUE
InsertFileWithManifest(f, n, placed) ==
    LET num == Numbering(n, placed)
    IN  /\ files' = files \cup {f}
        /\ rows' = [i \in RowId |->
                        IF i \in DOMAIN num
                        THEN [chunk |-> num[i][1], prov |-> num[i][2], state |-> "stored"]
                        ELSE rows[i]]
        /\ UNCHANGED provs

\* delete_provider: its rows go with it.
DeleteProvider(p) ==
    /\ provs' = provs \ {p}
    /\ rows' = [i \in RowId |-> IF i \in Ids(rows) /\ rows[i].prov = p
                                THEN NoRow ELSE rows[i]]
    /\ UNCHANGED files

RegisterInit ==
    /\ files = {}
    /\ provs = Provider
    /\ rows = [i \in RowId |-> NoRow]

RegisterTypeOK ==
    /\ files \subseteq File
    /\ provs \subseteq Provider
    /\ rows \in Snapshot
=============================================================================
