-------------------------------- MODULE Erasure --------------------------------
(***************************************************************************)
(* Erasure-coded files: a chunk is coded into N shares, any K of which     *)
(* rebuild it (ec.py), and the shares live on N providers.  The upload,    *)
(* the degraded read _fetch_ec_chunk, the scrubber's checks, the repair    *)
(* _repair_ec_chunk, and the removal of the file or of a provider.         *)
(*                                                                         *)
(* One chunk of one file: no step relates two chunks.  One job runs at a   *)
(* time, downloads run beside it, and every step is from the answer of one *)
(* provider call to the next.  What the coding computes is left out: K     *)
(* intact shares with different indices give the chunk.                    *)
(***************************************************************************)
EXTENDS Naturals, FiniteSets

CONSTANTS
    Provider, K, N,
    Reader,         \* downloads
    Removable,      \* providers that may be removed
    Homes,          \* bound: the placements of an upload that are looked at
    NoRow,
    MaxRows,        \* bound: ids of share rows
    MaxLosses,      \* bound: objects damaged and providers removed
    MaxFailures     \* bound: calls that raise and crashes

\* validate_params, but for the limit of 255 shares.
ASSUME ErasureAssumption ==
    /\ IsFiniteSet(Provider) /\ Removable \subseteq Provider
    /\ K \in Nat /\ N \in Nat /\ 1 <= K /\ K < N
    /\ MaxRows \in Nat /\ MaxLosses \in Nat /\ MaxFailures \in Nat

VARIABLES
    provs,      \* the providers table
    stored,     \* whether the file is in the register
    rows,       \* the chunk's rows of the replicas table
    remote,     \* what each provider has under the name of each share
    job,        \* the upload, scrub, repair or deletion under way
    get,        \* the downloads under way
    faults      \* what has gone wrong so far

vars == <<provs, stored, rows, remote, job, get, faults>>
registerVars == <<provs, stored, rows>>

Index == 0..N - 1
RowId == 1..MaxRows
Row == [prov : Provider, index : Index, state : {"stored", "suspect", "lost"}]
ASSUME NoRowAssumption == NoRow \notin Row

Table == [RowId -> Row \cup {NoRow}]
Ids(t) == {i \in RowId : t[i] # NoRow}
NonLost(t) == {i \in Ids(t) : t[i].state # "lost"}
InState(t, s) == {i \in Ids(t) : t[i].state = s}
Indices(t, ids) == {t[i].index : i \in ids}
ProvidersOf(t, ids) == {t[i].prov : i \in ids}

\* get_replicas: stored rows before suspect ones, then by id.
IsHealthiest(t, i, todo) ==
    i \in todo /\ \A j \in todo : IF t[i].state = t[j].state THEN i <= j ELSE t[i].state = "stored"

\* chunks_below_floor counts rows, not shares.
BelowFloor == stored /\ Cardinality(InState(rows, "stored")) < N

\* set_replica_state raises unless the row is there and may change.
CanSet(i, s) == rows[i] # NoRow /\ (rows[i].state = "lost" => s = "lost")
SetState(i, s) == rows' = [rows EXCEPT ![i].state = s]
\* SQLite gives out the largest id in use plus one.
IsNextId(i) ==
    /\ i \in RowId /\ \A j \in RowId : j >= i => rows[j] = NoRow
    /\ i > 1 => rows[i - 1] # NoRow

(***************************************************************************)
(* Provider calls: any may raise, while failures last.                       *)
(***************************************************************************)
Intact(p, x) == remote[p][x] = "good"
Holds(p, x) == remote[p][x] \in {"good", "bad"}
Answers == UNCHANGED faults
CallFails == faults.failures < MaxFailures /\ faults' = [faults EXCEPT !.failures = @ + 1]
Loss == faults.losses < MaxLosses /\ faults' = [faults EXCEPT !.losses = @ + 1]
Lands(p, x) == remote' = [remote EXCEPT ![p][x] = "good"]

(***************************************************************************)
(* The job.                                                                *)
(***************************************************************************)
Idle == [at |-> "idle"]
Job == [at : {"put", "scrub", "fetch", "upload", "remove"},
        seen : Table,                       \* the rows as they were fetched
        todo : SUBSET RowId,                \* those still to look at
        handles : SUBSET Provider,          \* the providers that were loaded
        shares : SUBSET Index,              \* shares collected
        plan : SUBSET (Index \X Provider),  \* shares still to upload
        stale : SUBSET RowId,               \* superseded rows still to write off
        deep : BOOLEAN, repair : BOOLEAN,
        told : BOOLEAN]                     \* something was reported unrepairable
Starting(at) ==
    [at |-> at, seen |-> rows, todo |-> {}, handles |-> provs, shares |-> {}, plan |-> {},
     stale |-> {}, deep |-> FALSE, repair |-> FALSE, told |-> FALSE]

Become(j) == job' = j
Ends == job' = Idle

\* The rows that a repair has superseded and not yet written off.
Retiring == IF job.at = "upload" THEN job.stale ELSE {}
\* faults.torn is history: the indices of rows that a repair superseded and, cut
\* short, left to count beside the new row.
CutShort == faults.torn \cup Indices(rows, Retiring \cap NonLost(rows))

\* An injective choice of providers for shares, as pairs.
Placements(indices, among) ==
    {plan \in SUBSET (indices \X among) :
        /\ {a[1] : a \in plan} = indices /\ Cardinality(plan) = Cardinality(indices)
        /\ \A a, b \in plan : a[2] = b[2] => a = b}

(***************************************************************************)
(* Upload.                                                                 *)
(***************************************************************************)
StartPut ==
    /\ job = Idle /\ ~stored /\ \A p \in Provider, x \in Index : remote[p][x] = "never"
    /\ \E plan \in Placements(Index, provs) \cap Homes : Become([Starting("put") EXCEPT !.plan = plan])
    /\ UNCHANGED <<registerVars, remote, get, faults>>

\* The shares of the plan that are not there yet.
StillToPut(a) == job.at = "put" /\ a \in job.plan /\ a[1] \notin job.shares

PutLands(a) ==
    /\ StillToPut(a)
    /\ Lands(a[2], a[1])
    /\ Become([job EXCEPT !.shares = @ \cup {a[1]}])
    /\ UNCHANGED <<registerVars, get, faults>>

\* One put that raises fails the upload.
PutRaises(a) ==
    /\ StillToPut(a)
    /\ CallFails /\ (Lands(a[2], a[1]) \/ UNCHANGED remote)
    /\ Ends
    /\ UNCHANGED <<registerVars, get>>

\* The rows of an upload, in the order of the shares.
Inserted(plan) ==
    [i \in RowId |-> IF i - 1 \in Index
                     THEN [prov |-> (CHOOSE a \in plan : a[1] = i - 1)[2], index |-> i - 1, state |-> "stored"]
                     ELSE NoRow]

\* The insert fails over a provider that has gone.
CommitPut ==
    /\ job.at = "put" /\ job.shares = Index
    /\ Ends
    /\ IF {a[2] : a \in job.plan} \subseteq provs
       THEN stored' = TRUE /\ rows' = Inserted(job.plan)
       ELSE UNCHANGED <<stored, rows>>
    /\ UNCHANGED <<provs, remote, get, faults>>

Upload == CommitPut \/ \E a \in Index \X Provider : PutLands(a) \/ PutRaises(a)

(***************************************************************************)
(* Scrub: each row as fetched, a probe or a deep verification.             *)
(***************************************************************************)
StartScrub(deep, repair) ==
    /\ job = Idle /\ stored
    /\ Become([Starting("scrub") EXCEPT !.todo = NonLost(rows), !.handles = {}, !.deep = deep, !.repair = repair])
    /\ UNCHANGED <<registerVars, remote, get, faults>>

\* Mutant: no second strike.
DemotedOnce(i) == "suspect"

\* Two strikes.
Demoted(i) == IF job.seen[i].state = "stored" THEN "suspect" ELSE "lost"

\* A row is looked at once.
DoneWith(i) == [job EXCEPT !.todo = @ \ {i}, !.seen[i] = NoRow]

\* The row is set; the register refuses what it cannot do, and the job fails.
Observed(i, s) ==
    IF CanSet(i, s)
    THEN SetState(i, s) /\ Become(DoneWith(i))
    ELSE Ends /\ UNCHANGED rows

Scrub(i) ==
    LET p == job.seen[i].prov  x == job.seen[i].index
        Found == IF job.deep THEN Intact(p, x) ELSE Holds(p, x)
        Corrupt == job.deep /\ remote[p][x] = "bad"
        Cleared == IF job.deep \/ job.seen[i].state = "stored" THEN "stored" ELSE rows[i].state
    IN  /\ job.at = "scrub" /\ i \in job.todo
        /\ IF p \notin provs THEN (Answers \/ CallFails) /\ Ends /\ UNCHANGED rows
           ELSE \/ Answers /\ Found /\ Observed(i, Cleared)
                \/ Answers /\ ~Found /\ Observed(i, IF Corrupt THEN "lost" ELSE Demoted(i))
                \/ CallFails /\ Observed(i, Demoted(i))
        /\ UNCHANGED <<provs, stored, remote, get>>

\* repair_chunks: the providers are loaded and the rows fetched again.
EndScrub ==
    /\ job.at = "scrub" /\ job.todo = {}
    /\ IF job.repair /\ BelowFloor THEN Become([Starting("fetch") EXCEPT !.todo = NonLost(rows)])
       ELSE Ends
    /\ UNCHANGED <<registerVars, remote, get, faults>>

(***************************************************************************)
(* _repair_ec_chunk.                                                       *)
(***************************************************************************)

\* Any failure of a share is passed over.
FetchShare(i) ==
    LET p == job.seen[i].prov  x == job.seen[i].index IN
    /\ job.at = "fetch" /\ Cardinality(job.shares) < K
    /\ IsHealthiest(job.seen, i, job.todo)
    /\ \/ Answers /\ job' = [job EXCEPT !.todo = @ \ {i},
                                        !.shares = @ \cup {y \in {x} : Intact(p, y)}]
       \/ CallFails /\ x \notin job.shares /\ job' = [job EXCEPT !.todo = @ \ {i}]
    /\ UNCHANGED <<registerVars, remote, get>>

FetchShort ==
    /\ job.at = "fetch" /\ Cardinality(job.shares) < K /\ job.todo = {}
    /\ Ends
    /\ UNCHANGED <<registerVars, remote, get, faults>>

\* Mutant: a suspect share counts as there.
MissingUnlessLost(t) == Index \ Indices(t, NonLost(t))

\* The shares without a live row, as fetched.
Missing(t) == Index \ Indices(t, InState(t, "stored"))

\* Mutant: the provider of a suspect share may get another.
FreeUnlessStored(t) == job.handles \ ProvidersOf(t, InState(t, "stored"))

\* One share per provider: anyone with a live share is out.
Free(t) == job.handles \ ProvidersOf(t, NonLost(t))

\* select_targets, which passes over a provider that does not tell its quota, or
\* a report that there are not enough providers.
PlanRepair ==
    /\ job.at = "fetch" /\ Cardinality(job.shares) >= K
    /\ \E unreachable \in SUBSET Free(job.seen) :
        /\ IF unreachable = {} THEN Answers ELSE Cardinality(unreachable) = 1 /\ CallFails
        /\ LET plans == Placements(Missing(job.seen), Free(job.seen) \ unreachable) IN
           IF plans = {} THEN Ends
           ELSE \E plan \in plans : Become([job EXCEPT !.at = "upload", !.plan = plan])
    /\ UNCHANGED <<registerVars, remote, get>>

\* One share after the other, each when the rows superseded by the last are done.
IsNextShare(a) ==
    /\ job.at = "upload" /\ job.stale = {}
    /\ a \in job.plan /\ \A b \in job.plan : a[1] <= b[1]
Uploaded(a, stale, told) == [job EXCEPT !.plan = @ \ {a}, !.stale = stale, !.told = @ \/ told]

\* Mutant: the old rows stay.
NoneStale(x) == {}

\* The rows that a new share supersedes: suspect when they were fetched.
Stale(x) == {i \in InState(job.seen, "suspect") : job.seen[i].index = x}

\* add_replica: the foreign keys, and an id.
UploadShare(a) ==
    LET p == a[2]  x == a[1] IN
    /\ IsNextShare(a)
    /\ Lands(p, x)
    /\ IF p \in provs /\ stored /\ \E i \in RowId : IsNextId(i)
       THEN /\ Become(Uploaded(a, Stale(x), FALSE))
            /\ \E i \in RowId :
                 IsNextId(i) /\ rows' = [rows EXCEPT ![i] = [prov |-> p, index |-> x, state |-> "stored"]]
       ELSE Ends /\ UNCHANGED rows
    /\ UNCHANGED <<provs, stored, get, faults>>

UploadRaises(a) ==
    /\ IsNextShare(a)
    /\ CallFails /\ (Lands(a[2], a[1]) \/ UNCHANGED remote)
    /\ Become(Uploaded(a, {}, TRUE))
    /\ UNCHANGED <<registerVars, get>>

\* Each superseded row is written off, by its id, which the new row may have got;
\* the row must still be there.
RetireShare(i) ==
    /\ i \in Retiring /\ \A j \in Retiring : i <= j
    /\ IF CanSet(i, "lost")
       THEN SetState(i, "lost") /\ Become([job EXCEPT !.stale = @ \ {i}]) /\ Answers
       ELSE Ends /\ UNCHANGED rows /\ faults' = [faults EXCEPT !.torn = CutShort]
    /\ UNCHANGED <<provs, stored, remote, get>>

EndRepair ==
    /\ job.at = "upload" /\ job.plan = {} /\ job.stale = {}
    /\ Ends
    /\ UNCHANGED <<registerVars, remote, get, faults>>

ScrubAndRepair ==
    \/ \E i \in RowId : Scrub(i) \/ FetchShare(i) \/ RetireShare(i)
    \/ EndScrub \/ FetchShort \/ PlanRepair \/ EndRepair
    \/ \E a \in Index \X Provider : UploadShare(a) \/ UploadRaises(a)

(***************************************************************************)
(* Deletion.                                                               *)
(***************************************************************************)
StartRemove ==
    /\ job = Idle /\ stored
    /\ Become([Starting("remove") EXCEPT !.todo = Ids(rows), !.handles = {}])
    /\ UNCHANGED <<registerVars, remote, get, faults>>

\* A provider is loaded when its first share comes up, and must then be there; a
\* call that fails is passed over.
RemoveShare(i) ==
    LET p == job.seen[i].prov  x == job.seen[i].index IN
    /\ job.at = "remove" /\ i \in job.todo /\ \A j \in job.todo : i <= j
    /\ IF p \in provs \cup job.handles
       THEN /\ Become([DoneWith(i) EXCEPT !.handles = @ \cup {p}])
            /\ \/ Answers /\ remote' = [remote EXCEPT ![p][x] = "gone"]
               \/ CallFails /\ UNCHANGED remote
       ELSE Ends /\ Answers /\ UNCHANGED remote
    /\ UNCHANGED <<registerVars, get>>

EndRemove ==
    /\ job.at = "remove" /\ job.todo = {}
    /\ Ends
    /\ stored' = FALSE /\ rows' = [i \in RowId |-> NoRow]
    /\ UNCHANGED <<provs, remote, get, faults>>

Remove == EndRemove \/ \E i \in RowId : RemoveShare(i)

(***************************************************************************)
(* Downloads: _fetch_ec_chunk.                                             *)
(***************************************************************************)
Download == [seen : Table, todo : SUBSET RowId,
             offered : SUBSET Index,    \* shares that had a row worth trying
             shares : SUBSET Index, failed : SUBSET Index]

StartGet(r) ==
    /\ get[r] = Idle /\ stored
    /\ get' = [get EXCEPT ![r] = [seen |-> rows, todo |-> NonLost(rows), shares |-> {}, failed |-> {},
                                 offered |-> Indices(rows, NonLost(rows))]]
    /\ UNCHANGED <<registerVars, remote, job, faults>>

\* What a download makes of a row: taken, or suspect.  The register refuses
\* to change a lost row, or one that has gone, and the download ends.
Judged(r, i, s, g) ==
    IF CanSet(i, s) THEN SetState(i, s) /\ get' = [get EXCEPT ![r] = g]
    ELSE get' = [get EXCEPT ![r] = Idle] /\ UNCHANGED rows

\* Mutant: a share whose row is suspect is not tried.
GetShareIfStored(r, i) ==
    LET g == get[r]  p == g.seen[i].prov  x == g.seen[i].index
        rest == [g EXCEPT !.todo = @ \ {i}, !.seen[i] = NoRow]
        failed == [rest EXCEPT !.failed = @ \cup {x}]
    IN  /\ g # Idle /\ Cardinality(g.shares) < K /\ IsHealthiest(g.seen, i, g.todo)
        /\ IF x \in g.shares \/ g.seen[i].state = "suspect" THEN Answers /\ get' = [get EXCEPT ![r] = rest] /\ UNCHANGED rows
           ELSE IF p \notin provs THEN Answers /\ get' = [get EXCEPT ![r] = Idle] /\ UNCHANGED rows
           ELSE \/ Answers /\ Intact(p, x) /\ Judged(r, i, "stored", [rest EXCEPT !.shares = @ \cup {x}])
                \/ Answers /\ ~Intact(p, x) /\ Judged(r, i, "suspect", failed)
                \/ CallFails /\ Judged(r, i, "suspect", failed)
        /\ UNCHANGED <<provs, stored, remote, job>>

GetShare(r, i) ==
    LET g == get[r]  p == g.seen[i].prov  x == g.seen[i].index
        rest == [g EXCEPT !.todo = @ \ {i}, !.seen[i] = NoRow]
        failed == [rest EXCEPT !.failed = @ \cup {x}]
    IN  /\ g # Idle /\ Cardinality(g.shares) < K /\ IsHealthiest(g.seen, i, g.todo)
        /\ IF x \in g.shares THEN Answers /\ get' = [get EXCEPT ![r] = rest] /\ UNCHANGED rows
           ELSE IF p \notin provs THEN Answers /\ get' = [get EXCEPT ![r] = Idle] /\ UNCHANGED rows
           ELSE \/ Answers /\ Intact(p, x) /\ Judged(r, i, "stored", [rest EXCEPT !.shares = @ \cup {x}])
                \/ Answers /\ ~Intact(p, x) /\ Judged(r, i, "suspect", failed)
                \/ CallFails /\ Judged(r, i, "suspect", failed)
        /\ UNCHANGED <<provs, stored, remote, job>>

\* K shares, or ChunkUnavailableError.
EndGet(r) ==
    /\ get[r] # Idle
    /\ Cardinality(get[r].shares) >= K \/ get[r].todo = {}
    /\ get' = [get EXCEPT ![r] = Idle]
    /\ UNCHANGED <<registerVars, remote, job, faults>>

Read(r) == StartGet(r) \/ EndGet(r) \/ \E i \in RowId : GetShare(r, i)

(***************************************************************************)
(* What happens to the process and to the providers.                       *)
(***************************************************************************)
Crash ==
    /\ job # Idle \/ \E r \in Reader : get[r] # Idle
    /\ faults.failures < MaxFailures
    /\ faults' = [faults EXCEPT !.failures = @ + 1, !.torn = CutShort]
    /\ Ends /\ get' = [r \in Reader |-> Idle]
    /\ UNCHANGED <<registerVars, remote>>

Damage(p, x) ==
    /\ Intact(p, x) /\ Loss
    /\ \E s \in {"bad", "gone"} : remote' = [remote EXCEPT ![p][x] = s]
    /\ UNCHANGED <<registerVars, job, get>>

RemoveProvider(p) ==
    /\ p \in provs \cap Removable /\ Loss
    /\ provs' = provs \ {p}
    /\ rows' = [i \in RowId |-> IF i \in Ids(rows) /\ rows[i].prov = p THEN NoRow ELSE rows[i]]
    /\ UNCHANGED <<stored, remote, job, get>>

Init ==
    /\ provs = Provider /\ stored = FALSE /\ faults = [losses |-> 0, failures |-> 0, torn |-> {}]
    /\ rows = [i \in RowId |-> NoRow]
    /\ remote = [p \in Provider |-> [x \in Index |-> "never"]]
    /\ job = Idle /\ get = [r \in Reader |-> Idle]

Next ==
    \/ StartPut \/ Upload
    \/ (\E deep, repair \in BOOLEAN : StartScrub(deep, repair)) \/ ScrubAndRepair
    \/ StartRemove \/ Remove
    \/ \E r \in Reader : Read(r)
    \/ Crash
    \/ \E p \in Provider : RemoveProvider(p) \/ \E x \in Index : Damage(p, x)

Spec == Init /\ [][Next]_vars

\* A job goes on while the process lives, and deep scrubs with repair come up
\* again and again: the queue is first in, first out.
FairSpec ==
    Spec /\ WF_vars(Upload \/ ScrubAndRepair \/ Remove) /\ SF_vars(StartScrub(TRUE, TRUE))

(***************************************************************************)
(* Properties.                                                             *)
(***************************************************************************)

\* Every variable has its type.
TypeOK ==
    /\ provs \subseteq Provider /\ stored \in BOOLEAN /\ rows \in Table
    /\ remote \in [Provider -> [Index -> {"never", "good", "bad", "gone"}]]
    /\ job \in {Idle} \cup Job /\ get \in [Reader -> {Idle} \cup Download]
    /\ faults \in [losses : 0..MaxLosses, failures : 0..MaxFailures, torn : SUBSET Index]

\* "One share per provider: anyone with a live share is out" (scrubber.py:188):
\* through repairs beside downloads, failing calls and removals, no provider
\* has two shares that count.
OneSharePerProvider ==
    \A i, j \in NonLost(rows) : rows[i].prov = rows[j].prov => i = j

\* The floor is a number of rows, and a chunk at its floor is left alone: then
\* all the shares must be there, none of them twice.  A repair adds a share and
\* writes off the row it supersedes in two transactions: the count can be wrong
\* in between, and after a repair that was cut short there.
FloorIsWhole ==
    stored /\ ~BelowFloor /\ Retiring = {} /\ faults.torn = {}
      => Indices(rows, InState(rows, "stored")) = Index

\* A repair that ends without a word has made good every share: each one has
\* a row that is new, or that was stored when the repair began.
RepairTells ==
    [][EndRepair /\ ~job.told /\ job.handles \subseteq provs
         => Indices(rows, NonLost(rows) \ InState(job.seen, "suspect")) = Index]_vars

\* The row a download is at has been overtaken since it was fetched: written off
\* or deleted by another job, or its provider is gone.
Overtaken(g) ==
    \E i \in RowId :
        /\ IsHealthiest(g.seen, i, g.todo)
        /\ rows[i] = NoRow \/ rows[i].state = "lost" \/ g.seen[i].prov \notin provs

\* However a download ends with fewer than K shares, it has tried, and failed on,
\* every share that the register offered, or has come to a row that another job
\* has overtaken: no failing call, and no bad share, ends it early.
GivesUp(r) ==
    /\ EndGet(r) \/ \E i \in RowId : GetShare(r, i)
    /\ get'[r] = Idle /\ Cardinality(get[r].shares) < K
ShortOnlyIfShort ==
    [][\A r \in Reader : GivesUp(r) =>
         get[r].offered \ get[r].shares \subseteq get[r].failed \/ Overtaken(get[r])]_vars

\* While K shares are left, deep scrubs with repair bring the chunk back to N:
\* in the end no share is missing that could be made.
Heals ==
    []<>(\/ ~stored \/ ~BelowFloor
         \/ Cardinality({rows[i].index : i \in {j \in NonLost(rows) : Intact(rows[j].prov, rows[j].index)}}) < K
         \/ Cardinality(provs) < N)

================================================================================
