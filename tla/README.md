# scatterbox in TLA+

Scatterbox stores files on several storage providers at once. A file is cut
into chunks, each chunk is encrypted, and the ciphertext (or shares of it) is
uploaded to as many providers as the file's floor asks for. A local SQLite
database, the *register*, says where everything is, and a *vault* file holds
the keys and the providers' credentials. A scrubber checks the copies, writes
off the bad ones and makes new ones; snapshots of the register are kept on the
providers too.

These modules model the storage core (register, providers, the jobs that
upload, delete, scrub and repair, and the downloads that run beside them), for
replicated and for erasure-coded files; the daemon's queue; the tree of paths
with its policies and the placement of uploads; the snapshots; the ways to
bring a lost archive back; the vault and the life of a credential; and the
requests an adapter makes. TLC checks the modules on small instances; what it
checks of safety, TLAPS proves for every instance.

## 1. Inventory

| component | source (`src/core/scatterbox/` unless noted) | state | operations | modelled in |
|---|---|---|---|---|
| register | `register.py` | tables files, manifests, chunks, replicas, providers, policies, jobs | lookups, inserts in one transaction, replica transitions, cascading deletes, moves, queue | **Register**; the tree in **Archive**, the queue in **JobQueue** |
| write, read, delete | `pipeline.py` | local variables across awaits | `put_file`, `get_file`, `remove_file`, `move_path`, listings | **Pipeline**, **Erasure**, **Archive** |
| scrubber, repair | `scrubber.py` | work lists, report | `scrub`, `_probe`, `_deep_verify`, `repair_chunks`, `_repair_ec_chunk` | **Scrubber**, **Erasure** |
| erasure coding | `ec.py`, parts of pipeline and scrubber | share rows | split, join, share repair | **Erasure** |
| providers | `providers/base.py`, `localfs.py`, `chaos.py` and the cloud adapters | remote objects | `put`, `get`, `exists`, `delete`, `quota`, `find` | the contract: **Remote** |
| placement | `placement.py` | none | `select_targets`, `select_spread_groups`, policies | **Policies**, **Placement** |
| tree and folder policies | parts of register and pipeline | files by path, policies by folder | put, move, remove, list, set and unset a policy | **Archive** |
| job worker | `src/daemon/scatterbox_daemon/worker.py`, `state.py` | jobs table, spool files, wake-up event | claim, run and finish jobs; rescue and clean-up at start; snapshotter | **JobQueue**, **Jobs**, **Snapshot** |
| snapshots | `portability.py` | recorded locations, the objects | snapshot, prune, restore, find | **Snapshot** |
| recovery, import, export | `portability.py`, handlers and commands | the two files of a home | import of an export or of its parts, restore, cold recovery, adoption of a credential | **Recovery** |
| vault, onboarding, tokens | `vault.py`, `onboarding.py`, `oauth.py` | vault file, copies in memory, provider rows | unlock, save; add, test, reauthorise, remove; rotation and write-back | **Credentials** |
| HTTP client | `providers/_http.py`, `oauth.py` | token blob, lock, tries | `request` with retries and refresh | **Requests** |
| daemon API | `src/daemon/scatterbox_daemon/app.py` | locked or not, requests being spooled | upload, delete, scrub, move, lock, unlock, import, recover, providers; start and shutdown | **JobQueue** and the module of each operation |
| CLI | `src/cli/scatterbox_cli/main.py` | none of its own | calls the library on the same files | as the second process that calls it |
| web | `web/` | none of its own | shows what the API returns | not modelled |

**How they interact.** The daemon is one asyncio process. Its worker takes one
job at a time from the queue and calls `put_file`, `remove_file` or `scrub`.
Downloads run in request handlers on the same event loop and the same register
connection, so they interleave with the job at every `await`; handlers that add
or remove providers run on threads. The snapshotter is a task that waits for an
event which every mutation sets. The command-line program runs the same library
functions in a process of its own on the same files (`register.py:18-19`), so
two jobs can run at once, and two copies of the vault be in use. The register
is changed only between awaits and each method commits, while the providers are
changed only during awaits: nothing ties the two together but the order of the
code. The vault is one file that is read and replaced as a whole.

**What is hard.** A job acts on rows it fetched before an await. Any provider
call can raise, with or without having been carried out. A process can die
between an upload and the insert that records it, between two file
replacements, between a credential and its row. The members of
`asyncio.gather` outlive the failure of one of them. SQLite hands out the id of
a deleted last row again. A refresh token is good once. `PROJECT.json` lists
every such place under `hazards`, at its line, with the properties that watch it
and, where they hold only under an assumption, what happens without it.

**What makes each component correct.**

- Register: one file per path; replica states move only as the table of
  transitions allows; `lost` is final.
- Pipeline: the register never names an object that was not uploaded; a file is
  born with every chunk at its floor; a failed upload is undone; a deletion
  leaves nothing behind.
- Scrubber: two strikes, and only bytes clear suspicion; repair never gives a
  provider a second copy, unless it is cut short at one place, or a shard group
  too many, skips nothing silently, and heals what it can.
- Erasure: one share per provider; a chunk at its floor has every share, unless a
  repair was cut short at one place; no failing call and no bad share ends a read
  before it has tried every share on offer; repair tells what it could not do.
- Placement: distinct providers, the floor, the spread cap, durable where
  providers allow.
- Tree: nothing is overwritten; directories move whole; browsing finds every
  file; the deepest folder's policy governs an upload.
- Queue: requests are served in order and once each, whatever crashes; no
  restart costs an upload its bytes; every job ends while the daemon runs.
- Snapshots: what the vault records is there and never older than recorded; a
  change made while unlocked gets there.
- Recovery: what is brought back can be read; whatever was once in a snapshot or
  an export stays within reach; an import that fails leaves the home as it was,
  but for the import of a vault alone.
- Credentials: no credential is lost, stranded or spent; one task's save never
  undoes another's.
- Requests: a refresh token is presented once; no retry turns what was done into
  a failure; nobody waits for the lock forever.

## 2. Modules

```
Register -> Remote -> Jobs -> Scrubber -> Pipeline -> Scatterbox -> MCScatterbox
                                                           |
                                                           +-> ScatterboxProofs

SerialRequests <- (implemented by) JobQueue -> MCJobQueue, QueueProofs

Policies -> Placement -> Archive -> MCArchive, ArchiveProofs

Erasure -> MCErasure, ErasureProofs
Snapshot -> MCSnapshot, SnapshotProofs
Recovery -> MCRecovery, RecoveryProofs
Credentials -> MCCredentials, CredentialsProofs
Requests -> MCRequests, RequestsProofs
```

**Register.** `rows` is the replicas table, a function from row ids, because
ids are what jobs remember. `files` stands for the files, manifests and chunks
tables: a file's manifest and chunks are inserted with it, never change and
cascade away with it, so their columns are the constants `VPathOf`, `FileOf`,
`SeqOf`, `ReplicaTarget`, `MinSpread` and `SpreadCap`. `Transitions`, `CanSet`
and `SetReplicaState` are `set_replica_state`; `IsNextId` is SQLite's choice of
row id; `ChunksBelowFloor` and `SpreadConflictProviders` are the queries of
repair.

**Remote.** `remote[p][c]` is what provider `p` has under the name of chunk `c`:
never anything, the right bytes, wrong bytes, or nothing any more. Calls to the
providers in `Flaky` may raise at any time, and a `put` or `delete` that raises
may have been carried out. `Damage` drops or corrupts an object silently, as
`chaos.py` does. Objects are named by their chunk's hash and a second put
overwrites, as in `localfs.py` and the adapters whose reference is a path.

**Jobs.** `job[w]` is where process `w` stands with the local variables that
live across its awaits. A step runs from the answer of one provider call to the
next call, because nothing else of the same process runs in between. Steps
that the code takes without an await but in separate transactions are separate
here where a crash or an error between them tells (a repaired copy's new row and
the write-off of the row it supersedes), or where it is simpler (the end of a
scan and the start of repair); that adds interleavings which only a second
process can cause.

**Scrubber.** `StartScrub` fetches the work list; `ProbeFound`, `ProbeMissed`,
`DeepVerified`, `DeepCorrupt` and `DeepFailed` are the outcomes of `_probe` and
`_deep_verify` for one row. Each reads the row *as fetched* (`seen`) and writes
the row *as it is* (`rows`), or fails the job when the register refuses.
`RepairChunk`, `FetchMissed`, `FetchHit`, `FetchExhausted`, `UploadLands`,
`Retire`, `UploadRaises`, `EndUpload` and `EndRepair` are `repair_chunks`:
`UploadLands` ends with the commit of `add_replica`, and `Retire` writes off one
row that the copy supersedes, in a transaction of its own. `Selections` is
`select_targets`, any set its floor and its cap of two extra copies allow.

**Pipeline.** `StartPut` makes the checks of `put_file` and chooses providers,
`PutLands` and `PutFails` are the members of one `gather`, `CleanupOne` the
clean-up, `StrayPut` a member that finishes after the gather has failed, and
`CommitPut` the insert. `StartRemove`, `RemoveOne` and `EndRemove` are
`remove_file`. `StartGet`, `GetHit`, `GetMissed` and `GetExhausted` are
`get_file`, whose register updates can raise out of it (`Aborted`).
`RemoveProvider` is `remove_provider` with force.

**Scatterbox.** All of it together, with `Crash` between any two steps, hence
between any two transactions of a job (what the dying process had under way may
have landed), and the properties.

**JobQueue.** The jobs table and the spool files outlive the process; the rest is
its memory. The handlers of `app.py` (`StartSpooling` and `QueueUpload` are the two
halves of `upload`, around its awaits) run only while the worker awaits
something (`Awaiting`); the worker's own steps go from await to await:
`ClaimNext` is `claim_next_job` or the clearing of the event, `Begin` the start of
the handler, `PutCommits` and `RemoveCommits` the ends of `put_file` and
`remove_file`, `Unlink` the `finally` of `_upload`, `Finish` is `finish_job`. `Start` is the
rescue and the clean-up of `lifespan`, `Crash` kills the process between any two
steps, and `Shutdown` cancels the worker at its await. What a job does to the
providers is Pipeline's business; here a file is known by the upload that made
it, and the tree of paths says where it is. `Serve` says that nothing is served
before the worker's first turn: its task is created before `lifespan` yields, and
without clients its first broadcast does not wait.

**SerialRequests.** What the queue promises, without a worker, a process or a
crash: requests are served in the order they were asked, each once; a deletion
may be carried out again, until something later is served; files may be renamed.
JobQueue implements it (`ServesInOrder`): a job counts as served when its
transaction is committed, which is before the job is finished, and through that
gap a crash may fall.

**Erasure.** One chunk in `N` shares, any `K` of which rebuild it. `rows` are its
rows of the replicas table, with an index each, and `remote[p][x]` is what a
provider has under the name of share `x`. `PutLands`, `PutRaises` and
`CommitPut` are the upload; `Scrub` is `_probe` or `_deep_verify` of one row as
it was fetched; `FetchShare`, `PlanRepair`, `UploadShare`, `RetireShare`,
`UploadRaises` and `EndRepair` are `_repair_ec_chunk`, with the missing indices and
free providers computed from the rows of its start (less one whose quota cannot
be had), and the superseded rows written off by the ids they had then, each in a
transaction after the one of the new row; `faults.torn` remembers the shares of
which a repair that was cut short in between has left two rows; `RemoveShare` is `remove_file`; `GetShare` is one round of
`_fetch_ec_chunk`. It stands beside Pipeline and Scrubber rather than inside
them, because share rows obey other rules than copies: its repair, its floor and
its reads have code of their own.

**Policies** and **Placement** are operators. A policy is a record of the fields
of `PlacementPolicy`; `Sparse` and `Full` are its conversions to and from the
stored form; `IsValid` is what the constructors let through.
`SelectTargets` is `select_targets`: filter, score, rank, then take providers up
to the floor and on to the durability goal or the ceiling.
`SelectSpreadGroups` deals the groups one after the other, barring providers at
their cap. The code's fractions are brought over a common denominator; the loss
product keeps reliabilities in tenths.

**Archive.** `tree` is the files table by path, with the manifest's policy and
provider groups, and an id as SQLite gives them out; `policies` is the policies
table in its sparse form. Each operation is two steps, what it reads and the
transaction it writes, since uploads take hours and a process can stand still
between a check and a write: `StartPut` and `EndPut`, `StartRemove` and
`EndRemove`, `StartMove` and `MoveFile` or `MoveTree`. `MoveTree` is one UPDATE
over the rows, which SQLite undoes as a whole when one new path is taken.

**Snapshot.** Two programs, each with a copy of the vault when it is open.
`Wake` and `Settle` are `run_snapshotter`, the event and its clearing before the
copy; `PutLands`, `PutRaises`, `Record`, `Prune` and `EndSnapshot` are
`snapshot_to_providers`, one provider call a step. `Stale` decides, by type,
configuration and reference together, what is pruned, and the limits that
`provider set` changes are part of the configuration (`Adjust`). Some providers
name their objects, so that a put replaces; `Duplicating` ones always make
another. `RestoreFrom` and `RestoreMisses` are `restore_register_from_snapshot`.

**Recovery.** `vault` and `register` are the two files of a home. `Import`,
`Restore` and `Recover` are the five ways back, as the handlers and commands run
them, with one step per file that is replaced and per provider that is tried.
Some replace a file atomically, others create or copy one that can be cut short
(`TornVault`). A file of the archive is opened by the key it was wrapped under
(`wrapped`), and the key comes from the salt in the vault or in the snapshot.
`Living` groups the rest of a home's life: start, unlock, init, uploads, snapshots,
exports, and the loss of the machine.

**Credentials.** `disk` and `temp` are the vault file and the one temporary file
all saves share; `vaults` are the copies in memory. `SaveOpens`, `SaveWrites` and
`SaveReplaces` are `_save`, with what happens to the handles of an overlapping
save. `Consent`, `TestPasses`, `TestFails` and `TestBreaks` are the addition or
reauthorisation of a provider; `RemoveSecret` and `DropRow` its removal;
`Redeem` and `WriteBack` a rotating token's life in `oauth.py`. Several tasks
run these at once, and the daemon may be locked and unlocked under them.

**Requests.** One adapter used by several tasks. `TakeToken`, `Acquire`,
`Redeemed` and `RedeemFails` are `TokenManager`; `Answered`, `Rejected` and
`Unanswered` are the outcomes of one try of `AuthedClient.request`; `NextTry` is
its loop. `object` is the service's side of each task's operation, and the
answer of a request that was carried out may be lost.

## 3. Properties and runs

Each module with an MC module has its runs there; `uploads`, `daemon`, `scrub` and
`spread` use `MCScatterbox`. Each passing run has, for every property, a mutant
of the code (a dropped guard, a missing reset, a swapped order) that TLC finds
to violate it; the mutated operators stand beside the originals, each with a
comment saying what the bug would be.

| run | instance | what holds |
|---|---|---|
| `uploads` | 2 processes, 1 may crash; 2 files for one path, 3 chunks; floor 2 on 2 providers, one failing and one removable | `RowsWereUploaded`, `PutProgress`, `OneFilePerPath`, `BornAtFloor` |
| `daemon` | 1 worker, which may crash, 1 download, 2 providers, one failing and one removable; 2 row ids; 1 damaged object | `TypeOK`, `NoSecondLiveRow`, `LostIsFinal`, `RemovalLeavesNothing` |
| `scrub` | 1 worker; 2 copies on 3 providers, 2 failing; 2 damaged objects | `RepairAccountsForAll`, `SuspicionNeedsBytes`, `TwoStrikes`, `RepairHeals` (liveness) |
| `spread` | 1 worker; 2 shard groups, 3 providers, 2 failing, cap 1 | `SpreadCapHeld` |
| `queue` | 2 uploads and a deletion of one path, a scrub, moves to another path; 2 crashes or shutdowns | `TypeOK`, `ServesInOrder` (refinement of SerialRequests), `RestartKeepsSpool`, `JobsFinish` (liveness) |
| `erasure` | 2 of 3 shares on 4 providers, one with a share and the spare one removable; 1 download; 1 loss, 1 failing call or crash | `OneSharePerProvider`, `FloorIsWhole`, `RepairTells`, `ShortOnlyIfShort`, `Heals` (liveness) |
| `archive` | 3 files on paths of up to 3 names, 1 who puts and removes, 1 who moves, 2 folder policies, 4 unlike providers in 2 states | `EveryFileListed`, `NobodyHoldsWhole`, `FilesStay`, `MovesWhole`, `DurableOrNobodyElse` |
| `snapshot` | daemon and command, a store of named objects and one of duplicates with changing limits, either may fail; 2 changes, 2 duplicates, 2 starts | `RecordedHolds`, `CatchesUp` (liveness) |
| `recovery` | 2 files, 2 providers, 2 keys; 1 loss of the home, 2 crashes | `Readable`, `Recoverable`, `AllOrNothing` |
| `credentials` | 2 threads and a command, 2 providers, 1 with single-use tokens; 4 credentials | `VaultWhole`, `RowsMatchSecrets`, `SecretsWork`, `OthersKept` |
| `requests` | 2 tasks, 3 operations of 3 tries; 4 faults | `SpentOnce`, `RefreshedOnce`, `EndsAsAsked`, `EveryoneEnds` (liveness) |

Every module of state has a `TypeOK`, which TLAPS proves. The runs `daemon` and
`queue` check it as well; in the other modules it holds when it is added to the
configuration, and the runs list what is less plain.

In `uploads` the processes only upload and delete: its question is what
happens to an upload, and with scrubs of two processes besides it would not
finish. The other runs use the whole specification of their module.

**Where the code and its documents part.** `pruned_snapshot` checks
`RecordedHolds` where the limits of a provider that names its objects change
between two snapshots, and TLC finds it violated. A location of the last
snapshot counts as stale when its type, configuration and reference together
are not among the new ones; the limits are part of the configuration, so the
location differs although the object is the same one, and the prune deletes the
snapshot it has just written. The comment at `portability.py:315-318` says that
just this is avoided.

More disagreements are not runs of their own; `PROJECT.json` describes each
under `hazards`, with the line and the text it contradicts:

- beside a download, `SuspicionNeedsBytes` and `TwoStrikes` fail: the scrubber's
  answer is judged by a state fetched before it (`scrubber.py:61`, `:77`); and a
  download whose row was written off meanwhile raises with the good bytes in
  hand (`pipeline.py:500`);
- a degraded read that comes to a row which another job has written off or
  deleted, or whose provider has been removed, ends in an exception with other
  shares untried (`pipeline.py:372`, `:380-387`): `ShortOnlyIfShort` fails without
  its `Overtaken`;
- with two processes repairing, `NoSecondLiveRow` fails (`scrubber.py:285`);
- a crash or an error between the row of a new copy or share and the write-off of
  the suspect row it supersedes leaves both rows, and after a deep verify one
  object, or one share, counts twice (`scrubber.py:304-310`, `:211-221`); the
  properties except just these repairs;
- the import of a vault alone that finds no snapshot leaves the vault, and the
  home counts as initialised (`app.py:192`, `portability.py:249`);
- after an outage and two repairs, a provider can store every chunk of a spread
  file, since objects of lost rows do not count (`register.py:715`);
- siblings of a failed put land after the clean-up (`pipeline.py:293`);
- an orderly shutdown costs a running upload its spool file, which a crash does
  not (`worker.py:125`), a jobs table longer than 1000 does too (`worker.py:172`),
  and a locked daemon's failed upload leaves its file behind (`worker.py:99`);
- two overlapping saves tear the vault file (`vault.py:133`), and a save by one
  copy of the vault undoes another's (`vault.py:90`);
- for three equal providers and two disjoint groups the extra copies of the
  first group leave the second without providers (`placement.py:226`);
- a row id reused during a download is written to (`register.py:69`).

**What a property excepts, and why.** `RepairHeals` lets a repair off only when its
job ends in an exception (`job = Failed`): that it ends is not enough.
`ShortOnlyIfShort` covers every end of a download but a crash, the exceptions too.
`NoSecondLiveRow` and `FloorIsWhole` except the repairs that were cut short
between their two transactions, the first at the very step, the second from then
on. `RemovalLeavesNothing` lets an object stay that no row names where processes
crash, as the docstring of `put_file` does (`pipeline.py:174-176`). `AllOrNothing`
asks of the imports that bring a register, and of a recovery, that they end
installed or with the home untouched; of a restore and of the import of a vault
alone, that the register is replaced by one the vault reads or kept, and that no
vault is left but the one there was or the one that was given.

**Assumptions that the code does not enforce.** Three runs state as a constant
what a user must do, and say what fails otherwise. `OneVault` (snapshot): no
second copy of the vault is opened beside the first; two copies prune what the
other one recorded. `Careful` in Credentials: one copy, one save and one
operation per provider at a time. `Careful` in Recovery: after a loss the user
brings the archive back first, from the newest copy, and forces only to repeat
what was cut short. Archive's run has one putter: with two removals at once, an id
can be of another file by the time it is used. Its theorems hold for several,
because `FilesStay` takes a removal by the id it holds.

**Bounds, and why they are enough.** In the core, `MaxRows` bounds the row ids ever in use
at once; an insert without room raises, as it does at SQLite's own limit, and
repair does not choose what does not fit. Two to four ids suffice for the first
copies and a generation or two of repair (with two providers and a floor of one,
`daemon` needs two for a copy and the suspect row it supersedes); `uploads` has six, enough for both
files at once, so that only the path keeps the second one out. `MaxFaults`
bounds silent damage, `Removable` and `CrashProne` say which providers and
processes may go. Each file is uploaded at most once (`used`): a new upload of a
path is a new file, with new chunks, since every chunk is encrypted under a
fresh nonce. One or two chunks suffice because repair and download treat chunks
one by one; the one property about several, the spread, has a chunk for each of
its two groups. The providers of one instance are asymmetric (flaky or not,
removable or not), so no symmetry is declared. `MaxExtra` is the code's own
constant, not a bound.

In JobQueue, each request is made at most once, so that a job and its request can
be told apart from every other; `MaxStops` bounds crashes and shutdowns (two, so
that a rescued job can be interrupted again), and `ListLimit` is the 1000 of
`cleanup_stale_spool`. All requests of `queue` name one path, and moves take files to
another and back, so that every pair of jobs meets.

In Erasure, `K < N < |Provider|` leaves one provider free for repair and, when one
is removed, none; five row ids are never used up, since one loss and one failure let
repair make two new rows; `Homes` looks at one placement of an upload, of which
one provider with a share and the spare one are removable, since the others
differ by names; `MaxLosses` and `MaxFailures` are
one each, so that a damaged share meets a failing call, and `K` shares are left.

In Archive, paths of two names and depth three have a directory below a
directory to be moved, a target that a file or a directory has, and a file above
a file; `PutPath`, `Source` and `Destination` say which are asked for. The fleet
has an unlimited, a nearly full, a slow and an unreliable provider, so that each
filter and each part of the score decides something; it stays as it is through a
behaviour. The policies are packed spread and erasure coding.

In Snapshot two changes and two duplicate objects let a change fall into a
running snapshot and an old object be pruned; `MinTargets` is the code's. In
Recovery one loss and two crashes let a recovery be cut short twice; in
Credentials four credentials give each provider its own and two rotations, and
two copies in memory are one in use and one that is given out by a relock. In
Requests three tries (the code's five) fail, refresh and fail again, and four
faults are enough to use them all up.

`credentials` and `recovery` declare symmetry, over the daemon's two threads and
over files and providers, which nothing tells apart; neither checks liveness.
`uploads`, `snapshot`, `pruned_snapshot`, `erasure`, `archive` and `requests` switch
the deadlock check off, because there the bounds can be used up and the instance
stop: no more uploads, starts, row ids, files or operations.

**Fairness.** Five runs assume some. `scrub` assumes weak fairness of each
worker's scrub and repair steps. The code justifies it by its timeouts: every
adapter call returns or raises in the end, and a process whose call has ended
runs on. Nothing is assumed about which answer a call gives, about the start of
jobs, or about crashes and damage. `queue` assumes weak fairness of the worker's
steps, for the same reason, and leaves the fallback poll of five seconds out:
the event alone must wake the worker. `snapshot` assumes it of the snapshotter's
steps, and `requests` of each task's, whose requests have a time limit.
`erasure` assumes it of the job under way, and strong fairness of the start of a
deep scrub with repair: such scrubs are asked for again and again, and the queue
is first in, first out, but another job may always come between.

## 4. Proofs

Every safety and action property that a passing run checks is also a theorem,
checked by TLAPS for all values of the constants; eight modules hold the proofs,
one for each module of state, with the core's in `ScatterboxProofs`. What stays
with TLC is liveness. `PROJECT.json` lists the theorems.

**Assumptions.** Those on constants are named, stand in the module that declares
them and are evaluated by TLC in its runs. `ManifestAssumption`: finitely many
providers and chunks, distinct sequence numbers within a file, at least one shard
group and a cap of at least one (`register.py:65`, `pipeline.py:253-316`,
`placement.py:44-90`). `RemoteAssumption`, `SnapshotAssumption`,
`RecoveryAssumption`, `CredentialsAssumption`, `RequestsAssumption` and `QueueAssumption`
say what kind of set each constant is. `ErasureAssumption`: `0 < K < N` and
finitely many providers (`ec.py:20-29`). `PlacementAssumption` and
`ArchiveAssumption`: provider ids are numbers, policies and fleets have the fields
and ranges of their classes, the root is not moved. `AbsenceAssumption` and
`NoRowAssumption` say that a value standing for "none" is none of the others.
Where a theorem has a hypothesis of its own, it is stated with it below,
together with what goes wrong without it.

**The core, any number of processes.**

- `TypeCorrect`: one lemma per group of actions; each shows that the register's
  update, the stores and the job's next state have their types. It is what rules
  out a row in a state the lifecycle does not know.
- `UploadsKeepBooks` and `RowsUploaded`. `RowsWereUploaded` is not inductive:
  `CommitPut` inserts rows on the word of the job's own books. The strengthening
  is `UploadInv`, the types with `PutProgress`: every chunk an upload is done with
  is on all the providers of its group, and the chunk it is at is where the
  gather says it is. That in turn needs `NeverAgainNever`: whatever a step does
  at a provider, an object that was put there never becomes one that was never
  put. It holds with crashes, flaky and removed providers and stray puts.
- `FilesAreBornAtFloor`, from the other half of `PutProgress`, that a plan meets
  the floor in every group. The numbering of the new rows is a bijection, so
  every provider of the plan has its row.
- `PathsStayUnique`: inductive, as only `CommitPut` adds a file, under `CanInsert`.
- `LostStaysLost`: `RowChange` lists the ways any step may change a row, once, and
  the theorem follows from the list and `Transitions`.

**The core, one process** (`OneWorker`, as in the daemon; a second process breaks
the first two, see §3).

- `ProvidersCountOnce` (`NoSecondLiveRow`, with crashes and errors at any step)
  and `NobodyOverCap`. A repair decides by rows it fetched before its awaits.
  `RepairInv` ties that memory to the register: while it fetches, every live row
  of its chunk is one it has fetched (`FetchBooks`); while it uploads, a
  provider that is to get a copy has no live row of the chunk but those it means
  to write off, and has room for the chunk's group (`UploadBooks`); the plan of
  an upload keeps to the cap (`Capped`). It is kept because between two steps of
  the one process rows only age (`Older`): downloads, removals of providers and
  crashes take rows away or make them worse.
- `BytesClearSuspicion` and `TwoStrikesAndOut`, with no download beside the process
  (`Quiet`; §3 says what a download breaks). `ScanInv`: a row still to be probed
  is as it was fetched, or gone, and one that repair has seen suspect has not
  been cleared since.
- `RepairAccounts`, with no provider removed either. `AccountInv`: what is below
  its floor is in the work list, in the report, or at hand, and the copies still
  to come make up what is missing. A provider that is removed in the middle can
  leave a chunk that was already done below its floor again.
- `RemovalsLeaveNothing`. `TidyInv`: a deletion has still to visit every object of
  its file, because what lands at a provider is in the plan of an upload under
  way or has a row (`Registered`), also after other uploads have failed. After a
  crash an upload's objects have no row to be found by: where the process may
  crash, `Registered` is given up and the deletion leaves these, and no other.

**The queue**, for any `ListLimit` and with shutdowns.

- `QueueServesInOrder`: JobQueue implements SerialRequests. `QueueInv` says that
  jobs leave the head of the queue in the order of their ids (`OldestFirst`), that
  the running job is the one the worker is at, unless the daemon is down
  (`OneRuns`), that a request has one job (`OneJobPerRequest`), and what holds of a
  job that is committed and not finished (`ServedOnce`): it is the oldest
  unfinished one, and if it is an upload, its path is taken and the worker is
  past its commit, or the server does not listen yet. The last clause is why an
  upload is not stored twice: until the rescued job has run and found its own
  file in its way, no handler can move that file away. Each step is then a step
  of SerialRequests or a stutter.
- `RestartsKeepSpool`, where there are no more requests than `ListLimit`: the ids of
  jobs map into the requests, so the table never outgrows what the clean-up
  looks at. A longer table is the disagreement of §3.

**Erasure.** `ErasureInv`: rows that count have different providers, and different
indices unless a repair is about to write one of them off (`Retiring`) or was cut
short there (`faults.torn`); a repair's plan is injective and its providers have no
such row; every index it lacks is in the plan or has been made good. From it
`SharesStayApart`, also through such crashes; `FloorMeansWhole`, by counting, where
no index is torn; `RepairsTell`, which also needs that a share made is not lost
during the repair but by a removed provider; and `DownloadsTryEverything`, from the
books of a download: whatever ends it, its next row is overtaken or there is none
left that it has not tried.

**Archive and Placement.** `ArchiveInv`: no two files have one id (`IdsApart`), and
every file and every upload under way has the groups that its policy asks for
(`Planned`). `NothingIsOverwritten`, `DirectoriesMoveWhole` and `BrowsingFindsAll`
follow step by step; the first two rest on `RenamedBack`, that renaming a path
below a directory is undone by renaming back, and the last on `WalkFacts`, an
induction over depth. `NobodyHoldsAll` and `GroupsAreDurable` are about what
`Groups` can be. `RankedFacts` shows that the order of `Precedes` is strict and
total, hence that a ranking of all candidates exists (`SortedExists`);
`SelectFacts`, that `select_targets` stops only where it may; `DealSteps`, that one
more group dealt keeps loads and groups in step and nobody over the cap; and
`DealFacts` runs the induction over the groups. Removals, moves and policies that
are set later do not disturb it, since a manifest keeps the policy it was
placed under. Setting a policy keeps all of it: `Full(Sparse(policy)) = policy`
(`PolicyFacts`).

**Snapshot.** `RecordedSnapshotHolds`, for one copy of the vault (`OneVault`) and
providers that name their objects keeping their configuration
(`Adjustable \subseteq Duplicating`, which `pruned_snapshot` gives up). `SnapshotInv` argues by
references: under a name there is one object, which only gets newer; elsewhere
what a snapshot puts is newer than all that is recorded, and only what is not
recorded is pruned.

**Recovery.** `JobsAreAllOrNothing` for any user, its two halves from what each
job remembers of the home it began in (`before`) and of the files it was given;
`RegisterStaysReadable` and `ArchiveStaysRecoverable` under `Careful`.
`RecoveryInv` says that a home that is not cut short is `Whole` (its vault reads
its register, which has everything that was safe), that the newest copy stays in
reach of whatever a job has still to try, and how far each job has come with the
two files.

**Credentials.** `VaultStaysWhole`, `RowsHaveSecrets`, `SecretsKeepWorking` and
`NoUpdateIsLost`, under `Careful`. `CredentialsInv`: the map that a task writes may be
older than the copy in memory, but where it is, it says what the file says, and
the task whose secret it lacks has still to save; a provider that no task is at
has row and secret together (`Good`).

**Requests.** `RefreshTokensSpentOnce`, `TasksRefreshOnce` and `RequestsEndAsAsked`, from
`RequestsInv`: the lock is held by the task that redeems and by no other; a task
that waits because of a 401 holds a token the service will not accept again; a
task has used up one try for every hit.

Each inductive invariant was checked by TLC before it was proved, on the
instances of the runs: `RepairInv` on `daemon` and `spread`, `ScanInv` on `daemon`
without its download, `AccountInv` on `scrub`, `TidyInv` on `daemon`, `spread` and
`scrub`, `ArchiveInv` on `archive` with two files, the others on their module's
run. That every variable keeps its type is a theorem of each module too
(`TypeCorrect`, `QueueTypeCorrect`, `ErasureTypeCorrect` and so on).

**Only model-checked.** Liveness: `RepairHeals`, `JobsFinish`, `Heals`, `CatchesUp` and
`EveryoneEnds`. Fairness and `ENABLED` are out of this prover's reach. So are the
library's induction theorems, which take an operator; the inductions here are
least and greatest elements of sets of numbers instead (`NatsByInduction`), which
is enough for the recursive functions of Archive and Placement. The modules
declare no recursive operator.

## 5. What is abstracted, and what is left out

- Errors of the operating system in the middle of a change of files: a replacement
  of the vault that raises after the register's (`portability.py:249-253`), or a
  creation that raises after the old vault is gone (`portability.py:427-448`), leaves
  what a crash at the place leaves, which Recovery has; only the crash is an
  action. Nor does a job fail over a register that SQLite finds locked for longer
  than its timeout.
- A snapshot that finds no provider, or cannot make its adapters
  (`portability.py:276-278`), ends as one does whose puts have all failed
  (`SnapshotFails`).
- Order of work: scrub looks at the longest unchecked row first and repair at
  the weakest chunk first; the core takes any order. `probe_limit` takes some
  of the rows, and the deep byte budget lets any row be probed instead.
- Placement in the core and in Erasure: any set of legal size is taken. The
  scores, tiers, pins and the loss product that choose among them are in
  Placement, with reliabilities in tenths and so without the small tolerance of
  `placement.py:237`. Quotas are part of `Flaky` in the core.
- Bytes: encryption, compression and the four checks of `get_file` are one
  question, whether the object is intact; any `K` intact shares with different
  indices give the chunk.
- Reliability scores are not kept; what remains of `update_reliability` is that
  it raises when the provider's row has gone.
- Providers are all present at the start of the core and of Erasure; they are
  added in Credentials and Recovery.
- No code creates a row in state `pending`; the state is kept because the
  transitions and the repair mention it.
- Ids of files, chunks and providers can be reused as replica ids are. File ids
  are in Archive, those of chunks and providers are not modelled.
- The queue knows the effect of a job on the tree, not its provider calls. A
  broadcast that waits for a slow client is an await like any other. The
  command-line program changing a queued job's path, the register swapped by an
  import, and a client that disconnects while its upload is spooled are not
  modelled.
- The consent flow (browser, loopback server) is one step, and so is its failure.
- Requests are those of Drive's adapter. The same loop without tokens in `_s3.py`
  and `mega.py` and the times between tries are left out.

**Not modelled.** The cloud adapters beyond the contract, and MEGA's
cryptography: they translate the contract into the HTTP calls of services whose
other half is not in the repository. The web interface, argument parsing,
answers, status pages and the event stream: they keep no state of the archive.
Exception classes, which have no behaviour. Migrations of the database schema,
and counts that are only displayed.

## 6. Plan

All of the runs' safety properties are proved. Worth proving next:

1. That what Placement computes is what the core and Erasure may choose: a result of
   `SelectTargets` is a set of `Selections` (distinct providers, from the floor to
   two above it), and `SelectShareHolders` gives one provider to each share.
2. `RepairAccountsForAll` with providers removed meanwhile, in a form that counts
   what has gone.
3. What one process keeps, for two processes of which only one repairs.

Of the model there remain the ids of chunks and providers that are used again,
the rotation of scrubs by age under a limit, and the composition of Archive with
the queue.
