-------------------------------- MODULE Pipeline --------------------------------
(***************************************************************************)
(* put_file, get_file and remove_file (pipeline.py) for replicated files,  *)
(* and the removal of a provider (onboarding.py).  Uploads and deletions   *)
(* are jobs; downloads run beside them in the daemon's request handlers.   *)
(* Encryption and chunking are abstracted: a chunk's bytes either pass     *)
(* every check of get_file or fail one of them.                            *)
(***************************************************************************)
EXTENDS Scrubber

CONSTANTS
    Reader,         \* concurrent downloads
    Removable       \* bound: providers the user may remove

VARIABLES
    download,       \* where each download stands
    used,           \* files whose upload has begun: a chunk is never made twice
    stray           \* puts an upload gave up on that are still under way

pipeVars == <<download, used, stray>>

\* A download is at chunk "chunk" with "left" still to come, and has made the
\* adapters of the providers in "made"; a finished one keeps its outcome:
\* written out, a chunk unavailable, or an error raised by the register.
Reading == [op : {"reading"}, left : SUBSET Chunk, chunk : Chunk,
            seen : Snapshot, todo : SUBSET RowId, made : SUBSET Provider]
Outcome == [op : {"idle", "written", "unavailable", "aborted"}]
NotReading(r) == download[r].op # "reading"

----------------------------------------------------------------------------
(* put_file.                                                               *)

\* select_targets for one group, or select_spread_groups: each group meets the
\* floor, and no provider is in more than SpreadCap groups.
Plans(usable) ==
    {plan \in [Group -> Selections(usable, 0)] :
        MinSpread > 1 =>
            \A p \in usable : Cardinality({g \in Group : p \in plan[g]}) <= SpreadCap}

VPathTaken(f) == \E g \in files : VPathOf[g] = VPathOf[f]

\* The checks of put_file, its choice of providers and the first call.  A put
\* that is refused here changes nothing.
StartPut(w, f) ==
    /\ Free(w)
    /\ f \notin used /\ ~VPathTaken(f)
    /\ used' = used \cup {f}
    /\ \E usable \in Usable(provs) : \E plan \in Plans(usable) :
          Become(w, [op |-> "put", file |-> f, plan |-> plan,
                     left |-> ChunksOf(f), landed |-> {}])
    /\ UNCHANGED <<regVars, remoteVars, download, stray>>

\* The providers the upload of chunk c is still waiting for.
Waiting(w, c) == job[w].plan[GroupOf(c)] \ job[w].landed
Putting(w, c, p) ==
    /\ job[w].op = "put" /\ IsNextChunk(c, job[w].left) /\ p \in Waiting(w, c)

\* One put of the gather lands; after the last one, on to the next chunk.
PutLands(w, c, p) ==
    /\ Putting(w, c, p)
    /\ Put(p, c)
    /\ Become(w, IF Waiting(w, c) = {p}
                 THEN [job[w] EXCEPT !.left = @ \ {c}, !.landed = {}]
                 ELSE [job[w] EXCEPT !.landed = @ \cup {p}])
    /\ UNCHANGED <<regVars, pipeVars>>

\* What is in the list "uploaded" of put_file: the chunks whose gather ended.
Uploaded(w) ==
    {o \in Provider \X Chunk :
        /\ FileOf[o[2]] = job[w].file /\ o[2] \notin job[w].left
        /\ o[1] \in job[w].plan[GroupOf(o[2])]}

\* Mutated form: a put that raises is taken for one that landed.
PutFailsUnseen(w, c, p) ==
    /\ Putting(w, c, p)
    /\ PutRaises(p, c)
    /\ Become(w, IF Waiting(w, c) = {p}
                 THEN [job[w] EXCEPT !.left = @ \ {c}, !.landed = {}]
                 ELSE [job[w] EXCEPT !.landed = @ \cup {p}])
    /\ UNCHANGED <<regVars, pipeVars>>

\* One put of the gather raises: put_file goes to its cleanup at once, and the
\* other puts of the gather go on without it.
PutFails(w, c, p) ==
    /\ Putting(w, c, p)
    /\ PutRaises(p, c)
    /\ stray' = stray \cup {<<q, c>> : q \in Waiting(w, c) \ {p}}
    /\ Become(w, [op |-> "cleanup", uploaded |-> Uploaded(w)])
    /\ UNCHANGED <<regVars, download, used>>

\* A put nobody waits for any more lands, or fails.
StrayPut(p, c) ==
    /\ <<p, c>> \in stray
    /\ stray' = stray \ {<<p, c>>}
    /\ Put(p, c) \/ PutRaises(p, c)
    /\ UNCHANGED <<regVars, job, download, used>>

\* _cleanup_uploads: delete what was uploaded, whether it works or not.
CleanupOne(w, p, c) ==
    /\ job[w].op = "cleanup" /\ <<p, c>> \in job[w].uploaded
    /\ Delete(p, c)
    /\ Become(w, [job[w] EXCEPT !.uploaded = @ \ {<<p, c>>}])
    /\ UNCHANGED <<regVars, pipeVars>>

EndCleanup(w) ==
    /\ job[w].op = "cleanup" /\ job[w].uploaded = {}
    /\ Become(w, Failed)
    /\ UNCHANGED <<regVars, remoteVars, pipeVars>>

\* Mutated form: the path is not looked at again when the file is inserted.
CanInsertAnyPath(f, placed) ==
    (\A o \in placed : o[2] \in provs) /\ HasRoom(Cardinality(placed))

\* The UNIQUE path and the foreign keys that can make the INSERTs raise.
CanInsert(f, placed) ==
    ~VPathTaken(f) /\ (\A o \in placed : o[2] \in provs) /\ HasRoom(Cardinality(placed))

\* Everything is uploaded: the file goes into the register in one transaction,
\* or, if its path or a provider is gone by now, not at all.
CommitPut(w) ==
    LET placed == {<<o[2], o[1]>> : o \in Uploaded(w)}
    IN  /\ job[w].op = "put" /\ job[w].left = {}
        /\ \/ /\ CanInsert(job[w].file, placed)
              /\ \E n \in 1..MaxRows + 1 :
                    IsNextId(n) /\ InsertFileWithManifest(job[w].file, n, placed)
              /\ Become(w, Idle)
           \/ /\ ~CanInsert(job[w].file, placed)
              /\ UNCHANGED regVars
              /\ Become(w, Failed)
        /\ UNCHANGED <<remoteVars, pipeVars>>

----------------------------------------------------------------------------
(* remove_file.                                                            *)

\* Mutated form: the lost rows are left out.
StartRemoveLive(w, f) ==
    /\ Free(w) /\ f \in files
    /\ Become(w, [op |-> "remove", file |-> f, seen |-> rows,
                  todo |-> {i \in NonLost(rows) : FileOf[rows[i].chunk] = f}])
    /\ UNCHANGED <<regVars, remoteVars, pipeVars>>

\* Every row of the file, the lost ones too: their objects may still be there.
StartRemove(w, f) ==
    /\ Free(w) /\ f \in files
    /\ Become(w, [op |-> "remove", file |-> f, seen |-> rows,
                  todo |-> {i \in Ids(rows) : FileOf[rows[i].chunk] = f}])
    /\ UNCHANGED <<regVars, remoteVars, pipeVars>>

\* get_provider raises for a provider that was removed meanwhile, unless an
\* earlier row of the file has already made its adapter.
HasAdapter(w, p) ==
    \/ p \in provs
    \/ \E j \in Ids(job[w].seen) \ job[w].todo :
          /\ job[w].seen[j].prov = p
          /\ FileOf[job[w].seen[j].chunk] = job[w].file

RemoveOne(w, i) ==
    /\ job[w].op = "remove" /\ i \in job[w].todo
    /\ LET r == job[w].seen[i]
       IN  \/ /\ HasAdapter(w, r.prov)
              /\ Delete(r.prov, r.chunk)
              /\ Become(w, [job[w] EXCEPT !.todo = @ \ {i}])
           \/ /\ ~HasAdapter(w, r.prov)
              /\ UNCHANGED remoteVars
              /\ Become(w, Failed)
    /\ UNCHANGED <<regVars, pipeVars>>

EndRemove(w) ==
    /\ job[w].op = "remove" /\ job[w].todo = {}
    /\ DeleteFile(job[w].file)
    /\ Become(w, Idle)
    /\ UNCHANGED <<remoteVars, pipeVars>>

----------------------------------------------------------------------------
(* get_file.                                                               *)

Continue(r, s) == download' = [download EXCEPT ![r] = s]
Aborted == [op |-> "aborted"]

\* Reading goes on as s says: the next try makes its provider's adapter, and
\* raises out of get_file if it has none yet and the provider is gone.
TryNext(r, s) ==
    \/ s.todo = {} /\ Continue(r, s)
    \/ \E i \in s.todo :
          /\ IsHealthiest(s.seen, i, s.todo)
          /\ Continue(r, IF s.seen[i].prov \in provs \cup s.made
                         THEN [s EXCEPT !.made = @ \cup {s.seen[i].prov}]
                         ELSE Aborted)

\* On to the first of the chunks left, with its replicas as they are now.
ReadFrom(r, left, made) ==
    \/ left = {} /\ Continue(r, [op |-> "written"])
    \/ \E c \in left :
          /\ IsNextChunk(c, left)
          /\ TryNext(r, [op |-> "reading", left |-> left \ {c}, chunk |-> c,
                         seen |-> RowsOf(c), todo |-> NonLost(RowsOf(c)),
                         made |-> made])

StartGet(r, f) ==
    /\ NotReading(r) /\ f \in files
    /\ ReadFrom(r, ChunksOf(f), {})
    /\ UNCHANGED <<regVars, remoteVars, job, used, stray>>

Trying(r, i) ==
    /\ download[r].op = "reading"
    /\ IsHealthiest(download[r].seen, i, download[r].todo)

\* The register update after a try: set_replica_state(i, s), which raises out
\* of get_file when the row has gone, or been written off, during the try; then
\* update_reliability, which raises when the provider has gone.
TryEnds(r, i, s) ==
    /\ \/ CanSet(i, s) /\ SetReplicaState(i, s)
       \/ ~CanSet(i, s) /\ UNCHANGED rows
    /\ UNCHANGED <<files, provs, remoteVars, job, used, stray>>
Recorded(r, i, s) == CanSet(i, s) /\ download[r].seen[i].prov \in provs

\* The replica passes every check.  The next chunk's rows are not those that
\* were marked, so fetching them before or after is the same.
GetHit(r, i) ==
    /\ Trying(r, i)
    /\ Intact(download[r].seen[i].prov, download[r].chunk)
    /\ TryEnds(r, i, "stored")
    /\ \/ Recorded(r, i, "stored") /\ ReadFrom(r, download[r].left, download[r].made)
       \/ ~Recorded(r, i, "stored") /\ Continue(r, Aborted)

\* get() raises, or the bytes fail a check: suspect, and try the next replica.
GetMissed(r, i) ==
    /\ Trying(r, i)
    /\ GetCanFail(download[r].seen[i].prov, download[r].chunk)
    /\ TryEnds(r, i, "suspect")
    /\ \/ Recorded(r, i, "suspect") /\ TryNext(r, [download[r] EXCEPT !.todo = @ \ {i}])
       \/ ~Recorded(r, i, "suspect") /\ Continue(r, Aborted)

GetExhausted(r) ==
    /\ download[r].op = "reading" /\ download[r].todo = {}
    /\ Continue(r, [op |-> "unavailable"])
    /\ UNCHANGED <<regVars, remoteVars, job, used, stray>>

----------------------------------------------------------------------------
(* remove_provider, forced: the daemon does it between two awaits of the   *)
(* others, and the adapters they already hold keep working.                *)

RemoveProvider(p) ==
    /\ p \in provs \cap Removable
    /\ DeleteProvider(p)
    /\ UNCHANGED <<remoteVars, job, pipeVars>>

PutStep(w) ==
    \/ \E f \in File : StartPut(w, f)
    \/ \E c \in Chunk, p \in Provider : PutLands(w, c, p) \/ PutFails(w, c, p)
                                            \/ CleanupOne(w, p, c)
    \/ EndCleanup(w) \/ CommitPut(w)

RemoveStep(w) ==
    \/ \E f \in File : StartRemove(w, f)
    \/ \E i \in RowId : RemoveOne(w, i)
    \/ EndRemove(w)

GetStep(r) ==
    \/ \E f \in File : StartGet(r, f)
    \/ \E i \in RowId : GetHit(r, i) \/ GetMissed(r, i)
    \/ GetExhausted(r)

PipelineInit ==
    /\ download = [r \in Reader |-> [op |-> "idle"]]
    /\ used = {}
    /\ stray = {}

PipelineTypeOK ==
    /\ download \in [Reader -> Outcome \cup Reading]
    /\ used \subseteq File
    /\ stray \subseteq Provider \X Chunk
=============================================================================
