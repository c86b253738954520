-------------------------------- MODULE JobQueue --------------------------------
(***************************************************************************)
(* The daemon's job queue (the jobs table, worker.py, and the handlers of  *)
(* app.py that fill it) through crashes, shutdowns and restarts.  The jobs *)
(* table and the spool files survive the process; everything else is its   *)
(* memory.  The daemon is one event loop: a request handler runs only      *)
(* while the worker awaits something.  What a job does to the providers is *)
(* module Pipeline's; here it is its effect on the tree of virtual paths.  *)
(***************************************************************************)
EXTENDS Naturals, Sequences

CONSTANTS
    Request,        \* requests, each made at most once
    VPath,          \* virtual paths
    KindOf,         \* what a request asks for: a job's kind
    PathOf,         \* the path it names: the job's payload
    NoFile,         \* nothing is stored at a path
    ListLimit,      \* how many jobs cleanup_stale_spool looks at (1000)
    MaxStops        \* bound: crashes and shutdowns

ASSUME QueueAssumption ==
    /\ KindOf \in [Request -> {"upload", "delete", "scrub"}]
    /\ PathOf \in [Request -> VPath]
    /\ NoFile \notin Request
    /\ ListLimit \in Nat /\ MaxStops \in Nat

VARIABLES
    jobs,           \* the jobs table, by id: request and state
    spool,          \* the uploads whose spool file exists
    tree,           \* the files table: which upload made the file at a path
    spooling,       \* upload handlers that are writing their spool file
    turn,           \* where the worker stands; "down" when no daemon runs
    locked,         \* state.vault is None
    serving,        \* the HTTP server listens
    wake,           \* the event the idle worker waits for
    stops,          \* crashes and shutdowns so far
    committed       \* history: requests whose transaction has been committed

memory == <<spooling, locked, serving, wake>>
vars == <<jobs, spool, tree, turn, memory, stops, committed>>

At(op) == [op |-> op]
Working(op, i) == [op |-> op, id |-> i]
Removing(i, f) == [op |-> "removing", id |-> i, file |-> f]
Ending(op, i, ok) == [op |-> op, id |-> i, ok |-> ok]

Turn == {At(op) : op \in {"down", "starting", "waiting", "telling"}}
          \cup [op : {"claimed", "putting", "scrubbing"}, id : DOMAIN jobs]
          \cup [op : {"removing"}, id : DOMAIN jobs, file : Request]
          \cup [op : {"unlink", "finish"}, id : DOMAIN jobs, ok : BOOLEAN]

Job == [req : Request, state : {"pending", "running", "done", "failed"}]
Finished(i) == jobs[i].state \in {"done", "failed"}
Queued == {jobs[i].req : i \in DOMAIN jobs}
Pending == {i \in DOMAIN jobs : jobs[i].state = "pending"}

\* The worker awaits something, so other tasks of the event loop may run.
Awaiting == turn.op \in {"waiting", "telling", "claimed", "putting", "removing", "scrubbing"}
Listening == serving /\ Awaiting

Init ==
    /\ jobs = <<>> /\ spool = {} /\ committed = {}
    /\ tree = [p \in VPath |-> NoFile]
    /\ spooling = {} /\ locked = TRUE /\ serving = FALSE /\ wake = FALSE
    /\ turn = At("down")
    /\ stops = 0

----------------------------------------------------------------------------
(* The request handlers.                                                   *)

AddJob(r) ==
    /\ jobs' = Append(jobs, [req |-> r, state |-> "pending"])
    /\ wake' = TRUE

\* upload: the checks, and the first write to the spool file.
StartSpooling(r) ==
    /\ Listening /\ ~locked
    /\ KindOf[r] = "upload" /\ r \notin Queued \cup spooling \cup spool
    /\ tree[PathOf[r]] = NoFile
    /\ spool' = spool \cup {r} /\ spooling' = spooling \cup {r}
    /\ UNCHANGED <<jobs, tree, turn, locked, serving, wake, stops, committed>>

\* upload: the body has been read, which takes awaits; nothing is checked anew.
QueueUpload(r) ==
    /\ Listening
    /\ r \in spooling
    /\ AddJob(r)
    /\ spooling' = spooling \ {r}
    /\ UNCHANGED <<spool, tree, turn, locked, serving, stops, committed>>

\* delete_file and scrub.
QueueOther(r) ==
    /\ Listening
    /\ KindOf[r] # "upload" /\ r \notin Queued
    /\ KindOf[r] = "delete" => tree[PathOf[r]] # NoFile
    /\ AddJob(r)
    /\ UNCHANGED <<spool, tree, spooling, turn, locked, serving, stops, committed>>

\* move: done at once, whatever jobs name these paths.
Move(src, dst) ==
    /\ Listening
    /\ tree[src] # NoFile /\ tree[dst] = NoFile
    /\ tree' = [tree EXCEPT ![dst] = tree[src], ![src] = NoFile]
    /\ UNCHANGED <<jobs, spool, turn, memory, stops, committed>>

\* lock and unlock.
SetLock(value) ==
    /\ Listening
    /\ locked # value /\ locked' = value
    /\ UNCHANGED <<jobs, spool, tree, spooling, turn, serving, wake, stops, committed>>

Handlers ==
    \/ \E r \in Request : StartSpooling(r) \/ QueueUpload(r) \/ QueueOther(r)
    \/ \E src, dst \in VPath : Move(src, dst)
    \/ \E value \in BOOLEAN : SetLock(value)

----------------------------------------------------------------------------
(* The worker.                                                             *)

\* Mutated form: the newest job is claimed first.
IsNextJobLifo(i) == i \in Pending /\ \A j \in Pending : j <= i

\* ORDER BY id LIMIT 1 of claim_next_job.
IsNextJob(i) == i \in Pending /\ \A j \in Pending : i <= j

\* claim_next_job, then the broadcast; without a job the event is cleared and
\* waited for, with no await in between.
ClaimNext ==
    /\ \/ \E i \in DOMAIN jobs :
             /\ IsNextJob(i)
             /\ jobs' = [jobs EXCEPT ![i].state = "running"]
             /\ turn' = Working("claimed", i)
             /\ UNCHANGED wake
       \/ /\ Pending = {}
          /\ turn' = At("waiting") /\ wake' = FALSE
          /\ UNCHANGED jobs
    /\ UNCHANGED <<spool, tree, spooling, locked, serving, stops, committed>>

Poll ==
    /\ turn.op \in {"starting", "telling"} \/ (turn.op = "waiting" /\ wake)
    /\ ClaimNext

\* The fallback poll: the wait for the event times out.
TimedOut == turn.op = "waiting" /\ ~wake /\ ClaimNext

\* The handler starts.  put_file refuses a path that is taken or a spool file
\* that is not there, and the finally of _upload runs; the check of the vault
\* comes before the try.
BeginUpload(i, r) ==
    \/ locked /\ turn' = Ending("finish", i, FALSE)
    \/ /\ ~locked /\ (tree[PathOf[r]] # NoFile \/ r \notin spool)
       /\ turn' = Ending("unlink", i, FALSE)
    \/ /\ ~locked /\ tree[PathOf[r]] = NoFile /\ r \in spool
       /\ turn' = Working("putting", i)

\* Mutated form: the path is not looked up.
BeginDeleteBlind(i, r) == turn' = Removing(i, tree[PathOf[r]])

\* remove_file looks the path up once, and then knows the file by its id.
BeginDelete(i, r) ==
    \/ tree[PathOf[r]] = NoFile /\ turn' = Ending("finish", i, FALSE)
    \/ tree[PathOf[r]] # NoFile /\ turn' = Removing(i, tree[PathOf[r]])

Begin ==
    /\ turn.op = "claimed"
    /\ LET r == jobs[turn.id].req
       IN  \/ KindOf[r] = "upload" /\ BeginUpload(turn.id, r)
           \/ KindOf[r] = "delete" /\ BeginDelete(turn.id, r)
           \/ KindOf[r] = "scrub" /\ turn' = Working("scrubbing", turn.id)
    /\ UNCHANGED <<jobs, spool, tree, memory, stops, committed>>

Commit(r, t) == tree' = t /\ committed' = committed \cup {r}

\* put_file ends: the file is inserted, unless its path was taken meanwhile.
PutCommits ==
    /\ turn.op = "putting"
    /\ LET r == jobs[turn.id].req
       IN  \/ /\ tree[PathOf[r]] = NoFile
              /\ Commit(r, [tree EXCEPT ![PathOf[r]] = r])
              /\ turn' = Ending("unlink", turn.id, TRUE)
           \/ /\ tree[PathOf[r]] # NoFile
              /\ turn' = Ending("unlink", turn.id, FALSE)
              /\ UNCHANGED <<tree, committed>>
    /\ UNCHANGED <<jobs, spool, memory, stops>>

RemoveCommits ==
    /\ turn.op = "removing"
    /\ Commit(jobs[turn.id].req,
              [p \in VPath |-> IF tree[p] = turn.file THEN NoFile ELSE tree[p]])
    /\ turn' = Ending("finish", turn.id, TRUE)
    /\ UNCHANGED <<jobs, spool, memory, stops>>

\* The handler raises.
JobFails ==
    /\ \/ turn.op = "putting" /\ turn' = Ending("unlink", turn.id, FALSE)
       \/ turn.op \in {"removing", "scrubbing"} /\ turn' = Ending("finish", turn.id, FALSE)
    /\ UNCHANGED <<jobs, spool, tree, memory, stops, committed>>

ScrubEnds ==
    /\ turn.op = "scrubbing" /\ turn' = Ending("finish", turn.id, TRUE)
    /\ UNCHANGED <<jobs, spool, tree, memory, stops, committed>>

\* The finally of _upload.
Unlink ==
    /\ turn.op = "unlink"
    /\ spool' = spool \ {jobs[turn.id].req}
    /\ turn' = Ending("finish", turn.id, turn.ok)
    /\ UNCHANGED <<jobs, tree, memory, stops, committed>>

\* finish_job, then the broadcast.
Finish ==
    /\ turn.op = "finish"
    /\ jobs' = [jobs EXCEPT ![turn.id].state = IF turn.ok THEN "done" ELSE "failed"]
    /\ turn' = At("telling")
    /\ UNCHANGED <<spool, tree, memory, stops, committed>>

Work == \/ Poll \/ Begin \/ PutCommits \/ RemoveCommits \/ JobFails \/ ScrubEnds
        \/ Unlink \/ Finish

----------------------------------------------------------------------------
(* The life of the process.                                                *)

Rescued == [i \in DOMAIN jobs |->
               IF jobs[i].state = "running" THEN [jobs[i] EXCEPT !.state = "pending"]
               ELSE jobs[i]]

\* cleanup_stale_spool goes by the uploads pending among the latest jobs.
PendingSpool(js) ==
    {js[i].req : i \in {k \in DOMAIN js : /\ js[k].state = "pending"
                                          /\ k + ListLimit > Len(js)}}

Restart(js, kept) ==
    /\ turn = At("down") /\ turn' = At("starting")
    /\ jobs' = js
    /\ spool' = IF \E i \in DOMAIN jobs : jobs[i].state = "running"
                THEN spool \cap kept ELSE spool
    /\ UNCHANGED <<tree, memory, stops, committed>>

\* Mutated forms: running jobs are not rescued; the spool is cleaned first.
StartForgets == Restart(jobs, PendingSpool(jobs))
StartCleansFirst == Restart(Rescued, PendingSpool(jobs))

\* lifespan: rescue, and only if there was something to, clean the spool.
Start == Restart(Rescued, PendingSpool(Rescued))

\* The server listens only after the worker's first turn: its task is created
\* before lifespan yields, and with no client yet the broadcast does not wait.
Serve ==
    /\ ~serving /\ turn.op \notin {"down", "starting", "claimed"}
    /\ serving' = TRUE
    /\ UNCHANGED <<jobs, spool, tree, spooling, turn, locked, wake, stops, committed>>

Stop ==
    /\ stops < MaxStops /\ stops' = stops + 1
    /\ turn' = At("down")
    /\ spooling' = {} /\ locked' = TRUE /\ serving' = FALSE /\ wake' = FALSE
    /\ UNCHANGED <<jobs, tree, committed>>

Crash == turn.op # "down" /\ Stop /\ UNCHANGED spool

\* The end of lifespan, after the last request: the worker is cancelled at its
\* await.  Nothing catches that but the finally of _upload.
Shutdown ==
    /\ Listening /\ spooling = {}
    /\ Stop
    /\ spool' = IF turn.op = "putting" THEN spool \ {jobs[turn.id].req} ELSE spool

Next == Handlers \/ Work \/ TimedOut \/ Start \/ Serve \/ Crash \/ Shutdown

Spec == Init /\ [][Next]_vars

----------------------------------------------------------------------------
(* Properties.                                                             *)

TypeOK ==
    /\ jobs \in Seq(Job)
    /\ spool \subseteq Request /\ spooling \subseteq Request
    /\ tree \in [VPath -> Request \cup {NoFile}]
    /\ turn \in Turn
    /\ locked \in BOOLEAN /\ serving \in BOOLEAN /\ wake \in BOOLEAN
    /\ stops \in 0..MaxStops
    /\ committed \subseteq Request

\* The queue keeps the promise of SerialRequests: a job has been served once
\* its transaction is committed, or it has ended.
Serial == INSTANCE SerialRequests WITH
              asked <- [i \in DOMAIN jobs |-> jobs[i].req],
              handled <- {i \in DOMAIN jobs : Finished(i) \/ jobs[i].req \in committed}
ServesInOrder == Serial!Spec

KeepsSpool == \A i \in DOMAIN jobs :
                 ~Finished(i) /\ jobs[i].req \in spool => jobs[i].req \in spool'

\* The clean-up of a starting daemon takes away no bytes that a job, rescued or
\* still queued, is to store.
RestartKeepsSpool == [][turn.op = "down" => KeepsSpool]_vars

\* Every call of a handler returns or raises in the end, and the worker's task
\* is then run.  The fallback poll is not relied on, nor is anything assumed
\* about users, crashes or restarts.
FairSpec == Spec /\ WF_vars(Work)

Unfinished(r) == \E i \in DOMAIN jobs : jobs[i].req = r /\ ~Finished(i)

\* A queued job ends, one rescued after a crash too, unless the daemon goes
\* down first: the worker never sleeps through the event that wakes it.
JobsFinish ==
    \A r \in Request :
        Unfinished(r) /\ turn.op # "down" ~> ~Unfinished(r) \/ turn.op = "down"
=============================================================================
