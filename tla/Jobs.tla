---------------------------------- MODULE Jobs ----------------------------------
(***************************************************************************)
(* The processes that change the register and the providers: the daemon's  *)
(* single job worker (worker.py), and the command-line program running the *)
(* same library functions on the same register.  job[w] is where process w *)
(* stands, with the local variables that live across its awaits.  A step   *)
(* goes from the answer of one provider call to the next call, or, where   *)
(* the code changes the register twice in between, from one transaction to *)
(* the next: another process, or the end of this one, may come in there.   *)
(***************************************************************************)
EXTENDS Remote

CONSTANT Worker

VARIABLE job

\* Not running.  "failed" keeps the fact that the last job ended in an
\* exception, or with its process, until the next one starts.
Idle == [op |-> "idle"]
Failed == [op |-> "failed"]
Free(w) == job[w] \in {Idle, Failed}

Become(w, s) == job' = [job EXCEPT ![w] = s]

ScanState == [op : {"scan"}, deep : BOOLEAN, repair : BOOLEAN,
              seen : Snapshot, todo : SUBSET RowId]
RepairState == [op : {"repair"}, handles : SUBSET Provider,
                work : SUBSET Chunk, report : SUBSET Chunk]
FetchState == [op : {"fetch"}, handles : SUBSET Provider,
               work : SUBSET Chunk, report : SUBSET Chunk,
               chunk : Chunk, seen : Snapshot, todo : SUBSET RowId]
UploadState == [op : {"upload"}, handles : SUBSET Provider,
                work : SUBSET Chunk, report : SUBSET Chunk,
                chunk : Chunk, seen : Snapshot, targets : SUBSET Provider,
                stale : SUBSET RowId]
PutState == [op : {"put"}, file : File, plan : [Group -> SUBSET Provider],
             left : SUBSET Chunk, landed : SUBSET Provider]
CleanupState == [op : {"cleanup"}, uploaded : SUBSET (Provider \X Chunk)]
RemoveState == [op : {"remove"}, file : File, seen : Snapshot, todo : SUBSET RowId]

JobState == {Idle, Failed} \cup ScanState \cup RepairState \cup FetchState
                \cup UploadState \cup PutState \cup CleanupState \cup RemoveState

JobsInit == job = [w \in Worker |-> Idle]
=============================================================================
