------------------------------- MODULE QueueProofs -------------------------------
(***************************************************************************)
(* JobQueue keeps the promise of SerialRequests, for any requests, paths   *)
(* and number of crashes.  What makes it true: jobs are finished in the    *)
(* order of their ids and at most the oldest unfinished one is running, or *)
(* was when the daemon went down; and an upload whose transaction was      *)
(* committed before a crash finds its own file in its way when it runs     *)
(* again, because nothing is served before the worker's first turn.        *)
(***************************************************************************)
EXTENDS JobQueue, SequenceTheorems, FiniteSetTheorems, TLAPS

Occupied == turn.op \in {"claimed", "putting", "removing", "scrubbing", "unlink", "finish"}

\* No job has left the queue's head before those ahead of it have finished.
OldestFirst ==
    \A i, j \in DOMAIN jobs : i < j /\ jobs[j].state # "pending" => Finished(i)

\* With a daemon up, the running job is the one the worker is at.
OneRuns ==
    /\ Occupied => jobs[turn.id].state = "running"
    /\ \A i \in DOMAIN jobs :
          jobs[i].state = "running" => turn.op = "down" \/ (Occupied /\ turn.id = i)

RightKind ==
    /\ turn.op = "putting" => KindOf[jobs[turn.id].req] = "upload"
    /\ turn.op = "removing" => KindOf[jobs[turn.id].req] = "delete"

OneJobPerRequest ==
    /\ \A i, j \in DOMAIN jobs : jobs[i].req = jobs[j].req => i = j
    /\ \A i \in DOMAIN jobs : jobs[i].req \notin spooling
    /\ \A r \in committed : \E i \in DOMAIN jobs : jobs[i].req = r

\* Job i, an upload that is in the tree already, will not upload again.
WillRefuse(i) ==
    /\ tree[PathOf[jobs[i].req]] # NoFile
    /\ \/ turn.op \in {"down", "starting"} /\ ~serving
       \/ turn.op = "claimed" /\ turn.id = i /\ ~serving
       \/ turn.op \in {"unlink", "finish"} /\ turn.id = i

ServedOnce ==
    \A i \in DOMAIN jobs :
        jobs[i].req \in committed /\ ~Finished(i) =>
            /\ \A j \in DOMAIN jobs : j < i => Finished(j)
            /\ KindOf[jobs[i].req] = "upload" => WillRefuse(i)

SpoolingUploads == \A r \in spooling : KindOf[r] = "upload"

QueueInv ==
    /\ TypeOK
    /\ SpoolingUploads
    /\ OldestFirst /\ OneRuns /\ RightKind
    /\ OneJobPerRequest /\ ServedOnce

----------------------------------------------------------------------------
(* The table.                                                              *)

\* What a sequence of jobs is.
LEMMA JobsAreJobs ==
    ASSUME TypeOK
    PROVE  /\ Len(jobs) \in Nat /\ DOMAIN jobs = 1..Len(jobs)
           /\ \A i \in DOMAIN jobs : jobs[i] \in Job /\ jobs[i].req \in Request
  <1>1. jobs \in Seq(Job)
    BY DEF TypeOK
  <1>2. \A i \in 1..Len(jobs) : jobs[i] \in Job
    BY <1>1, ElementOfSeq
  <1>3. QED
    BY <1>1, <1>2 DEF Job

\* add_job appends one pending job and leaves the others as they are.
LEMMA AddJobAppends ==
    ASSUME TypeOK, NEW r \in Request, AddJob(r)
    PROVE  /\ jobs' \in Seq(Job)
           /\ Len(jobs) + 1 \in Nat
           /\ DOMAIN jobs = 1..Len(jobs) /\ DOMAIN jobs' = 1..(Len(jobs) + 1)
           /\ \A i \in DOMAIN jobs : jobs'[i] = jobs[i]
           /\ jobs'[Len(jobs) + 1] = [req |-> r, state |-> "pending"]
  BY DEF TypeOK, AddJob, Job

\* A step of the worker changes the state of one job at most.
LEMMA StateIsSet ==
    ASSUME TypeOK, NEW i \in DOMAIN jobs,
           NEW s \in {"pending", "running", "done", "failed"},
           jobs' = [jobs EXCEPT ![i].state = s]
    PROVE  /\ jobs' \in Seq(Job)
           /\ DOMAIN jobs' = DOMAIN jobs
           /\ jobs'[i] = [jobs[i] EXCEPT !.state = s]
           /\ jobs'[i].req = jobs[i].req /\ jobs'[i].state = s
           /\ \A j \in DOMAIN jobs : j # i => jobs'[j] = jobs[j]
  <1>1. jobs[i] \in Job /\ [jobs[i] EXCEPT !.state = s] \in Job
    BY JobsAreJobs DEF Job
  <1>2. jobs' = [jobs EXCEPT ![i] = [jobs[i] EXCEPT !.state = s]]
    OBVIOUS
  <1>3. jobs \in Seq(Job) /\ i \in 1..Len(jobs)
    BY JobsAreJobs DEF TypeOK
  <1>4. jobs' \in Seq(Job)
    BY <1>1, <1>2, <1>3, ExceptSeq
  <1>5. QED
    BY <1>1, <1>2, <1>3, <1>4 DEF Job

\* The rescue sets running jobs back and touches no other.
LEMMA RescueResets ==
    ASSUME TypeOK
    PROVE  /\ Rescued \in Seq(Job)
           /\ DOMAIN Rescued = DOMAIN jobs
           /\ \A i \in DOMAIN jobs :
                 /\ Rescued[i].req = jobs[i].req
                 /\ Rescued[i].state = (IF jobs[i].state = "running" THEN "pending"
                                        ELSE jobs[i].state)
  <1> DEFINE e(i) == IF jobs[i].state = "running" THEN [jobs[i] EXCEPT !.state = "pending"]
                     ELSE jobs[i]
  <1>1. \A i \in 1..Len(jobs) : e(i) \in Job
    BY JobsAreJobs DEF Job
  <1>2. Rescued = [i \in 1..Len(jobs) |-> e(i)]
    BY JobsAreJobs DEF Rescued
  <1>3. Rescued \in Seq(Job)
    BY <1>1, <1>2, JobsAreJobs
  <1>4. QED
    BY <1>2, <1>3, JobsAreJobs DEF Job

----------------------------------------------------------------------------
(* Types.                                                                  *)

\* What the types say of the worker's turn, and when it stays well typed.
LEMMA TurnFacts ==
    ASSUME TypeOK
    PROVE  /\ Occupied => turn.id \in DOMAIN jobs
           /\ turn.op = "removing" => turn.file \in Request
           /\ turn.op \in {"unlink", "finish"} => turn.ok \in BOOLEAN
           /\ turn.op \in {"down", "starting", "waiting", "telling", "claimed", "putting",
                           "scrubbing", "removing", "unlink", "finish"}
  BY DEF TypeOK, Turn, Occupied, At

\* A turn stays well typed while the table only grows.
LEMMA TurnKeepsType ==
    ASSUME TypeOK, turn' = turn, DOMAIN jobs \subseteq DOMAIN jobs'
    PROVE  turn' \in Turn'
  BY DEF TypeOK, Turn, At

\* Each form of a turn is one.
LEMMA TurnForms ==
    ASSUME NEW i \in DOMAIN jobs, NEW ok \in BOOLEAN, DOMAIN jobs' = DOMAIN jobs
    PROVE  /\ Ending("unlink", i, ok) \in Turn' /\ Ending("finish", i, ok) \in Turn'
           /\ Working("claimed", i) \in Turn' /\ Working("putting", i) \in Turn'
           /\ Working("scrubbing", i) \in Turn'
           /\ \A f \in Request : Removing(i, f) \in Turn'
           /\ At("waiting") \in Turn' /\ At("telling") \in Turn'
  BY DEF Turn, Ending, Working, Removing, At

\* The handlers keep the types.
LEMMA HandlersType ==
    ASSUME QueueAssumption, TypeOK, Handlers
    PROVE  TypeOK'
  <1> USE DEF TypeOK, memory
  <1>1. ASSUME NEW r \in Request, StartSpooling(r)
        PROVE  TypeOK'
    BY <1>1, TurnKeepsType DEF StartSpooling, Job
  <1>2. ASSUME NEW r \in Request, AddJob(r)
        PROVE  jobs' \in Seq(Job) /\ DOMAIN jobs \subseteq DOMAIN jobs' /\ wake' = TRUE
    BY <1>2, AddJobAppends DEF AddJob
  <1>3. ASSUME NEW r \in Request, QueueUpload(r)
        PROVE  TypeOK'
    BY <1>2, <1>3, TurnKeepsType DEF QueueUpload, Job
  <1>4. ASSUME NEW r \in Request, QueueOther(r)
        PROVE  TypeOK'
    BY <1>2, <1>4, TurnKeepsType DEF QueueOther, Job
  <1>5. ASSUME NEW src \in VPath, NEW dst \in VPath, Move(src, dst)
        PROVE  TypeOK'
    BY <1>5, TurnKeepsType DEF Move, Job
  <1>6. ASSUME NEW value \in BOOLEAN, SetLock(value)
        PROVE  TypeOK'
    BY <1>6, TurnKeepsType DEF SetLock, Job
  <1>7. QED
    BY <1>1, <1>3, <1>4, <1>5, <1>6 DEF Handlers

\* So do the steps of the worker.
LEMMA WorkType ==
    ASSUME QueueAssumption, TypeOK, Work \/ TimedOut
    PROVE  TypeOK'
  <1> USE DEF memory
  <1>1. CASE ClaimNext
    <2>1. ASSUME NEW i \in DOMAIN jobs, jobs' = [jobs EXCEPT ![i].state = "running"],
                 turn' = Working("claimed", i)
          PROVE  jobs' \in Seq(Job) /\ turn' \in Turn'
      BY <2>1, StateIsSet DEF Turn, Working
    <2>2. ASSUME turn' = At("waiting")
          PROVE  turn' \in Turn'
      BY <2>2 DEF Turn
    <2>3. jobs' \in Seq(Job) /\ turn' \in Turn' /\ wake' \in BOOLEAN
      BY <1>1, <2>1, <2>2 DEF ClaimNext, TypeOK
    <2>4. QED
      BY <1>1, <2>3 DEF ClaimNext, TypeOK, Job
  <1>2. CASE Begin
    <2>1. turn.id \in DOMAIN jobs /\ jobs[turn.id].req \in Request
      BY <1>2, TurnFacts, JobsAreJobs DEF Begin, Occupied
    <2>2. KindOf[jobs[turn.id].req] = "delete" /\ tree[PathOf[jobs[turn.id].req]] # NoFile
             => tree[PathOf[jobs[turn.id].req]] \in Request
      BY <2>1 DEF TypeOK, QueueAssumption
    <2>3. turn' \in Turn'
      BY <1>2, <2>1, <2>2, TurnForms DEF Begin, BeginUpload, BeginDelete
    <2>4. QED
      BY <1>2, <2>3 DEF Begin, TypeOK, Job
  <1>3. CASE PutCommits
    <2>1. turn.id \in DOMAIN jobs /\ jobs[turn.id].req \in Request
      BY <1>3, TurnFacts, JobsAreJobs DEF PutCommits, Occupied
    <2>2. turn' \in Turn'
      BY <1>3, <2>1, TurnForms DEF PutCommits
    <2>3. QED
      BY <1>3, <2>1, <2>2 DEF PutCommits, Commit, TypeOK, Job, QueueAssumption
  <1>4. CASE RemoveCommits
    <2>1. turn.id \in DOMAIN jobs /\ jobs[turn.id].req \in Request
      BY <1>4, TurnFacts, JobsAreJobs DEF RemoveCommits, Occupied
    <2>2. turn' \in Turn'
      BY <1>4, <2>1, TurnForms DEF RemoveCommits
    <2>3. QED
      BY <1>4, <2>1, <2>2 DEF RemoveCommits, Commit, TypeOK, Job
  <1>5. CASE JobFails \/ ScrubEnds
    <2>1. turn.id \in DOMAIN jobs
      BY <1>5, TurnFacts DEF JobFails, ScrubEnds, Occupied
    <2>2. turn' \in Turn'
      BY <1>5, <2>1, TurnForms DEF JobFails, ScrubEnds
    <2>3. QED
      BY <1>5, <2>2 DEF JobFails, ScrubEnds, TypeOK, Job
  <1>6. CASE Unlink
    <2>1. turn.id \in DOMAIN jobs /\ turn.ok \in BOOLEAN
      BY <1>6, TurnFacts DEF Unlink, Occupied
    <2>2. turn' \in Turn'
      BY <1>6, <2>1, TurnForms DEF Unlink
    <2>3. QED
      BY <1>6, <2>2 DEF Unlink, TypeOK, Job
  <1>7. CASE Finish
    <2>1. turn.id \in DOMAIN jobs
      BY <1>7, TurnFacts DEF Finish, Occupied
    <2>2. jobs' \in Seq(Job)
      BY <1>7, <2>1, StateIsSet DEF Finish
    <2>3. turn' \in Turn'
      BY <1>7 DEF Finish, Turn
    <2>4. QED
      BY <1>7, <2>2, <2>3 DEF Finish, TypeOK, Job
  <1>8. QED
    BY <1>1, <1>2, <1>3, <1>4, <1>5, <1>6, <1>7 DEF Work, Poll, TimedOut

\* And so do the start and the end of the daemon.
LEMMA ProcessType ==
    ASSUME QueueAssumption, TypeOK, Start \/ Serve \/ Crash \/ Shutdown
    PROVE  TypeOK'
  <1> USE DEF memory
  <1>1. CASE Start
    <2>1. turn' \in Turn'
      BY <1>1 DEF Start, Restart, Turn
    <2>2. QED
      BY <1>1, <2>1, RescueResets DEF Start, Restart, TypeOK, Job
  <1>2. CASE Serve
    BY <1>2, TurnKeepsType DEF Serve, TypeOK, Job
  <1>3. CASE Stop /\ (spool' = spool \/ spool' \subseteq spool)
    <2>1. turn' \in Turn'
      BY <1>3 DEF Stop, Turn
    <2>2. stops' \in 0..MaxStops
      BY <1>3 DEF Stop, TypeOK, QueueAssumption
    <2>3. QED
      BY <1>3, <2>1, <2>2 DEF Stop, TypeOK, Job
  <1>4. QED
    BY <1>1, <1>2, <1>3 DEF Crash, Shutdown

\* A daemon that has never run.
LEMMA InitType == Init => TypeOK
  <1>1. ASSUME Init
        PROVE  turn \in Turn /\ jobs \in Seq(Job)
    BY <1>1 DEF Init, Turn
  <1>2. ASSUME Init
        PROVE  stops \in 0..MaxStops
    BY <1>2, QueueAssumption DEF Init, QueueAssumption
  <1>3. QED
    BY <1>1, <1>2 DEF Init, TypeOK

\* Every step keeps the types.
LEMMA NextType == TypeOK /\ [Next]_vars => TypeOK'
  <1>1. ASSUME TypeOK, UNCHANGED vars
        PROVE  TypeOK'
    BY <1>1, TurnKeepsType DEF TypeOK, vars, memory, Job
  <1>2. QED
    BY <1>1, QueueAssumption, HandlersType, WorkType, ProcessType DEF Next

\* TypeOK, for any requests, paths and number of stops: the worker is always at
\* a job of the table, and a deletion knows a file that an upload made.
THEOREM QueueTypeCorrect == Spec => []TypeOK
  BY InitType, NextType, PTL DEF Spec

----------------------------------------------------------------------------
(* The invariant.                                                          *)

\* QueueInv without the types.
Order == SpoolingUploads /\ OldestFirst /\ OneRuns /\ RightKind /\ OneJobPerRequest /\ ServedOnce

\* Nothing is served while an upload that is stored may still run again.
LEMMA RefusalIsPrivate ==
    ASSUME Listening, NEW i, WillRefuse(i)
    PROVE  FALSE
  BY DEF Listening, Awaiting, WillRefuse

\* A new job goes to the end of the queue.
LEMMA AddJobOrder ==
    ASSUME QueueInv, Listening, NEW r \in Request, AddJob(r), r \notin Queued,
           spooling' \subseteq spooling, r \notin spooling',
           UNCHANGED <<tree, turn, serving, committed>>
    PROVE  Order'
  <1> DEFINE n == Len(jobs) + 1
  <1>1. /\ DOMAIN jobs = 1..Len(jobs) /\ DOMAIN jobs' = 1..n
        /\ n \in Nat /\ Len(jobs) \in Nat
        /\ \A i \in DOMAIN jobs : jobs'[i] = jobs[i]
        /\ jobs'[n].req = r /\ jobs'[n].state = "pending"
    <2>1. TypeOK
      BY DEF QueueInv
    <2>2. /\ n \in Nat /\ DOMAIN jobs = 1..Len(jobs) /\ DOMAIN jobs' = 1..n
          /\ \A i \in DOMAIN jobs : jobs'[i] = jobs[i]
          /\ jobs'[n] = [req |-> r, state |-> "pending"]
      BY <2>1, AddJobAppends
    <2>3. Len(jobs) \in Nat
      BY <2>1, JobsAreJobs
    <2>4. QED
      BY <2>2, <2>3
  <1>2. /\ DOMAIN jobs' = DOMAIN jobs \cup {n} /\ n \notin DOMAIN jobs
        /\ \A i \in DOMAIN jobs : i < n /\ ~(n < i) /\ ~(n < n)
    BY <1>1
  <1> HIDE DEF n
  <1>3. OldestFirst'
    <2>1. SUFFICES ASSUME NEW i \in DOMAIN jobs', NEW j \in DOMAIN jobs', i < j,
                          jobs'[j].state # "pending"
                   PROVE  Finished(i)'
      BY DEF OldestFirst
    <2>2. i \in DOMAIN jobs /\ j \in DOMAIN jobs
      BY <1>1, <1>2, <2>1
    <2>3. QED
      BY <1>1, <2>1, <2>2 DEF QueueInv, OldestFirst, Finished
  <1>4. Occupied => turn.id \in DOMAIN jobs
    BY TurnFacts DEF QueueInv
  <1>5. OneRuns'
    BY <1>1, <1>2, <1>4 DEF QueueInv, OneRuns, Occupied
  <1>6. RightKind'
    <2>1. Occupied => jobs'[turn.id].req = jobs[turn.id].req
      BY <1>1, <1>4
    <2>2. QED
      BY <2>1 DEF QueueInv, RightKind, Occupied
  <1>7. OneJobPerRequest'
    <2>1. \A i \in DOMAIN jobs : jobs[i].req # r
      BY DEF Queued
    <2>2. \A i, j \in DOMAIN jobs' : jobs'[i].req = jobs'[j].req => i = j
      BY <1>1, <1>2, <2>1 DEF QueueInv, OneJobPerRequest
    <2>3. \A i \in DOMAIN jobs' : jobs'[i].req \notin spooling'
      BY <1>1, <1>2 DEF QueueInv, OneJobPerRequest
    <2>4. \A q \in committed' : \E i \in DOMAIN jobs' : jobs'[i].req = q
      BY <1>1, <1>2 DEF QueueInv, OneJobPerRequest
    <2>5. QED
      BY <2>2, <2>3, <2>4 DEF OneJobPerRequest
  <1>8. ServedOnce'
    <2>1. r \notin committed
      BY DEF QueueInv, OneJobPerRequest, Queued
    <2>2. \A i \in DOMAIN jobs : ~WillRefuse(i)
      BY RefusalIsPrivate
    <2>3. QED
      BY <1>1, <1>2, <2>1, <2>2 DEF QueueInv, ServedOnce, Finished
  <1>9. SpoolingUploads'
    BY DEF QueueInv, SpoolingUploads
  <1>10. QED
    BY <1>3, <1>5, <1>6, <1>7, <1>8, <1>9 DEF Order

\* A handler that queues nothing may do what it likes to the tree.
LEMMA OtherHandlersOrder ==
    ASSUME QueueInv, Listening, UNCHANGED <<jobs, turn, committed>>,
           \A i \in DOMAIN jobs : jobs[i].req \notin spooling',
           \A r \in spooling' : KindOf[r] = "upload"
    PROVE  Order'
  <1>1. OldestFirst' /\ OneRuns' /\ RightKind' /\ OneJobPerRequest'
    BY DEF QueueInv, OldestFirst, OneRuns, RightKind, OneJobPerRequest, Occupied, Finished
  <1>2. \A i \in DOMAIN jobs : ~WillRefuse(i)
    BY RefusalIsPrivate
  <1>3. ServedOnce'
    BY <1>2 DEF QueueInv, ServedOnce, Finished
  <1>4. QED
    BY <1>1, <1>3 DEF Order, SpoolingUploads

\* The handlers keep the invariant.
LEMMA HandlersOrder ==
    ASSUME QueueInv, Handlers
    PROVE  Order'
  <1>1. ASSUME NEW r \in Request, StartSpooling(r)
        PROVE  Order'
    <2>1. \A i \in DOMAIN jobs : jobs[i].req \notin spooling'
      BY <1>1 DEF StartSpooling, QueueInv, OneJobPerRequest, Queued
    <2>2. QED
      BY <1>1, <2>1, OtherHandlersOrder DEF StartSpooling, QueueInv, SpoolingUploads
  <1>2. ASSUME NEW r \in Request, QueueUpload(r)
        PROVE  Order'
    <2>1. r \notin Queued
      BY <1>2 DEF QueueUpload, QueueInv, OneJobPerRequest, Queued
    <2>2. QED
      BY <1>2, <2>1, AddJobOrder DEF QueueUpload
  <1>3. ASSUME NEW r \in Request, QueueOther(r)
        PROVE  Order'
    <2>1. r \notin spooling
      BY <1>3 DEF QueueOther, QueueInv, SpoolingUploads
    <2>2. QED
      BY <1>3, <2>1, AddJobOrder DEF QueueOther
  <1>4. ASSUME NEW src \in VPath, NEW dst \in VPath, Move(src, dst)
        PROVE  Order'
    BY <1>4, OtherHandlersOrder DEF Move, memory, QueueInv, OneJobPerRequest, SpoolingUploads
  <1>5. ASSUME NEW value \in BOOLEAN, SetLock(value)
        PROVE  Order'
    BY <1>5, OtherHandlersOrder DEF SetLock, QueueInv, OneJobPerRequest, SpoolingUploads
  <1>6. QED
    BY <1>1, <1>2, <1>3, <1>4, <1>5 DEF Handlers

\* Claiming the oldest pending job: every job ahead of it has finished.
LEMMA ClaimOrder ==
    ASSUME QueueInv, ClaimNext, turn.op \in {"starting", "telling", "waiting"}
    PROVE  Order'
  <1>1. \A i \in DOMAIN jobs : jobs[i].state \in {"pending", "done", "failed"}
    BY JobsAreJobs DEF QueueInv, OneRuns, Occupied, Job
  <1>2. ASSUME NEW i \in DOMAIN jobs, IsNextJob(i),
               jobs' = [jobs EXCEPT ![i].state = "running"], turn' = Working("claimed", i)
        PROVE  Order'
    <2>1. /\ DOMAIN jobs' = DOMAIN jobs /\ jobs'[i].state = "running"
          /\ \A j \in DOMAIN jobs : jobs'[j].req = jobs[j].req
          /\ \A j \in DOMAIN jobs : j # i => jobs'[j] = jobs[j]
      BY <1>2, StateIsSet DEF QueueInv
    <2>2. jobs[i].state = "pending" /\ \A j \in DOMAIN jobs : j < i => Finished(j)
      BY <1>1, <1>2, JobsAreJobs DEF IsNextJob, Pending, Finished, QueueInv
    <2>3. turn'.op = "claimed" /\ turn'.id = i
      BY <1>2 DEF Working
    <2>4. \A j \in DOMAIN jobs : Finished(j) => j # i /\ Finished(j)'
      BY <2>1, <2>2 DEF Finished
    <2>5. OldestFirst'
      BY <2>1, <2>2, <2>4 DEF QueueInv, OldestFirst
    <2>6. OneRuns'
      BY <1>1, <2>1, <2>3 DEF OneRuns, Occupied
    <2>7. RightKind' /\ OneJobPerRequest' /\ SpoolingUploads'
      BY <2>1, <2>3 DEF QueueInv, RightKind, OneJobPerRequest, SpoolingUploads, ClaimNext
    <2>8. ASSUME NEW j \in DOMAIN jobs, jobs[j].req \in committed, ~Finished(j)',
                 KindOf[jobs[j].req] = "upload"
          PROVE  WillRefuse(j)'
      <3>1. ~Finished(j) /\ \A k \in DOMAIN jobs : k < j => Finished(k)
        BY <2>4, <2>8 DEF QueueInv, ServedOnce
      <3>2. WillRefuse(j)
        BY <2>8, <3>1 DEF QueueInv, ServedOnce
      <3>3. j = i
        BY <2>2, <3>1, JobsAreJobs DEF Finished, QueueInv
      <3>4. tree' = tree /\ serving' = serving
        BY DEF ClaimNext
      <3>5. QED
        BY <2>1, <2>3, <3>2, <3>3, <3>4 DEF WillRefuse
    <2>9. ServedOnce'
      <3>1. committed' = committed
        BY DEF ClaimNext
      <3>2. QED
        BY <2>1, <2>4, <2>8, <3>1 DEF QueueInv, ServedOnce
    <2>10. QED
      BY <2>5, <2>6, <2>7, <2>9 DEF Order
  <1>3. CASE Pending = {} /\ turn' = At("waiting") /\ UNCHANGED jobs
    <2>1. \A i \in DOMAIN jobs : Finished(i)
      BY <1>1, <1>3 DEF Pending, Finished
    <2>2. QED
      BY <1>3, <2>1 DEF ClaimNext, Order, QueueInv, OldestFirst, OneRuns, RightKind, Occupied,
                        OneJobPerRequest, SpoolingUploads, ServedOnce, Finished, At
  <1>4. QED
    BY <1>2, <1>3 DEF ClaimNext

\* A step within a job that leaves the table and the books as they are.
LEMMA WithinJobOrder ==
    ASSUME QueueInv, Occupied, Occupied', turn'.id = turn.id,
           UNCHANGED <<jobs, spooling, committed>>, RightKind',
           \A i \in DOMAIN jobs : WillRefuse(i) => WillRefuse(i)'
    PROVE  Order'
  <1>1. OldestFirst' /\ SpoolingUploads'
    BY DEF QueueInv, OldestFirst, SpoolingUploads, Finished
  <1>2. OneRuns'
    BY DEF QueueInv, OneRuns, Occupied
  <1>3. OneJobPerRequest'
    BY DEF QueueInv, OneJobPerRequest
  <1>4. ServedOnce'
    BY DEF QueueInv, ServedOnce, Finished
  <1>5. QED
    BY <1>1, <1>2, <1>3, <1>4 DEF Order

\* The transaction of job turn.id is committed.
LEMMA CommitOrder ==
    ASSUME QueueInv, turn.op \in {"putting", "removing"}, NEW t,
           Commit(jobs[turn.id].req, t), turn'.op \in {"unlink", "finish"}, turn'.id = turn.id,
           UNCHANGED <<jobs, spooling>>,
           turn.op = "putting" => turn'.op = "unlink" /\ t[PathOf[jobs[turn.id].req]] # NoFile
    PROVE  Order'
  <1>1. Occupied /\ Occupied' /\ turn.id \in DOMAIN jobs /\ jobs[turn.id].state = "running"
    BY TurnFacts DEF Occupied, QueueInv, OneRuns
  <1>2. OldestFirst' /\ OneRuns' /\ RightKind' /\ SpoolingUploads'
    BY <1>1 DEF QueueInv, OldestFirst, OneRuns, RightKind, SpoolingUploads, Finished
  <1>3. OneJobPerRequest'
    BY <1>1 DEF QueueInv, OneJobPerRequest, Commit
  <1>4. \A i \in DOMAIN jobs : ~WillRefuse(i)
    BY DEF WillRefuse
  <1>5. \A j \in DOMAIN jobs : j < turn.id => Finished(j)
    BY <1>1 DEF QueueInv, OldestFirst
  <1>6. KindOf[jobs[turn.id].req] = "upload" => WillRefuse(turn.id)'
    BY <1>1 DEF QueueInv, RightKind, WillRefuse, Commit
  <1>7. \A i \in DOMAIN jobs :
           jobs[i].req \in committed' => jobs[i].req \in committed \/ i = turn.id
    BY <1>1 DEF QueueInv, OneJobPerRequest, Commit
  <1>8. ServedOnce'
    BY <1>4, <1>5, <1>6, <1>7 DEF QueueInv, ServedOnce, Finished
  <1>9. QED
    BY <1>2, <1>3, <1>8 DEF Order

\* The steps of the worker keep the invariant.
LEMMA WorkOrder ==
    ASSUME QueueAssumption, QueueInv, Work \/ TimedOut
    PROVE  Order'
  <1>1. CASE Poll \/ TimedOut
    BY <1>1, ClaimOrder DEF Poll, TimedOut
  <1>2. CASE Begin
    <2> DEFINE r == jobs[turn.id].req
    <2>1. Occupied
      BY <1>2 DEF Begin, Occupied
    <2>2. Occupied' /\ turn'.id = turn.id
      BY <1>2 DEF Begin, BeginUpload, BeginDelete, Occupied, Ending, Working, Removing
    <2>3. RightKind'
      BY <1>2 DEF Begin, BeginUpload, BeginDelete, RightKind, Ending, Working, Removing
    <2>4. ASSUME NEW i \in DOMAIN jobs, jobs[i].req \in committed, ~Finished(i),
                 KindOf[jobs[i].req] = "upload", WillRefuse(i)
          PROVE  WillRefuse(i)'
      <3>1. turn.id = i /\ tree[PathOf[r]] # NoFile /\ KindOf[r] = "upload"
        BY <1>2, <2>4 DEF Begin, WillRefuse
      <3>2. BeginUpload(turn.id, r)
        BY <1>2, <3>1 DEF Begin
      <3>3. turn'.op \in {"unlink", "finish"} /\ turn'.id = i
        BY <3>1, <3>2 DEF BeginUpload, Ending
      <3>4. QED
        BY <1>2, <3>1, <3>3 DEF Begin, WillRefuse
    <2>5. QED
      BY <1>2, <2>1, <2>2, <2>3, <2>4 DEF Begin, memory, Order, QueueInv, OldestFirst, OneRuns,
                OneJobPerRequest, SpoolingUploads, ServedOnce, Finished
  <1>3. CASE PutCommits
    <2> DEFINE r == jobs[turn.id].req
               t == [tree EXCEPT ![PathOf[r]] = r]
    <2>1. r \in Request
      BY <1>3, TurnFacts, JobsAreJobs DEF PutCommits, Occupied, QueueInv
    <2>2. CASE Commit(r, t)
      <3>1. t[PathOf[r]] # NoFile
        BY <2>1 DEF QueueAssumption, QueueInv, TypeOK
      <3>2. turn.op = "putting" /\ UNCHANGED <<jobs, spooling>>
        BY <1>3 DEF PutCommits, memory
      <3>3. turn'.op = "unlink" /\ turn'.id = turn.id
        BY <1>3 DEF PutCommits, Ending
      <3>4. QED
        BY <2>2, <3>1, <3>2, <3>3, CommitOrder
    <2>3. CASE UNCHANGED <<tree, committed>>
      BY <1>3, <2>3, WithinJobOrder DEF PutCommits, memory, Ending, Occupied, RightKind, WillRefuse
    <2>4. QED
      BY <1>3, <2>2, <2>3 DEF PutCommits
  <1>4. CASE RemoveCommits
    BY <1>4, CommitOrder DEF RemoveCommits, memory, Ending
  <1>5. CASE JobFails \/ ScrubEnds
    BY <1>5, WithinJobOrder
       DEF JobFails, ScrubEnds, memory, Ending, Occupied, RightKind, WillRefuse
  <1>6. CASE Unlink
    BY <1>6, WithinJobOrder DEF Unlink, memory, Ending, Occupied, RightKind, WillRefuse
  <1>7. CASE Finish
    <2> DEFINE i == turn.id
    <2>1. i \in DOMAIN jobs /\ jobs[i].state = "running"
      BY <1>7, TurnFacts DEF Finish, Occupied, QueueInv, OneRuns
    <2>2. /\ DOMAIN jobs' = DOMAIN jobs /\ jobs'[i].state \in {"done", "failed"}
          /\ \A j \in DOMAIN jobs : jobs'[j].req = jobs[j].req
          /\ \A j \in DOMAIN jobs : j # i => jobs'[j] = jobs[j]
      BY <1>7, <2>1, StateIsSet DEF Finish, QueueInv
    <2>3. turn'.op = "telling"
      BY <1>7 DEF Finish, At
    <2> HIDE DEF i
    <2>4. \A j \in DOMAIN jobs : Finished(j)' <=> Finished(j) \/ j = i
      BY <2>2 DEF Finished
    <2>5. OldestFirst'
      BY <2>1, <2>2, <2>4 DEF QueueInv, OldestFirst
    <2>6. \A j \in DOMAIN jobs : j # i => jobs[j].state # "running"
      BY <1>7 DEF QueueInv, OneRuns, Finish, i
    <2>7. OneRuns'
      BY <2>2, <2>3, <2>6 DEF OneRuns, Occupied
    <2>8. RightKind' /\ OneJobPerRequest' /\ SpoolingUploads'
      BY <1>7, <2>2, <2>3 DEF Finish, memory, QueueInv, RightKind, OneJobPerRequest,
                              SpoolingUploads
    <2>9. ServedOnce'
      <3>1. \A j \in DOMAIN jobs : WillRefuse(j) => j = i
        BY <1>7 DEF Finish, WillRefuse, i
      <3>2. committed' = committed
        BY <1>7 DEF Finish
      <3>3. QED
        BY <2>2, <2>4, <3>1, <3>2 DEF QueueInv, ServedOnce
    <2>10. QED
      BY <2>5, <2>7, <2>8, <2>9 DEF Order
  <1>8. QED
    BY <1>1, <1>2, <1>3, <1>4, <1>5, <1>6, <1>7 DEF Work

\* And so do the start and the end of the daemon.
LEMMA ProcessOrder ==
    ASSUME QueueInv, Start \/ Serve \/ Crash \/ Shutdown
    PROVE  Order'
  <1>1. CASE Start
    <2>1. /\ DOMAIN jobs' = DOMAIN jobs
          /\ \A i \in DOMAIN jobs :
                /\ jobs'[i].req = jobs[i].req
                /\ jobs'[i].state = (IF jobs[i].state = "running" THEN "pending"
                                     ELSE jobs[i].state)
      BY <1>1, RescueResets DEF Start, Restart, QueueInv
    <2>2. \A i \in DOMAIN jobs : Finished(i)' <=> Finished(i)
      BY <2>1 DEF Finished
    <2>3. turn.op = "down" /\ turn'.op = "starting"
      BY <1>1 DEF Start, Restart, At
    <2>4. OldestFirst'
      BY <2>1, <2>2 DEF QueueInv, OldestFirst
    <2>5. OneRuns' /\ RightKind'
      BY <2>1, <2>3 DEF OneRuns, RightKind, Occupied
    <2>6. OneJobPerRequest' /\ SpoolingUploads'
      BY <1>1, <2>1 DEF QueueInv, OneJobPerRequest, SpoolingUploads, Start, Restart, memory
    <2>7. \A i \in DOMAIN jobs : WillRefuse(i) => WillRefuse(i)'
      BY <1>1, <2>1, <2>3 DEF WillRefuse, Start, Restart, memory
    <2>8. ServedOnce'
      BY <1>1, <2>1, <2>2, <2>7 DEF QueueInv, ServedOnce, Start, Restart
    <2>9. QED
      BY <2>4, <2>5, <2>6, <2>8 DEF Order
  <1>2. CASE Serve
    <2>1. \A i \in DOMAIN jobs : WillRefuse(i) => WillRefuse(i)'
      BY <1>2 DEF Serve, WillRefuse
    <2>2. QED
      BY <1>2, <2>1 DEF Serve, Order, QueueInv, OldestFirst, OneRuns, RightKind, Occupied,
                        OneJobPerRequest, SpoolingUploads, ServedOnce, Finished
  <1>3. CASE Stop
    <2>1. \A i \in DOMAIN jobs : WillRefuse(i) => WillRefuse(i)'
      BY <1>3 DEF Stop, WillRefuse, At
    <2>2. QED
      BY <1>3, <2>1 DEF Stop, At, Order, QueueInv, OldestFirst, OneRuns, RightKind, Occupied,
                        OneJobPerRequest, SpoolingUploads, ServedOnce, Finished
  <1>4. QED
    BY <1>1, <1>2, <1>3 DEF Crash, Shutdown

\* The initial table is empty.
LEMMA InitInv == Init => QueueInv
  <1>1. ASSUME Init
        PROVE  /\ jobs = <<>> /\ DOMAIN jobs = {} /\ turn.op = "down"
               /\ spooling = {} /\ committed = {}
    BY <1>1 DEF Init, At
  <1>2. QED
    BY <1>1, InitType DEF QueueInv, OldestFirst, OneRuns, RightKind, Occupied, OneJobPerRequest,
                          SpoolingUploads, ServedOnce

\* Every step keeps the invariant.
LEMMA NextInv == QueueInv /\ [Next]_vars => QueueInv'
  <1>1. ASSUME QueueInv, UNCHANGED vars
        PROVE  Order'
    <2>1. UNCHANGED <<jobs, tree, spooling, serving, turn, committed>>
      BY <1>1 DEF vars, memory
    <2>2. OldestFirst' /\ SpoolingUploads' /\ RightKind'
      BY <1>1, <2>1 DEF QueueInv, OldestFirst, SpoolingUploads, RightKind, Finished
    <2>3. OneRuns' /\ OneJobPerRequest'
      BY <1>1, <2>1 DEF QueueInv, OneRuns, OneJobPerRequest, Occupied
    <2>4. ServedOnce'
      BY <1>1, <2>1 DEF QueueInv, ServedOnce, Finished, WillRefuse
    <2>5. QED
      BY <2>2, <2>3, <2>4 DEF Order
  <1>2. ASSUME QueueInv, Next
        PROVE  Order'
    BY <1>2, QueueAssumption, HandlersOrder, WorkOrder, ProcessOrder DEF Next
  <1>3. QED
    BY <1>1, <1>2, NextType DEF QueueInv, Order

\* The invariant holds.
LEMMA QueueInvHolds == Spec => []QueueInv
  BY InitInv, NextInv, PTL DEF Spec

----------------------------------------------------------------------------
(* The refinement.                                                         *)

Asked == [i \in DOMAIN jobs |-> jobs[i].req]
Handled == {i \in DOMAIN jobs : Finished(i) \/ jobs[i].req \in committed}
SameRequests == DOMAIN jobs' = DOMAIN jobs /\ \A i \in DOMAIN jobs : jobs'[i].req = jobs[i].req

\* A step that serves nothing, queues nothing and leaves the tree alone.
LEMMA Stutters ==
    ASSUME SameRequests, UNCHANGED <<tree, committed>>,
           \A i \in DOMAIN jobs : Finished(i)' <=> Finished(i)
    PROVE  UNCHANGED Serial!vars
  <1>1. Asked' = Asked
    BY DEF SameRequests, Asked
  <1>2. Handled' = Handled
    BY DEF SameRequests, Handled
  <1>3. QED
    BY <1>1, <1>2 DEF Serial!vars, Asked, Handled

\* A step that serves job i, which has not been served before.
LEMMA Handles ==
    ASSUME SameRequests, NEW i \in DOMAIN jobs, i \notin Handled,
           \A j \in DOMAIN jobs : j < i => Finished(j),
           Handled' = Handled \cup {i}, Serial!Effect(jobs[i].req)
    PROVE  Serial!Next
  <1>1. Asked' = Asked /\ DOMAIN Asked = DOMAIN jobs /\ Asked[i] = jobs[i].req
    BY DEF SameRequests, Asked
  <1>2. \A j \in DOMAIN Asked : j < i => j \in Handled
    BY <1>1 DEF Handled
  <1>3. Serial!Handle(i)
    BY <1>1, <1>2 DEF Serial!Handle, Asked, Handled
  <1>4. QED
    BY <1>1, <1>3 DEF Serial!Next, Asked

\* Queueing a job asks for it.
LEMMA AddJobAsks ==
    ASSUME QueueInv, NEW r \in Request, AddJob(r), r \notin Queued, UNCHANGED <<tree, committed>>
    PROVE  Serial!Next
  <1> DEFINE n == Len(jobs) + 1
  <1>1. /\ jobs \in Seq(Job) /\ jobs' \in Seq(Job) /\ Len(jobs) \in Nat
        /\ DOMAIN jobs = 1..Len(jobs) /\ DOMAIN jobs' = 1..n
        /\ \A i \in DOMAIN jobs : jobs'[i] = jobs[i]
        /\ jobs'[n] = [req |-> r, state |-> "pending"]
    BY AddJobAppends, JobsAreJobs DEF QueueInv, TypeOK
  <1>2. DOMAIN jobs' = DOMAIN jobs \cup {n} /\ n \notin DOMAIN jobs
    BY <1>1
  <1>3. Asked \in Seq(Request) /\ Len(Asked) = Len(jobs)
    <2>1. \A i \in 1..Len(jobs) : jobs[i].req \in Request
      BY <1>1, JobsAreJobs DEF QueueInv
    <2>2. Asked = [i \in 1..Len(jobs) |-> jobs[i].req]
      BY <1>1 DEF Asked
    <2>3. Asked \in [1..Len(jobs) -> Request]
      BY <2>1, <2>2
    <2>4. Asked \in Seq(Request)
      BY <1>1, <2>3, SeqDef
    <2>5. QED
      BY <1>1, <2>3, <2>4, LenProperties
  <1>4. Asked' = Append(Asked, r)
    <2>1. /\ Append(Asked, r) \in Seq(Request) /\ Len(Append(Asked, r)) = n
          /\ \A i \in 1..Len(jobs) : Append(Asked, r)[i] = Asked[i]
          /\ Append(Asked, r)[n] = r
      BY <1>3, AppendProperties
    <2>2. Append(Asked, r) = [i \in 1..n |-> Append(Asked, r)[i]]
      BY <2>1, LenProperties
    <2>3. \A i \in 1..n : jobs'[i].req = Append(Asked, r)[i]
      <3>1. ASSUME NEW i \in 1..Len(jobs)
            PROVE  jobs'[i].req = Append(Asked, r)[i]
        BY <1>1, <2>1, <3>1 DEF Asked
      <3>2. jobs'[n].req = Append(Asked, r)[n]
        BY <1>1, <2>1
      <3>3. QED
        BY <1>1, <1>2, <3>1, <3>2
    <2>4. Asked' = [i \in 1..n |-> jobs'[i].req]
      BY <1>1 DEF Asked
    <2>5. QED
      BY <2>2, <2>3, <2>4
  <1>5. Handled' = Handled
    <2>1. r \notin committed
      BY DEF QueueInv, OneJobPerRequest, Queued
    <2>2. \A i \in DOMAIN jobs : Finished(i)' <=> Finished(i)
      BY <1>1 DEF Finished
    <2>3. jobs'[n].state = "pending" /\ jobs'[n].req = r
      BY <1>1
    <2>4. \A i \in DOMAIN jobs' : i # n => (i \in Handled' <=> i \in Handled)
      BY <1>1, <1>2, <2>2 DEF Handled
    <2>5. n \notin Handled' /\ n \notin Handled
      BY <1>2, <2>1, <2>3 DEF Handled, Finished
    <2>6. Handled \subseteq DOMAIN jobs' /\ Handled' \subseteq DOMAIN jobs'
      BY <1>2 DEF Handled
    <2>7. QED
      BY <2>4, <2>5, <2>6
  <1>6. Serial!Ask(r)
    BY <1>4, <1>5 DEF Serial!Ask, Asked, Handled
  <1>7. QED
    BY <1>6 DEF Serial!Next

\* The transaction of the running job: the job is served, or, if it is a
\* deletion that a crash made run again, it is carried out once more.
LEMMA CommitServes ==
    ASSUME QueueInv, turn.op \in {"putting", "removing"}, NEW t,
           Commit(jobs[turn.id].req, t), UNCHANGED jobs, Serial!Effect(jobs[turn.id].req)
    PROVE  Serial!Next
  <1> DEFINE i == turn.id
  <1>1. i \in DOMAIN jobs /\ jobs[i].state = "running" /\ ~Finished(i)
    BY TurnFacts DEF QueueInv, OneRuns, Occupied, Finished
  <1>2. SameRequests
    BY DEF SameRequests
  <1>3. \A j \in DOMAIN jobs : j < i => Finished(j)
    BY <1>1 DEF QueueInv, OldestFirst
  <1>4. CASE jobs[i].req \notin committed
    <2>1. i \notin Handled
      BY <1>1, <1>4 DEF Handled
    <2>2. Handled' = Handled \cup {i}
      BY <1>1 DEF Handled, Commit, Finished, QueueInv, OneJobPerRequest
    <2>3. QED
      BY <1>1, <1>2, <1>3, <2>1, <2>2, Handles
  <1>5. CASE jobs[i].req \in committed
    <2>1. turn.op = "removing"
      BY <1>1, <1>5 DEF QueueInv, ServedOnce, WillRefuse, RightKind
    <2>2. KindOf[jobs[i].req] = "delete"
      BY <2>1 DEF QueueInv, RightKind
    <2>3. Asked' = Asked /\ DOMAIN Asked = DOMAIN jobs /\ Asked[i] = jobs[i].req
      BY <1>1 DEF Asked
    <2>4. committed' = committed
      BY <1>5 DEF Commit
    <2>5. Handled' = Handled /\ i \in Handled
      BY <1>1, <1>5, <2>4 DEF Handled, Finished
    <2>6. \A j \in DOMAIN jobs : j > i => ~Finished(j)
      BY <1>1 DEF QueueInv, OldestFirst, Finished
    <2>7. \A j \in DOMAIN jobs : j > i => jobs[j].req \notin committed
      <3>1. ASSUME NEW j \in DOMAIN jobs, j > i, jobs[j].req \in committed
            PROVE  FALSE
        <4>1. \A k \in DOMAIN jobs : k < j => Finished(k)
          BY <2>6, <3>1 DEF QueueInv, ServedOnce
        <4>2. i < j
          BY <1>1, <3>1, JobsAreJobs DEF QueueInv
        <4>3. QED
          BY <1>1, <4>1, <4>2
      <3>2. QED
        BY <3>1
    <2>8. \A j \in DOMAIN Asked : j > i => j \notin Handled
      BY <2>3, <2>6, <2>7 DEF Handled
    <2>9. Serial!DeleteAgain(i)
      BY <2>2, <2>3, <2>5, <2>8 DEF Serial!DeleteAgain, Asked, Handled
    <2>10. QED
      BY <1>1, <2>3, <2>9 DEF Serial!Next, Asked
  <1>6. QED
    BY <1>4, <1>5

\* What a handler does is asked for, renamed, or not seen.
LEMMA HandlersServe ==
    ASSUME QueueInv, Handlers
    PROVE  Serial!Next \/ UNCHANGED Serial!vars
  <1>1. ASSUME NEW r \in Request, StartSpooling(r)
        PROVE  UNCHANGED Serial!vars
    BY <1>1, Stutters DEF StartSpooling, SameRequests, Finished
  <1>2. ASSUME NEW r \in Request, QueueUpload(r)
        PROVE  Serial!Next
    <2>1. r \notin Queued
      BY <1>2 DEF QueueUpload, QueueInv, OneJobPerRequest, Queued
    <2>2. QED
      BY <1>2, <2>1, AddJobAsks DEF QueueUpload
  <1>3. ASSUME NEW r \in Request, QueueOther(r)
        PROVE  Serial!Next
    BY <1>3, AddJobAsks DEF QueueOther
  <1>4. ASSUME NEW src \in VPath, NEW dst \in VPath, Move(src, dst)
        PROVE  Serial!Next
    <2>1. Asked' = Asked /\ Handled' = Handled
      BY <1>4 DEF Move, Asked, Handled, Finished
    <2>2. Serial!Rename(src, dst)
      BY <1>4, <2>1 DEF Move, Serial!Rename, Asked, Handled
    <2>3. QED
      BY <2>2 DEF Serial!Next
  <1>5. ASSUME NEW v \in BOOLEAN, SetLock(v)
        PROVE  UNCHANGED Serial!vars
    BY <1>5, Stutters DEF SetLock, SameRequests, Finished
  <1>6. QED
    BY <1>1, <1>2, <1>3, <1>4, <1>5 DEF Handlers

\* The worker serves one job at a time: at its commit, or at its end if it
\* committed nothing.
LEMMA WorkServes ==
    ASSUME QueueAssumption, QueueInv, Work \/ TimedOut
    PROVE  Serial!Next \/ UNCHANGED Serial!vars
  <1>1. CASE ClaimNext
    <2>1. UNCHANGED <<tree, committed>>
      BY <1>1 DEF ClaimNext
    <2>2. ASSUME NEW i \in DOMAIN jobs, IsNextJob(i), jobs' = [jobs EXCEPT ![i].state = "running"]
          PROVE  SameRequests /\ \A j \in DOMAIN jobs : Finished(j)' <=> Finished(j)
      <3>1. jobs[i].state = "pending"
        BY <2>2 DEF IsNextJob, Pending
      <3>2. QED
        BY <2>2, <3>1, StateIsSet DEF SameRequests, Finished, QueueInv
    <2>3. QED
      BY <1>1, <2>1, <2>2, Stutters DEF ClaimNext, SameRequests, Finished
  <1>2. CASE Begin \/ JobFails \/ ScrubEnds \/ Unlink
    BY <1>2, Stutters DEF Begin, JobFails, ScrubEnds, Unlink, SameRequests, Finished
  <1>3. CASE PutCommits
    <2> DEFINE r == jobs[turn.id].req
    <2>1. r \in Request /\ KindOf[r] = "upload"
      BY <1>3, TurnFacts, JobsAreJobs DEF PutCommits, Occupied, QueueInv, RightKind
    <2>2. CASE tree[PathOf[r]] = NoFile /\ Commit(r, [tree EXCEPT ![PathOf[r]] = r])
      <3>1. Serial!Effect(r)
        BY <2>1, <2>2 DEF Serial!Effect, Commit
      <3>2. QED
        BY <1>3, <2>2, <3>1, CommitServes DEF PutCommits
    <2>3. CASE UNCHANGED <<tree, committed>>
      BY <1>3, <2>3, Stutters DEF PutCommits, SameRequests, Finished
    <2>4. QED
      BY <1>3, <2>2, <2>3 DEF PutCommits
  <1>4. CASE RemoveCommits
    <2> DEFINE r == jobs[turn.id].req
               t == [p \in VPath |-> IF tree[p] = turn.file THEN NoFile ELSE tree[p]]
    <2>1. KindOf[r] = "delete" /\ turn.file \in Request
      BY <1>4, TurnFacts DEF RemoveCommits, QueueInv, RightKind
    <2>2. Commit(r, t) /\ turn.op = "removing" /\ UNCHANGED jobs
      BY <1>4 DEF RemoveCommits
    <2>3. Serial!Effect(r)
      BY <2>1, <2>2 DEF Serial!Effect, Serial!Without, Commit
    <2>4. QED
      BY <2>2, <2>3, CommitServes
  <1>5. CASE Finish
    <2> DEFINE i == turn.id
    <2>1. i \in DOMAIN jobs /\ jobs[i].state = "running"
      BY <1>5, TurnFacts DEF Finish, Occupied, QueueInv, OneRuns
    <2>2. /\ DOMAIN jobs' = DOMAIN jobs /\ jobs'[i].state \in {"done", "failed"}
          /\ \A j \in DOMAIN jobs : jobs'[j].req = jobs[j].req
          /\ \A j \in DOMAIN jobs : j # i => jobs'[j] = jobs[j]
      BY <1>5, <2>1, StateIsSet DEF Finish, QueueInv
    <2>3. UNCHANGED <<tree, committed>> /\ SameRequests
      BY <1>5, <2>2 DEF Finish, SameRequests
    <2> HIDE DEF i
    <2>4. \A j \in DOMAIN jobs : Finished(j)' <=> Finished(j) \/ j = i
      BY <2>2 DEF Finished
    <2>5. Handled' = Handled \cup {i}
      BY <2>1, <2>2, <2>3, <2>4 DEF Handled
    <2>6. CASE i \in Handled
      <3>1. Asked' = Asked /\ Handled' = Handled
        BY <2>3, <2>5, <2>6 DEF SameRequests, Asked
      <3>2. QED
        BY <2>3, <3>1 DEF Serial!vars, Asked, Handled
    <2>7. CASE i \notin Handled
      <3>1. \A j \in DOMAIN jobs : j < i => Finished(j)
        BY <2>1 DEF QueueInv, OldestFirst
      <3>2. Serial!Effect(jobs[i].req)
        BY <2>3 DEF Serial!Effect
      <3>3. QED
        BY <2>1, <2>3, <2>5, <2>7, <3>1, <3>2, Handles
    <2>8. QED
      BY <2>6, <2>7
  <1>6. QED
    BY <1>1, <1>2, <1>3, <1>4, <1>5 DEF Work, Poll, TimedOut

\* Nothing of the end and the start of the daemon is seen.
LEMMA ProcessServes ==
    ASSUME QueueInv, Start \/ Serve \/ Crash \/ Shutdown
    PROVE  UNCHANGED Serial!vars
  <1>1. CASE Start
    <2>1. SameRequests /\ \A i \in DOMAIN jobs : Finished(i)' <=> Finished(i)
      BY <1>1, RescueResets DEF Start, Restart, SameRequests, Finished, QueueInv
    <2>2. QED
      BY <1>1, <2>1, Stutters DEF Start, Restart
  <1>2. CASE Serve \/ Crash \/ Shutdown
    BY <1>2, Stutters DEF Serve, Crash, Shutdown, Stop, SameRequests, Finished
  <1>3. QED
    BY <1>1, <1>2

\* ServesInOrder, for any requests, paths and number of stops: jobs are served
\* in the order they were queued and once each, through every crash, and only
\* a deletion is ever repeated.
THEOREM QueueServesInOrder == Spec => ServesInOrder
  <1>1. Init => Serial!Init
    <2>1. ASSUME Init
          PROVE  Asked = <<>> /\ Handled = {} /\ tree = [p \in VPath |-> NoFile]
      BY <2>1 DEF Init, Asked, Handled
    <2>2. QED
      BY <2>1 DEF Serial!Init, Asked, Handled
  <1>2. QueueInv /\ [Next]_vars => [Serial!Next]_(Serial!vars)
    <2>1. ASSUME UNCHANGED vars
          PROVE  UNCHANGED Serial!vars
      BY <2>1 DEF vars, memory, Serial!vars, Finished
    <2>2. QED
      BY <2>1, QueueAssumption, HandlersServe, WorkServes, ProcessServes DEF Next
  <1>3. QED
    BY <1>1, <1>2, QueueInvHolds, PTL DEF Spec, ServesInOrder, Serial!Spec

----------------------------------------------------------------------------
(* The spool.                                                              *)

\* Each job has a request of its own.
LEMMA TableWithinLimit ==
    ASSUME QueueInv, IsFiniteSet(Request), Cardinality(Request) <= ListLimit
    PROVE  Len(jobs) <= ListLimit
  <1> DEFINE n == Len(jobs)
             f == [i \in 1..n |-> jobs[i].req]
  <1>1. n \in Nat /\ DOMAIN jobs = 1..n /\ \A i \in 1..n : jobs[i].req \in Request
    BY JobsAreJobs DEF QueueInv, Job
  <1>2. \A i, j \in 1..n : jobs[i].req = jobs[j].req => i = j
    BY <1>1 DEF QueueInv, OneJobPerRequest
  <1>3. f \in Injection(1..n, Request)
    BY <1>1, <1>2 DEF Injection, IsInjective
  <1>4. Cardinality(1..n) = n
    BY <1>1, FS_Interval
  <1> HIDE DEF f, n
  <1>5. Cardinality(1..n) <= Cardinality(Request)
    BY <1>3, FS_Injection
  <1>6. Cardinality(Request) \in Nat /\ ListLimit \in Nat
    BY FS_CardinalityType, QueueAssumption
  <1> QED
    BY <1>1, <1>4, <1>5, <1>6 DEF n

\* RestartKeepsSpool, with a jobs table within the 1000 that the clean-up looks
\* at (worker.py:172): the rescue comes before the clean-up, and so a starting
\* daemon takes no bytes from an upload that a crash has cut short or that has
\* not begun.
THEOREM RestartsKeepSpool ==
    ASSUME IsFiniteSet(Request), Cardinality(Request) <= ListLimit
    PROVE  Spec => RestartKeepsSpool
  <1>1. ASSUME QueueInv, [Next]_vars, turn.op = "down"
        PROVE  KeepsSpool
    <2>1. CASE UNCHANGED vars
      BY <2>1 DEF vars, KeepsSpool
    <2>2. CASE Start
      <3> SUFFICES ASSUME NEW i \in DOMAIN jobs, ~Finished(i), jobs[i].req \in spool
                   PROVE  jobs[i].req \in spool'
        BY DEF KeepsSpool
      <3>1. TypeOK /\ Len(jobs) \in Nat /\ DOMAIN jobs = 1..Len(jobs) /\ jobs[i] \in Job
        BY <1>1, JobsAreJobs DEF QueueInv
      <3>2. /\ DOMAIN Rescued = DOMAIN jobs /\ Rescued \in Seq(Job)
            /\ Rescued[i].req = jobs[i].req /\ Rescued[i].state = "pending"
        BY <3>1, RescueResets DEF Finished, Job
      <3>3. Len(Rescued) = Len(jobs)
        BY <3>1, <3>2
      <3>4. i + ListLimit > Len(Rescued)
        BY <1>1, <3>1, <3>3, TableWithinLimit, QueueAssumption
      <3>5. jobs[i].req \in PendingSpool(Rescued)
        BY <3>2, <3>4 DEF PendingSpool
      <3> QED
        BY <2>2, <3>5 DEF Start, Restart
    <2>3. ~Handlers /\ ~Work /\ ~TimedOut /\ ~Serve /\ ~Crash /\ ~Shutdown
      BY <1>1 DEF Handlers, StartSpooling, QueueUpload, QueueOther, Move, SetLock, Listening,
                  Awaiting, Work, Poll, Begin, PutCommits, RemoveCommits, JobFails, ScrubEnds,
                  Unlink, Finish, TimedOut, Serve, Crash, Shutdown
    <2> QED
      BY <1>1, <2>1, <2>2, <2>3 DEF Next
  <1>2. QueueInv /\ [Next]_vars => [turn.op = "down" => KeepsSpool]_vars
    BY <1>1
  <1> QED
    BY <1>2, QueueInvHolds, PTL DEF Spec, RestartKeepsSpool
=============================================================================
