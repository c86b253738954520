-------------------------------- MODULE Scrubber --------------------------------
(***************************************************************************)
(* scrub() and repair_chunks() (scrubber.py) for replicated files: every   *)
(* non-lost row is probed or deep-verified once, then each chunk below its *)
(* floor gets new copies.  A job acts on the rows as it fetched them       *)
(* ("seen") and writes to the rows as they are now.                        *)
(*                                                                         *)
(* Abstracted: the order of the work lists (oldest verified first, weakest *)
(* chunk first) is any order; probe_limit and the deep byte budget pick    *)
(* any of the rows they could pick; the placement engine's ranking is any  *)
(* choice of the size it may return.  A failed call is any failed call.    *)
(***************************************************************************)
EXTENDS Jobs

----------------------------------------------------------------------------
(* The scan.                                                               *)

\* scrub(): the rows to look at are fetched once; a limit takes some of them.
StartScrub(w, deep, repair, batch) ==
    /\ Free(w)
    /\ batch \subseteq NonLost(rows)
    /\ Become(w, [op |-> "scan", deep |-> deep, repair |-> repair,
                  seen |-> rows, todo |-> batch])
    /\ UNCHANGED <<regVars, remoteVars>>

\* On to the next row, after update_reliability has found the provider's row.
RowDone(w, i) ==
    Become(w, IF job[w].seen[i].prov \in provs
              THEN [job[w] EXCEPT !.todo = @ \ {i}] ELSE Failed)

\* set_replica_state(i, s), then update_reliability: either one raises, and
\* ends the job, when the row or the provider it needs is not there.
Observe(w, i, s) ==
    /\ UNCHANGED <<files, provs, remoteVars>>
    /\ \/ /\ CanSet(i, s)
          /\ SetReplicaState(i, s)
          /\ RowDone(w, i)
       \/ /\ ~CanSet(i, s)
          /\ UNCHANGED rows
          /\ Become(w, Failed)

\* Mutated form: one failed observation is enough.
DemotionAtOnce(s) == "lost"

\* _demote: the strike is chosen by the state the row had when it was fetched.
Demotion(s) == IF s = "suspect" THEN "lost" ELSE "suspect"

Scanning(w, i) == job[w].op = "scan" /\ i \in job[w].todo

\* Mutated form: an object that exists clears suspicion.
ProbeFoundRehabilitates(w, i) ==
    /\ Scanning(w, i)
    /\ Exists(job[w].seen[i].prov, job[w].seen[i].chunk)
    /\ Observe(w, i, "stored")

\* _probe, the object is there.  Only a row fetched as stored (or pending) is
\* marked verified.
ProbeFound(w, i) ==
    /\ Scanning(w, i)
    /\ LET r == job[w].seen[i]
       IN  /\ Exists(r.prov, r.chunk)
           /\ \/ r.state \in {"stored", "pending"} /\ Observe(w, i, "stored")
              \/ /\ r.state = "suspect"
                 /\ RowDone(w, i)
                 /\ UNCHANGED <<regVars, remoteVars>>

\* _probe, the object is not there or the provider cannot be reached.
ProbeMissed(w, i) ==
    /\ Scanning(w, i)
    /\ LET r == job[w].seen[i]
       IN  ProbeCanFail(r.prov, r.chunk) /\ Observe(w, i, Demotion(r.state))

\* _deep_verify: the bytes came back and hash to the chunk's hash.
DeepVerified(w, i) ==
    /\ Scanning(w, i) /\ job[w].deep
    /\ LET r == job[w].seen[i]
       IN  Intact(r.prov, r.chunk) /\ Observe(w, i, "stored")

\* _deep_verify: wrong bytes came back, which is definitive.
DeepCorrupt(w, i) ==
    /\ Scanning(w, i) /\ job[w].deep
    /\ LET r == job[w].seen[i]
       IN  remote[r.prov][r.chunk] = "corrupt" /\ Observe(w, i, "lost")

\* _deep_verify: get() raised.
DeepFailed(w, i) ==
    /\ Scanning(w, i) /\ job[w].deep
    /\ LET r == job[w].seen[i]
       IN  /\ r.prov \in Flaky \/ ~Exists(r.prov, r.chunk)
           /\ Observe(w, i, Demotion(r.state))

\* The scan is over; repair_chunks loads the providers and its work list.
EndScan(w) ==
    /\ job[w].op = "scan" /\ job[w].todo = {}
    /\ Become(w, IF job[w].repair
                 THEN [op |-> "repair", handles |-> provs,
                       work |-> ChunksBelowFloor, report |-> {}]
                 ELSE Idle)
    /\ UNCHANGED <<regVars, remoteVars>>

----------------------------------------------------------------------------
(* Repair.                                                                 *)

\* get_replicas of the next chunk; lost rows are no source.
RepairChunk(w, c) ==
    /\ job[w].op = "repair" /\ c \in job[w].work
    /\ LET seen == RowsOf(c)
       IN  Become(w, [op |-> "fetch", handles |-> job[w].handles,
                      work |-> job[w].work \ {c}, report |-> job[w].report,
                      chunk |-> c, seen |-> seen, todo |-> NonLost(seen)])
    /\ UNCHANGED <<regVars, remoteVars>>

\* Back to the work list, the chunk reported as unrepairable if failed.
NextChunk(w, failed) ==
    Become(w, [op |-> "repair", handles |-> job[w].handles, work |-> job[w].work,
               report |-> job[w].report
                             \cup (IF failed THEN {job[w].chunk} ELSE {})])

\* Mutated form: a source that fails is tried again.
FetchRetries(w, i) ==
    /\ job[w].op = "fetch" /\ IsHealthiest(job[w].seen, i, job[w].todo)
    /\ GetCanFail(job[w].seen[i].prov, job[w].chunk)
    /\ UNCHANGED <<job, regVars, remoteVars>>

\* The next source, healthiest first, does not give the right bytes.
FetchMissed(w, i) ==
    /\ job[w].op = "fetch" /\ IsHealthiest(job[w].seen, i, job[w].todo)
    /\ GetCanFail(job[w].seen[i].prov, job[w].chunk)
    /\ Become(w, [job[w] EXCEPT !.todo = @ \ {i}])
    /\ UNCHANGED <<regVars, remoteVars>>

FetchExhausted(w) ==
    /\ job[w].op = "fetch" /\ job[w].todo = {}
    /\ NextChunk(w, TRUE)
    /\ UNCHANGED <<regVars, remoteVars>>

\* What placement has to go by: the providers of the stored rows seen, which
\* count towards the floor, and those barred for another reason.
Existing(w) == {job[w].seen[i].prov : i \in InState(job[w].seen, job[w].chunk, "stored")}
Barred(w) ==
    {job[w].seen[i].prov : i \in InState(job[w].seen, job[w].chunk, "pending")}
        \cup (IF MinSpread > 1 THEN SpreadConflictProviders(job[w].chunk) ELSE {})

\* MAX_EXTRA_REPLICAS: copies allowed beyond the floor for low reliability.
MaxExtra == 2

\* Mutated form: one copy fewer than the floor asks for will do.
SelectionsOneShort(usable, have) ==
    {T \in SUBSET usable :
        /\ have + Cardinality(T) >= ReplicaTarget - 1
        /\ T = {} \/ have + Cardinality(T) <= ReplicaTarget + MaxExtra}

\* select_targets over the candidates that are usable (reachable, with room):
\* enough to meet the floor with those there are, and at most MaxExtra more.
Selections(usable, have) ==
    {T \in SUBSET usable :
        /\ have + Cardinality(T) >= ReplicaTarget
        /\ T = {} \/ have + Cardinality(T) <= ReplicaTarget + MaxExtra}

\* A provider that is not flaky always answers quota() and has room.
Usable(candidates) == {U \in SUBSET candidates : candidates \ Flaky \subseteq U}

\* The next source gives the right bytes: choose the new homes, or report the
\* chunk when there are not enough.  Bound: a choice for which the replicas
\* table has no room is not made.
FetchHit(w, i) ==
    /\ job[w].op = "fetch" /\ IsHealthiest(job[w].seen, i, job[w].todo)
    /\ Intact(job[w].seen[i].prov, job[w].chunk)
    /\ LET have == Cardinality(InState(job[w].seen, job[w].chunk, "stored"))
       IN  \E usable \in Usable(job[w].handles \ (Existing(w) \cup Barred(w))) :
             LET fits == {T \in Selections(usable, have) : HasRoom(Cardinality(T))}
             IN  \/ \E T \in fits :
                       Become(w, [op |-> "upload", handles |-> job[w].handles,
                                  work |-> job[w].work, report |-> job[w].report,
                                  chunk |-> job[w].chunk, seen |-> job[w].seen,
                                  targets |-> T, stale |-> {}])
                 \/ fits = {} /\ NextChunk(w, TRUE)
    /\ UNCHANGED <<regVars, remoteVars>>

\* Mutated form: the suspect row that a copy replaces is forgotten.
SupersedeForgets(w, p) == {}

\* The rows a copy supersedes: those of its provider that were seen suspect.
Superseded(w, p) ==
    {i \in InState(job[w].seen, job[w].chunk, "suspect") : job[w].seen[i].prov = p}

\* add_replica, which commits, of the new copy.
AddReplica(c, p) ==
    \E n \in RowId :
        /\ IsNextId(n)
        /\ rows' = [rows EXCEPT ![n] = [chunk |-> c, prov |-> p, state |-> "stored"]]

\* The upload to one target lands and is recorded; add_replica raises, and
\* ends the job, if the file or the provider has been deleted meanwhile.
UploadLands(w, p) ==
    /\ job[w].op = "upload" /\ job[w].stale = {} /\ p \in job[w].targets
    /\ Put(p, job[w].chunk)
    /\ UNCHANGED <<files, provs>>
    /\ \/ /\ CanAddReplica(job[w].chunk, p)
          /\ AddReplica(job[w].chunk, p)
          /\ Become(w, [job[w] EXCEPT !.targets = @ \ {p}, !.stale = Superseded(w, p)])
       \/ /\ ~CanAddReplica(job[w].chunk, p)
          /\ UNCHANGED rows
          /\ Become(w, Failed)

\* Mutated form: the row gets a state of its own.
RetireRenames(w, i) ==
    /\ job[w].op = "upload" /\ i \in job[w].stale /\ CanSet(i, "lost")
    /\ SetReplicaState(i, "superseded")
    /\ Become(w, [job[w] EXCEPT !.stale = @ \ {i}])
    /\ UNCHANGED <<files, provs, remoteVars>>

\* The superseded rows are then written off, in a transaction each;
\* set_replica_state raises, and ends the job, over a row that has gone.
Retire(w, i) ==
    /\ job[w].op = "upload" /\ i \in job[w].stale
    /\ UNCHANGED <<files, provs, remoteVars>>
    /\ \/ /\ CanSet(i, "lost")
          /\ SetReplicaState(i, "lost")
          /\ Become(w, [job[w] EXCEPT !.stale = @ \ {i}])
       \/ /\ ~CanSet(i, "lost")
          /\ UNCHANGED rows
          /\ Become(w, Failed)

\* Mutated form: an upload that raises is not reported.
UploadRaisesSilently(w, p) ==
    /\ job[w].op = "upload" /\ job[w].stale = {} /\ p \in job[w].targets
    /\ PutRaises(p, job[w].chunk)
    /\ Become(w, [job[w] EXCEPT !.targets = @ \ {p}])
    /\ UNCHANGED regVars

\* The upload to one target raises: reported, and on to the next target.
UploadRaises(w, p) ==
    /\ job[w].op = "upload" /\ job[w].stale = {} /\ p \in job[w].targets
    /\ PutRaises(p, job[w].chunk)
    /\ Become(w, [job[w] EXCEPT !.targets = @ \ {p}, !.report = @ \cup {job[w].chunk}])
    /\ UNCHANGED regVars

EndUpload(w) ==
    /\ job[w].op = "upload" /\ job[w].stale = {} /\ job[w].targets = {}
    /\ NextChunk(w, FALSE)
    /\ UNCHANGED <<regVars, remoteVars>>

EndRepair(w) ==
    /\ job[w].op = "repair" /\ job[w].work = {}
    /\ Become(w, Idle)
    /\ UNCHANGED <<regVars, remoteVars>>

ScanStep(w) ==
    \/ \E i \in RowId : \/ ProbeFound(w, i) \/ ProbeMissed(w, i) \/ DeepVerified(w, i)
                        \/ DeepCorrupt(w, i) \/ DeepFailed(w, i)
    \/ EndScan(w)

RepairStep(w) ==
    \/ \E c \in Chunk : RepairChunk(w, c)
    \/ \E i \in RowId : FetchMissed(w, i) \/ FetchHit(w, i) \/ Retire(w, i)
    \/ FetchExhausted(w)
    \/ \E p \in Provider : UploadLands(w, p) \/ UploadRaises(w, p)
    \/ EndUpload(w) \/ EndRepair(w)
=============================================================================
