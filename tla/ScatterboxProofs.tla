---------------------------- MODULE ScatterboxProofs ----------------------------
(***************************************************************************)
(* Proofs about Scatterbox, the whole archive, in two parts.               *)
(*                                                                         *)
(* What any number of processes keep, for any downloads, providers, files  *)
(* and chunks: the types, and that what the register says of an object was *)
(* true of it.  Two facts about every step carry the theorems: an object   *)
(* that has been uploaded is never "never" again, and a row only changes   *)
(* along a legal transition or appears for an object already uploaded.     *)
(* The second needs the uploads' own books to be right (PutProgress).      *)
(*                                                                         *)
(* What one worker keeps, as in the daemon: repair and uploads never give  *)
(* a provider a second live row for a chunk, unless a repair is cut short  *)
(* before it retires the row a copy replaces, and never more groups of a   *)
(* file than the cap, whatever downloads, removals of providers, damage    *)
(* and crashes come between their steps; with no download beside it,       *)
(* repair loses sight of no chunk and a scan judges the rows it has read;  *)
(* and without a crash, a removal finds everything that was ever put of    *)
(* its file.  The rows a job looks at are those it has fetched earlier.    *)
(* The argument relates them to the rows as they are: since the fetch,     *)
(* rows have only got worse or gone, except for those that the job itself  *)
(* has added.                                                              *)
(***************************************************************************)
EXTENDS Scatterbox, FiniteSetTheorems, FunctionTheorems, TLAPS

----------------------------------------------------------------------------
(* Types: one lemma for each kind of step.                                 *)

\* A job record of the union is of the kind its field op names.
LEMMA JobStates ==
    ASSUME NEW s \in JobState
    PROVE  /\ s.op = "scan" => s \in ScanState
           /\ s.op = "repair" => s \in RepairState
           /\ s.op = "fetch" => s \in FetchState
           /\ s.op = "upload" => s \in UploadState
           /\ s.op = "put" => s \in PutState
           /\ s.op = "cleanup" => s \in CleanupState
           /\ s.op = "remove" => s \in RemoveState
    BY DEF JobState, Idle, Failed, ScanState, RepairState, FetchState, UploadState,
           PutState, CleanupState, RemoveState

\* A process that moves to a job state keeps the table of jobs well-typed.
LEMMA BecomeType ==
    ASSUME job \in [Worker -> JobState], NEW w \in Worker, NEW s \in JobState, Become(w, s)
    PROVE  job' \in [Worker -> JobState]
    BY DEF Become

\* The two resting states of a process are job states.
LEMMA IdleType == Idle \in JobState /\ Failed \in JobState
    BY DEF JobState

\* set_replica_state keeps the replicas table well-typed.
LEMMA SetStateType ==
    ASSUME rows \in Snapshot, NEW i \in RowId, NEW s \in State, CanSet(i, s),
           SetReplicaState(i, s)
    PROVE  rows' \in Snapshot
    BY DEF Snapshot, SetReplicaState, CanSet, Row

\* get_replicas returns a snapshot of the table.
LEMMA RowsOfType ==
    ASSUME rows \in Snapshot, NEW c
    PROVE  RowsOf(c) \in Snapshot /\ NonLost(RowsOf(c)) \in SUBSET RowId
    BY DEF Snapshot, RowsOf, NonLost, Ids, IdsOf

\* Objects keep their type under any set of puts.
LEMMA WithPutType ==
    ASSUME RemoteTypeOK, NEW objs
    PROVE  WithPut(objs) \in [Provider -> [Chunk -> Object]]
    BY DEF WithPut, RemoteTypeOK, Object

\* A put keeps the objects well-typed, whether it returns or raises.
LEMMA PutType ==
    ASSUME RemoteTypeOK, NEW p \in Provider, NEW c \in Chunk, Put(p, c) \/ PutRaises(p, c)
    PROVE  RemoteTypeOK'
    BY WithPutType DEF Put, PutRaises, RemoteTypeOK

\* A delete keeps the objects well-typed, whether it works or not.
LEMMA DeleteType ==
    ASSUME RemoteTypeOK, NEW p \in Provider, NEW c \in Chunk, Delete(p, c)
    PROVE  RemoteTypeOK'
    BY DEF Delete, WithDelete, RemoteTypeOK, Object

\* Recording what a probe or a deep verify observed keeps the types.
LEMMA ObserveType ==
    ASSUME TypeOK, NEW w \in Worker, NEW i \in RowId, NEW s \in State,
           job[w].op = "scan", Observe(w, i, s), UNCHANGED pipeVars
    PROVE  TypeOK'
  <1>1. job[w] \in ScanState
    BY JobStates DEF TypeOK
  <1>2. [job[w] EXCEPT !.todo = @ \ {i}] \in JobState
    BY <1>1 DEF ScanState, JobState
  <1>3. RowDone(w, i) => job' \in [Worker -> JobState]
    BY <1>2, BecomeType, IdleType DEF RowDone, TypeOK
  <1>4. job' \in [Worker -> JobState]
    BY <1>3, BecomeType, IdleType DEF Observe, TypeOK
  <1>5. rows' \in Snapshot
    BY SetStateType DEF Observe, TypeOK, RegisterTypeOK
  <1> QED
    BY <1>4, <1>5 DEF Observe, TypeOK, RegisterTypeOK, RemoteTypeOK, PipelineTypeOK,
                      remoteVars, pipeVars

\* Every step of a scan keeps the types.
LEMMA ScanType ==
    ASSUME TypeOK, NEW w \in Worker, ScanStep(w), UNCHANGED pipeVars
    PROVE  TypeOK'
  <1>0. \A st : Demotion(st) \in State
    BY DEF Demotion, State
  <1>1. CASE EndScan(w)
    <2>1. [op |-> "repair", handles |-> provs, work |-> ChunksBelowFloor, report |-> {}]
             \in JobState
      BY DEF TypeOK, RegisterTypeOK, ChunksBelowFloor, RepairState, JobState
    <2> QED
      BY <1>1, <2>1, BecomeType, IdleType
      DEF EndScan, TypeOK, RegisterTypeOK, RemoteTypeOK, PipelineTypeOK,
          regVars, remoteVars, pipeVars
  <1>2. ASSUME NEW i \in RowId, ProbeFound(w, i)
        PROVE  TypeOK'
    <2>1. job[w].op = "scan"
      BY <1>2 DEF ProbeFound, Scanning
    <2>2. job[w] \in ScanState
      BY <2>1, JobStates DEF TypeOK
    <2>3. [job[w] EXCEPT !.todo = @ \ {i}] \in JobState
      BY <2>2 DEF ScanState, JobState
    <2>4. CASE Observe(w, i, "stored")
      BY <2>1, <2>4, ObserveType DEF State
    <2>5. CASE RowDone(w, i) /\ UNCHANGED <<regVars, remoteVars>>
      BY <2>3, <2>5, BecomeType, IdleType
      DEF RowDone, TypeOK, RegisterTypeOK, RemoteTypeOK, PipelineTypeOK,
          regVars, remoteVars, pipeVars
    <2> QED
      BY <1>2, <2>4, <2>5 DEF ProbeFound
  <1>3. ASSUME NEW i \in RowId,
               \/ ProbeMissed(w, i) \/ DeepVerified(w, i)
               \/ DeepCorrupt(w, i) \/ DeepFailed(w, i)
        PROVE  TypeOK'
    <2>1. job[w].op = "scan" /\ \E s \in State : Observe(w, i, s)
      BY <1>0, <1>3
      DEF ProbeMissed, DeepVerified, DeepCorrupt, DeepFailed, Scanning, State
    <2> QED
      BY <2>1, ObserveType
  <1> QED
    BY <1>1, <1>2, <1>3 DEF ScanStep

\* Going on to the next chunk of a repair keeps the types.
LEMMA NextChunkType ==
    ASSUME TypeOK, NEW w \in Worker, job[w].op \in {"fetch", "upload"},
           NEW failed \in BOOLEAN, NextChunk(w, failed)
    PROVE  job' \in [Worker -> JobState]
  <1>1. job[w] \in FetchState \cup UploadState
    BY JobStates DEF TypeOK
  <1>2. /\ job[w].handles \in SUBSET Provider /\ job[w].work \in SUBSET Chunk
        /\ job[w].report \in SUBSET Chunk /\ job[w].chunk \in Chunk
    BY <1>1 DEF FetchState, UploadState
  <1>3. [op |-> "repair", handles |-> job[w].handles, work |-> job[w].work,
         report |-> job[w].report \cup (IF failed THEN {job[w].chunk} ELSE {})] \in JobState
    BY <1>2 DEF RepairState, JobState
  <1> QED
    BY <1>3, BecomeType DEF NextChunk, TypeOK

\* The rows a copy supersedes are ids of the replicas table.
LEMMA SupersededType ==
    ASSUME NEW w, NEW p
    PROVE  Superseded(w, p) \in SUBSET RowId
    BY DEF Superseded, InState, IdsOf, Ids

\* The insert of a repaired copy keeps the table well-typed.
LEMMA AddReplicaType ==
    ASSUME rows \in Snapshot, NEW c \in Chunk, NEW p \in Provider, AddReplica(c, p)
    PROVE  rows' \in Snapshot
    BY DEF AddReplica, Snapshot, Row, State

\* Every step of a repair keeps the types.
LEMMA RepairType ==
    ASSUME TypeOK, NEW w \in Worker, RepairStep(w), UNCHANGED pipeVars
    PROVE  TypeOK'
  <1> USE DEF TypeOK, RegisterTypeOK, RemoteTypeOK, PipelineTypeOK, regVars, remoteVars,
              pipeVars
  <1>1. ASSUME NEW c \in Chunk, RepairChunk(w, c)
        PROVE  TypeOK'
    <2>1. job[w] \in RepairState
      BY <1>1, JobStates DEF RepairChunk
    <2>2. [op |-> "fetch", handles |-> job[w].handles, work |-> job[w].work \ {c},
           report |-> job[w].report, chunk |-> c, seen |-> RowsOf(c),
           todo |-> NonLost(RowsOf(c))] \in JobState
      BY <2>1, RowsOfType DEF RepairState, FetchState, JobState
    <2> QED
      BY <1>1, <2>2, BecomeType DEF RepairChunk
  <1>2. ASSUME NEW i \in RowId, FetchMissed(w, i)
        PROVE  TypeOK'
    <2>1. job[w] \in FetchState
      BY <1>2, JobStates DEF FetchMissed
    <2>2. [job[w] EXCEPT !.todo = @ \ {i}] \in JobState
      BY <2>1 DEF FetchState, JobState
    <2> QED
      BY <1>2, <2>2, BecomeType DEF FetchMissed
  <1>3. ASSUME NEW i \in RowId, FetchHit(w, i)
        PROVE  TypeOK'
    <2>1. job[w] \in FetchState /\ job[w].op = "fetch"
      BY <1>3, JobStates DEF FetchHit
    <2>2. UNCHANGED <<regVars, remoteVars>>
      BY <1>3 DEF FetchHit
    <2>3. ASSUME NEW T \in SUBSET Provider
          PROVE  [op |-> "upload", handles |-> job[w].handles, work |-> job[w].work,
                  report |-> job[w].report, chunk |-> job[w].chunk,
                  seen |-> job[w].seen, targets |-> T, stale |-> {}] \in JobState
      BY <2>1 DEF FetchState, UploadState, JobState
    <2>4. CASE NextChunk(w, TRUE)
      BY <2>1, <2>2, <2>4, NextChunkType
    <2>5. CASE \E T \in SUBSET Provider :
                  Become(w, [op |-> "upload", handles |-> job[w].handles,
                             work |-> job[w].work, report |-> job[w].report,
                             chunk |-> job[w].chunk, seen |-> job[w].seen,
                             targets |-> T, stale |-> {}])
      BY <2>2, <2>3, <2>5, BecomeType
    <2> DEFINE have == Cardinality(InState(job[w].seen, job[w].chunk, "stored"))
               fits(U) == {T \in Selections(U, have) : HasRoom(Cardinality(T))}
    <2>6. PICK U \in Usable(job[w].handles \ (Existing(w) \cup Barred(w))) :
             \/ \E T \in fits(U) :
                   Become(w, [op |-> "upload", handles |-> job[w].handles,
                              work |-> job[w].work, report |-> job[w].report,
                              chunk |-> job[w].chunk, seen |-> job[w].seen,
                              targets |-> T, stale |-> {}])
             \/ NextChunk(w, TRUE)
      BY <1>3, Zenon DEF FetchHit
    <2>7. fits(U) \subseteq SUBSET Provider
      BY <2>1 DEF Usable, Selections, FetchState
    <2> QED
      BY <2>4, <2>5, <2>6, <2>7
  <1>4. CASE FetchExhausted(w)
    BY <1>4, NextChunkType DEF FetchExhausted
  <1>5. ASSUME NEW p \in Provider, UploadLands(w, p)
        PROVE  TypeOK'
    <2>1. job[w] \in UploadState
      BY <1>5, JobStates DEF UploadLands
    <2>2. RemoteTypeOK'
      BY <1>5, <2>1, PutType DEF UploadLands, UploadState
    <2>3. [job[w] EXCEPT !.targets = @ \ {p}, !.stale = Superseded(w, p)] \in JobState
      BY <2>1, SupersededType DEF UploadState, JobState
    <2>4. rows' \in Snapshot
      BY <1>5, <2>1, AddReplicaType DEF UploadLands, UploadState
    <2>5. job' \in [Worker -> JobState]
      BY <1>5, <2>3, BecomeType, IdleType DEF UploadLands
    <2> QED
      BY <1>5, <2>2, <2>4, <2>5 DEF UploadLands
  <1>6. ASSUME NEW p \in Provider, UploadRaises(w, p)
        PROVE  TypeOK'
    <2>1. job[w] \in UploadState
      BY <1>6, JobStates DEF UploadRaises
    <2>2. RemoteTypeOK'
      BY <1>6, <2>1, PutType DEF UploadRaises, UploadState
    <2>3. [job[w] EXCEPT !.targets = @ \ {p}, !.report = @ \cup {job[w].chunk}] \in JobState
      BY <2>1 DEF UploadState, JobState
    <2>4. job' \in [Worker -> JobState]
      BY <1>6, <2>3, BecomeType DEF UploadRaises
    <2> QED
      BY <1>6, <2>2, <2>4 DEF UploadRaises
  <1>7. CASE EndUpload(w)
    BY <1>7, NextChunkType DEF EndUpload
  <1>8. CASE EndRepair(w)
    BY <1>8, BecomeType, IdleType DEF EndRepair
  <1>9. ASSUME NEW i \in RowId, Retire(w, i)
        PROVE  TypeOK'
    <2>1. job[w] \in UploadState
      BY <1>9, JobStates DEF Retire
    <2>2. [job[w] EXCEPT !.stale = @ \ {i}] \in JobState
      BY <2>1 DEF UploadState, JobState
    <2>3. job' \in [Worker -> JobState]
      BY <1>9, <2>2, BecomeType, IdleType DEF Retire
    <2>4. "lost" \in State
      BY DEF State
    <2>5. rows' \in Snapshot
      BY <1>9, <2>4, SetStateType DEF Retire
    <2> QED
      BY <1>9, <2>3, <2>5 DEF Retire
  <1> QED
    BY <1>1, <1>2, <1>3, <1>4, <1>5, <1>6, <1>7, <1>8, <1>9 DEF RepairStep

\* The ids that an insert gives out are one for each new row: the CHOOSE of
\* Numbering has something to choose.
LEMMA NumberingIsBijection ==
    ASSUME NEW placed, IsFiniteSet(placed), NEW n \in Int
    PROVE  Numbering(n, placed) \in Bijection(n..n + Cardinality(placed) - 1, placed)
  <1> DEFINE k == Cardinality(placed)
             shift == [i \in n..n + k - 1 |-> i - n + 1]
  <1>1. k \in Nat /\ ExistsBijection(1..k, placed)
    BY FS_CardinalityType, FS_NatBijection, FS_CountingElements
  <1> HIDE DEF k
  <1>2. shift \in Bijection(n..n + k - 1, 1..k)
    <2>1. shift \in [n..n + k - 1 -> 1..k]
      BY <1>1
    <2>2. \A a, b \in n..n + k - 1 : shift[a] = shift[b] => a = b
      BY <1>1
    <2>3. \A t \in 1..k : \E i \in n..n + k - 1 : shift[i] = t
      <3>1. ASSUME NEW t \in 1..k
            PROVE  t + n - 1 \in n..n + k - 1 /\ (t + n - 1) - n + 1 = t
        BY <1>1
      <3> QED
        BY <3>1
    <2> QED
      BY <2>1, <2>2, <2>3, Fun_IsBij
  <1>3. ExistsBijection(n..n + k - 1, placed)
    BY <1>1, <1>2, Fun_ExistsBijTransitive DEF ExistsBijection
  <1> QED
    BY <1>3 DEF ExistsBijection, Numbering, k

\* insert_file_with_manifest keeps the table well-typed.
LEMMA InsertType ==
    ASSUME rows \in Snapshot, NEW f, NEW n \in Int,
           NEW placed \in SUBSET (Chunk \X Provider), InsertFileWithManifest(f, n, placed)
    PROVE  rows' \in Snapshot
  <1>1. IsFiniteSet(placed)
    BY ManifestAssumption, FS_Product, FS_Subset
  <1> DEFINE num == Numbering(n, placed)
  <1>2. num \in [n..n + Cardinality(placed) - 1 -> placed]
    <2>1. num \in Bijection(n..n + Cardinality(placed) - 1, placed)
      BY <1>1, NumberingIsBijection
    <2> HIDE DEF num
    <2> QED
      BY <2>1 DEF Bijection, Injection
  <1>3. rows' = [i \in RowId |->
                    IF i \in DOMAIN num
                    THEN [chunk |-> num[i][1], prov |-> num[i][2], state |-> "stored"]
                    ELSE rows[i]]
    BY DEF InsertFileWithManifest
  <1> HIDE DEF num
  <1> QED
    BY <1>2, <1>3 DEF Snapshot, Row, State

\* The list of uploaded objects names providers and chunks.
LEMMA UploadedType ==
    ASSUME TypeOK, NEW w \in Worker
    PROVE  /\ Uploaded(w) \in SUBSET (Provider \X Chunk)
           /\ {<<o[2], o[1]>> : o \in Uploaded(w)} \in SUBSET (Chunk \X Provider)
    BY DEF Uploaded

\* Every step of an upload keeps the types.
LEMMA PutStepType ==
    ASSUME TypeOK, NEW w \in Worker, PutStep(w)
    PROVE  TypeOK'
  <1> USE DEF TypeOK, RegisterTypeOK, RemoteTypeOK, PipelineTypeOK, regVars, remoteVars,
              pipeVars
  <1>1. ASSUME NEW f \in File, StartPut(w, f)
        PROVE  TypeOK'
    <2>1. \A usable \in Usable(provs) : Plans(usable) \subseteq [Group -> SUBSET Provider]
      BY DEF Usable, Plans, Selections
    <2>2. \A plan \in [Group -> SUBSET Provider] :
             [op |-> "put", file |-> f, plan |-> plan, left |-> ChunksOf(f), landed |-> {}]
                \in JobState
      BY DEF ChunksOf, PutState, JobState
    <2>3. \E plan \in [Group -> SUBSET Provider] :
             Become(w, [op |-> "put", file |-> f, plan |-> plan,
                        left |-> ChunksOf(f), landed |-> {}])
      BY <1>1, <2>1 DEF StartPut
    <2>4. job' \in [Worker -> JobState]
      BY <2>2, <2>3, BecomeType
    <2> QED
      BY <1>1, <2>4 DEF StartPut
  <1>2. ASSUME NEW c \in Chunk, NEW p \in Provider, PutLands(w, c, p)
        PROVE  TypeOK'
    <2>1. job[w] \in PutState
      BY <1>2, JobStates DEF PutLands, Putting
    <2>2. /\ [job[w] EXCEPT !.left = @ \ {c}, !.landed = {}] \in JobState
          /\ [job[w] EXCEPT !.landed = @ \cup {p}] \in JobState
      BY <2>1 DEF PutState, JobState
    <2>3. job' \in [Worker -> JobState]
      BY <1>2, <2>2, BecomeType DEF PutLands
    <2>4. RemoteTypeOK'
      BY <1>2, PutType DEF PutLands
    <2> QED
      BY <1>2, <2>3, <2>4 DEF PutLands
  <1>3. ASSUME NEW c \in Chunk, NEW p \in Provider, PutFails(w, c, p)
        PROVE  TypeOK'
    <2>1. job[w] \in PutState
      BY <1>3, JobStates DEF PutFails, Putting
    <2>2. [op |-> "cleanup", uploaded |-> Uploaded(w)] \in JobState
      BY UploadedType DEF CleanupState, JobState
    <2>3. job' \in [Worker -> JobState]
      BY <1>3, <2>2, BecomeType DEF PutFails
    <2>4. RemoteTypeOK'
      BY <1>3, PutType DEF PutFails
    <2>5. Waiting(w, c) \subseteq Provider
      BY <2>1, ManifestAssumption DEF Waiting, PutState, GroupOf, Group
    <2> QED
      BY <1>3, <2>3, <2>4, <2>5 DEF PutFails
  <1>4. ASSUME NEW c \in Chunk, NEW p \in Provider, CleanupOne(w, p, c)
        PROVE  TypeOK'
    <2>1. job[w] \in CleanupState
      BY <1>4, JobStates DEF CleanupOne
    <2>2. [job[w] EXCEPT !.uploaded = @ \ {<<p, c>>}] \in JobState
      BY <2>1 DEF CleanupState, JobState
    <2>3. job' \in [Worker -> JobState]
      BY <1>4, <2>2, BecomeType DEF CleanupOne
    <2>4. RemoteTypeOK'
      BY <1>4, DeleteType DEF CleanupOne
    <2> QED
      BY <1>4, <2>3, <2>4 DEF CleanupOne
  <1>5. CASE EndCleanup(w)
    BY <1>5, BecomeType, IdleType DEF EndCleanup
  <1>6. CASE CommitPut(w)
    <2> DEFINE placed == {<<o[2], o[1]>> : o \in Uploaded(w)}
    <2>1. job' \in [Worker -> JobState]
      BY <1>6, BecomeType, IdleType DEF CommitPut
    <2>2. job[w] \in PutState
      BY <1>6, JobStates DEF CommitPut
    <2>3. placed \in SUBSET (Chunk \X Provider)
      BY UploadedType
    <2>4. CASE \E n \in 1..MaxRows + 1 : InsertFileWithManifest(job[w].file, n, placed)
      <3> HIDE DEF placed
      <3>0. PICK n \in Int : InsertFileWithManifest(job[w].file, n, placed)
        BY <2>4
      <3>1. rows' \in Snapshot
        BY <2>3, <3>0, InsertType
      <3>2. files' = files \cup {job[w].file} /\ provs' = provs /\ job[w].file \in File
        BY <2>2, <3>0 DEF InsertFileWithManifest, PutState
      <3> QED
        BY <1>6, <2>1, <3>1, <3>2 DEF CommitPut
    <2>5. CASE UNCHANGED regVars
      BY <1>6, <2>1, <2>5 DEF CommitPut
    <2> QED
      BY <1>6, <2>4, <2>5 DEF CommitPut
  <1> QED
    BY <1>1, <1>2, <1>3, <1>4, <1>5, <1>6 DEF PutStep

\* The cascade of delete_file keeps the register well-typed.
LEMMA DeleteFileType ==
    ASSUME RegisterTypeOK, NEW f, DeleteFile(f)
    PROVE  RegisterTypeOK'
    BY DEF RegisterTypeOK, DeleteFile, Snapshot, Row

\* The cascade of delete_provider keeps the register well-typed.
LEMMA DeleteProviderType ==
    ASSUME RegisterTypeOK, NEW p, DeleteProvider(p)
    PROVE  RegisterTypeOK'
    BY DEF RegisterTypeOK, DeleteProvider, Snapshot, Row

\* Every step of remove_file keeps the types.
LEMMA RemoveStepType ==
    ASSUME TypeOK, NEW w \in Worker, RemoveStep(w)
    PROVE  TypeOK'
  <1> USE DEF TypeOK, RegisterTypeOK, RemoteTypeOK, PipelineTypeOK, regVars, remoteVars,
              pipeVars
  <1>1. ASSUME NEW f \in File, StartRemove(w, f)
        PROVE  TypeOK'
    <2>1. [op |-> "remove", file |-> f, seen |-> rows,
           todo |-> {i \in Ids(rows) : FileOf[rows[i].chunk] = f}] \in JobState
      BY DEF Ids, RemoveState, JobState
    <2> QED
      BY <1>1, <2>1, BecomeType DEF StartRemove
  <1>2. ASSUME NEW i \in RowId, RemoveOne(w, i)
        PROVE  TypeOK'
    <2>1. job[w] \in RemoveState
      BY <1>2, JobStates DEF RemoveOne
    <2>2. [job[w] EXCEPT !.todo = @ \ {i}] \in JobState
      BY <2>1 DEF RemoveState, JobState
    <2>3. job' \in [Worker -> JobState]
      BY <1>2, <2>2, BecomeType, IdleType DEF RemoveOne
    <2>4. RemoteTypeOK'
      BY <1>2 DEF RemoveOne, Delete, WithDelete, Object
    <2> QED
      BY <1>2, <2>3, <2>4 DEF RemoveOne
  <1>3. CASE EndRemove(w)
    BY <1>3, BecomeType, IdleType, DeleteFileType DEF EndRemove
  <1> QED
    BY <1>1, <1>2, <1>3 DEF RemoveStep

\* A download that moves to a well-typed state keeps the downloads so.
LEMMA ContinueType ==
    ASSUME PipelineTypeOK, NEW r \in Reader, NEW s \in Outcome \cup Reading, Continue(r, s)
    PROVE  download' \in [Reader -> Outcome \cup Reading]
    BY DEF PipelineTypeOK, Continue

\* Going on to the next replica keeps the downloads well-typed.
LEMMA TryNextType ==
    ASSUME TypeOK, NEW r \in Reader, NEW s \in Reading, TryNext(r, s)
    PROVE  download' \in [Reader -> Outcome \cup Reading]
  <1>1. Aborted \in Outcome
    BY DEF Aborted, Outcome
  <1>2. \A i : s.seen[i].prov \in provs \cup s.made =>
                  [s EXCEPT !.made = @ \cup {s.seen[i].prov}] \in Reading
    BY DEF Reading, TypeOK, RegisterTypeOK
  <1> QED
    BY <1>1, <1>2, ContinueType DEF TryNext, TypeOK

\* Going on to the next chunk keeps the downloads well-typed.
LEMMA ReadFromType ==
    ASSUME TypeOK, NEW r \in Reader, NEW left \in SUBSET Chunk, NEW made \in SUBSET Provider,
           ReadFrom(r, left, made)
    PROVE  download' \in [Reader -> Outcome \cup Reading]
  <1>1. \A c \in left :
           [op |-> "reading", left |-> left \ {c}, chunk |-> c, seen |-> RowsOf(c),
            todo |-> NonLost(RowsOf(c)), made |-> made] \in Reading
    BY RowsOfType DEF Reading, TypeOK, RegisterTypeOK
  <1>2. [op |-> "written"] \in Outcome
    BY DEF Outcome
  <1> QED
    BY <1>1, <1>2, ContinueType, TryNextType DEF ReadFrom, TypeOK

\* Every step of a download keeps the types.
LEMMA GetStepType ==
    ASSUME TypeOK, NEW r \in Reader, GetStep(r)
    PROVE  TypeOK'
  <1> USE DEF TypeOK, RegisterTypeOK, RemoteTypeOK, PipelineTypeOK, regVars, remoteVars
  <1>1. ASSUME NEW f \in File, StartGet(r, f)
        PROVE  TypeOK'
    <2>1. download' \in [Reader -> Outcome \cup Reading]
      BY <1>1, ReadFromType DEF StartGet, ChunksOf
    <2> QED
      BY <1>1, <2>1 DEF StartGet
  <1>2. ASSUME NEW i \in RowId, Trying(r, i)
        PROVE  /\ download[r] \in Reading
               /\ Aborted \in Outcome
               /\ \A s \in State : TryEnds(r, i, s) => rows' \in Snapshot
    <2>1. download[r] \in Reading
      BY <1>2 DEF Trying, Outcome, Reading
    <2> QED
      BY <2>1, SetStateType DEF TryEnds, Aborted, Outcome
  <1>3. ASSUME NEW i \in RowId, GetHit(r, i)
        PROVE  TypeOK'
    <2>1. download' \in [Reader -> Outcome \cup Reading]
      BY <1>2, <1>3, ReadFromType, ContinueType DEF GetHit, Reading
    <2>2. rows' \in Snapshot
      BY <1>2, <1>3 DEF GetHit, State
    <2> QED
      BY <1>3, <2>1, <2>2 DEF GetHit, TryEnds
  <1>4. ASSUME NEW i \in RowId, GetMissed(r, i)
        PROVE  TypeOK'
    <2>1. download[r] \in Reading /\ Aborted \in Outcome
      BY <1>2, <1>4 DEF GetMissed
    <2>2. [download[r] EXCEPT !.todo = @ \ {i}] \in Reading
      BY <2>1 DEF Reading
    <2>3. download' \in [Reader -> Outcome \cup Reading]
      BY <1>4, <2>1, <2>2, TryNextType, ContinueType DEF GetMissed
    <2>4. rows' \in Snapshot
      BY <1>2, <1>4 DEF GetMissed, State
    <2> QED
      BY <1>4, <2>3, <2>4 DEF GetMissed, TryEnds
  <1>5. CASE GetExhausted(r)
    BY <1>5, ContinueType DEF GetExhausted, Outcome
  <1> QED
    BY <1>1, <1>3, <1>4, <1>5 DEF GetStep

\* Damage, removed providers, stray puts and crashes keep the types.
LEMMA OthersType ==
    ASSUME TypeOK,
           \/ Environment
           \/ \E w \in Worker : Crash(w)
    PROVE  TypeOK'
  <1> USE DEF TypeOK, RegisterTypeOK, RemoteTypeOK, PipelineTypeOK, regVars, remoteVars,
              pipeVars
  <1>1. ASSUME NEW w \in Worker, Crash(w)
        PROVE  TypeOK'
    BY <1>1, BecomeType, IdleType, WithPutType DEF Crash
  <1>2. ASSUME NEW p \in Provider, NEW c \in Chunk, Damage(p, c),
               UNCHANGED <<regVars, job, pipeVars>>
        PROVE  TypeOK'
    BY <1>2, RemoteAssumption DEF Damage, Object
  <1>3. ASSUME NEW p \in Provider, RemoveProvider(p)
        PROVE  TypeOK'
    BY <1>3, DeleteProviderType DEF RemoveProvider
  <1>4. ASSUME NEW p \in Provider, NEW c \in Chunk, StrayPut(p, c)
        PROVE  TypeOK'
    BY <1>4, PutType DEF StrayPut
  <1> QED
    BY <1>1, <1>2, <1>3, <1>4 DEF Environment

\* Type correctness: jobs, downloads and the register only ever hold what
\* their declarations say, through every failure, crash and removal.
THEOREM TypeCorrect == Spec => []TypeOK
  <1>1. Init => TypeOK
    BY RemoteAssumption
    DEF Init, RegisterInit, RemoteInit, JobsInit, PipelineInit, TypeOK, RegisterTypeOK,
        RemoteTypeOK, PipelineTypeOK, Snapshot, Object, JobState, Outcome
  <1>2. TypeOK /\ [Next]_vars => TypeOK'
    <2> SUFFICES ASSUME TypeOK, [Next]_vars
                 PROVE  TypeOK'
      OBVIOUS
    <2>1. ASSUME NEW w \in Worker, Scrub(w)
          PROVE  TypeOK'
      <3>1. CASE \E deep, repair \in BOOLEAN, batch \in SUBSET NonLost(rows) :
                    StartScrub(w, deep, repair, batch)
        <4>1. PICK deep \in BOOLEAN, repair \in BOOLEAN, batch \in SUBSET NonLost(rows) :
                      StartScrub(w, deep, repair, batch)
          BY <3>1
        <4>2. [op |-> "scan", deep |-> deep, repair |-> repair, seen |-> rows,
               todo |-> batch] \in JobState
          BY DEF TypeOK, RegisterTypeOK, NonLost, Ids, ScanState, JobState
        <4> QED
          BY <2>1, <4>1, <4>2, BecomeType
          DEF Scrub, StartScrub, TypeOK, RegisterTypeOK, RemoteTypeOK, PipelineTypeOK,
              regVars, remoteVars, pipeVars
      <3> QED
        BY <2>1, <3>1, ScanType, RepairType DEF Scrub
    <2>2. CASE UNCHANGED vars
      BY <2>2 DEF vars, regVars, remoteVars, pipeVars, TypeOK, RegisterTypeOK,
                  RemoteTypeOK, PipelineTypeOK
    <2> QED
      BY <2>1, <2>2, PutStepType, RemoveStepType, GetStepType, OthersType DEF Next
  <1> QED
    BY <1>1, <1>2, PTL DEF Spec

----------------------------------------------------------------------------
(* What has been uploaded, and the books of an upload.                     *)

UploadInv == TypeOK /\ PutProgress

\* An object that was uploaded once stays on record as uploaded.
NeverAgainNever ==
    \A p \in Provider, c \in Chunk : remote[p][c] # "never" => remote'[p][c] # "never"

\* A step leaves a row, deletes it, moves it along a legal transition, or fills
\* a free id with a row for an object that has been uploaded.
RowChange(i) ==
    \/ rows'[i] = rows[i]
    \/ rows'[i] = NoRow
    \/ /\ i \in Ids(rows)
       /\ \E s \in State :
             /\ s = rows[i].state \/ s \in Transitions[rows[i].state]
             /\ rows'[i] = [rows[i] EXCEPT !.state = s]
    \/ /\ i \notin Ids(rows)
       /\ \E c \in Chunk, p \in Provider, s \in State :
             /\ rows'[i] = [chunk |-> c, prov |-> p, state |-> s]
             /\ remote'[p][c] # "never"

\* Puts take no object back to "never".
LEMMA WithPutKeeps ==
    ASSUME RemoteTypeOK, NEW objs, remote' = WithPut(objs)
    PROVE  NeverAgainNever
    BY DEF RemoteTypeOK, WithPut, NeverAgainNever

\* Neither does one put, whether it returns or raises.
LEMMA PutKeeps ==
    ASSUME RemoteTypeOK, NEW p \in Provider, NEW c \in Chunk, Put(p, c) \/ PutRaises(p, c)
    PROVE  NeverAgainNever
    BY WithPutKeeps DEF Put, PutRaises, NeverAgainNever

\* Nor a delete: what was uploaded and is gone is "gone".
LEMMA DeleteKeeps ==
    ASSUME RemoteTypeOK, NEW p, NEW c, Delete(p, c)
    PROVE  NeverAgainNever
    BY DEF Delete, WithDelete, RemoteTypeOK, NeverAgainNever

\* No step of the system takes an object back to "never".
LEMMA UploadIsForGood ==
    ASSUME TypeOK, [Next]_vars
    PROVE  NeverAgainNever
  <1> USE DEF TypeOK
  <1>1. CASE UNCHANGED remoteVars
    BY <1>1 DEF remoteVars, NeverAgainNever
  <1>2. CASE UNCHANGED vars
    BY <1>1, <1>2 DEF vars
  <1>3. ASSUME NEW w \in Worker, Scrub(w)
        PROVE  NeverAgainNever
    <2>1. CASE \E deep, repair \in BOOLEAN, batch \in SUBSET NonLost(rows) :
                  StartScrub(w, deep, repair, batch)
      BY <1>1, <2>1 DEF StartScrub
    <2>2. CASE ScanStep(w)
      BY <1>1, <2>2 DEF ScanStep, ProbeFound, ProbeMissed, DeepVerified, DeepCorrupt,
                        DeepFailed, EndScan, Observe
    <2>3. ASSUME NEW p \in Provider, UploadLands(w, p) \/ UploadRaises(w, p)
          PROVE  NeverAgainNever
      <3>1. job[w].chunk \in Chunk
        BY <2>3, JobStates DEF UploadLands, UploadRaises, UploadState
      <3> QED
        BY <2>3, <3>1, PutKeeps DEF UploadLands, UploadRaises
    <2>4. CASE RepairStep(w)
      BY <1>1, <2>3, <2>4 DEF RepairStep, RepairChunk, FetchMissed, FetchHit, Retire,
                              FetchExhausted, EndUpload, EndRepair
    <2> QED
      BY <1>3, <2>1, <2>2, <2>4 DEF Scrub
  <1>4. ASSUME NEW w \in Worker, PutStep(w)
        PROVE  NeverAgainNever
    <2>1. ASSUME NEW c \in Chunk, NEW p \in Provider, PutLands(w, c, p) \/ PutFails(w, c, p)
          PROVE  NeverAgainNever
      BY <2>1, PutKeeps DEF PutLands, PutFails
    <2>2. ASSUME NEW c \in Chunk, NEW p \in Provider, CleanupOne(w, p, c)
          PROVE  NeverAgainNever
      BY <2>2, DeleteKeeps DEF CleanupOne
    <2> QED
      BY <1>1, <1>4, <2>1, <2>2 DEF PutStep, StartPut, EndCleanup, CommitPut
  <1>5. ASSUME NEW w \in Worker, RemoveStep(w)
        PROVE  NeverAgainNever
    BY <1>1, <1>5, DeleteKeeps DEF RemoveStep, StartRemove, RemoveOne, EndRemove
  <1>6. ASSUME NEW w \in Worker, Crash(w)
        PROVE  NeverAgainNever
    BY <1>6, WithPutKeeps DEF Crash
  <1>7. ASSUME NEW r \in Reader, GetStep(r)
        PROVE  NeverAgainNever
    BY <1>1, <1>7 DEF GetStep, StartGet, GetHit, GetMissed, GetExhausted, TryEnds
  <1>8. CASE Environment
    <2>1. ASSUME NEW p \in Provider, NEW c \in Chunk, Damage(p, c)
          PROVE  NeverAgainNever
      BY <2>1 DEF Damage, Exists, Intact, RemoteTypeOK, NeverAgainNever
    <2>2. ASSUME NEW p \in Provider, NEW c \in Chunk, StrayPut(p, c)
          PROVE  NeverAgainNever
      BY <2>2, PutKeeps DEF StrayPut
    <2> QED
      BY <1>1, <1>8, <2>1, <2>2 DEF Environment, RemoveProvider
  <1> QED
    BY <1>2, <1>3, <1>4, <1>5, <1>6, <1>7, <1>8 DEF Next

\* seq % min_spread is the number of a shard group.
LEMMA GroupOfType == \A c \in Chunk : GroupOf(c) \in Group
    BY ManifestAssumption DEF GroupOf, Group

\* A step that starts or advances no upload keeps the uploads' books right.
LEMMA OthersKeepProgress ==
    ASSUME UploadInv, NeverAgainNever,
           \A v \in Worker : job'[v] = job[v] \/ job'[v].op # "put"
    PROVE  PutProgress'
  <1> SUFFICES ASSUME NEW v \in Worker, job'[v].op = "put"
               PROVE  /\ \A g \in Group : Cardinality(job'[v].plan[g]) >= ReplicaTarget
                      /\ job'[v].left \subseteq ChunksOf(job'[v].file)
                      /\ \A c \in ChunksOf(job'[v].file) \ job'[v].left :
                            \A p \in job'[v].plan[GroupOf(c)] : remote'[p][c] # "never"
                      /\ \A c \in job'[v].left, p \in job'[v].landed :
                            IsNextChunk(c, job'[v].left) => remote'[p][c] # "never"
    BY DEF PutProgress
  <1>1. job'[v] = job[v] /\ job[v] \in PutState
    BY JobStates DEF UploadInv, TypeOK
  <1>2. \A c \in Chunk : job[v].plan[GroupOf(c)] \in SUBSET Provider
    BY <1>1, GroupOfType DEF PutState
  <1> QED
    BY <1>1, <1>2 DEF UploadInv, PutProgress, NeverAgainNever, PutState, ChunksOf

\* A step of one upload keeps the books of all of them right if it keeps
\* its own right.
LEMMA OneKeepsProgress ==
    ASSUME UploadInv, NeverAgainNever, NEW w \in Worker,
           \A v \in Worker \ {w} : job'[v] = job[v],
           \A g \in Group : Cardinality(job'[w].plan[g]) >= ReplicaTarget,
           job'[w].left \subseteq ChunksOf(job'[w].file),
           \A c \in ChunksOf(job'[w].file) \ job'[w].left :
              \A p \in job'[w].plan[GroupOf(c)] : remote'[p][c] # "never",
           \A c \in job'[w].left, p \in job'[w].landed :
              IsNextChunk(c, job'[w].left) => remote'[p][c] # "never"
    PROVE  PutProgress'
  <1>1. ASSUME NEW v \in Worker \ {w}, job[v].op = "put"
        PROVE  /\ \A g \in Group : Cardinality(job[v].plan[g]) >= ReplicaTarget
               /\ job[v].left \subseteq ChunksOf(job[v].file)
               /\ \A c \in ChunksOf(job[v].file) \ job[v].left :
                     \A p \in job[v].plan[GroupOf(c)] : remote'[p][c] # "never"
               /\ \A c \in job[v].left, p \in job[v].landed :
                     IsNextChunk(c, job[v].left) => remote'[p][c] # "never"
    <2>1. job[v] \in PutState
      BY <1>1, JobStates DEF UploadInv, TypeOK
    <2>2. \A c \in Chunk : job[v].plan[GroupOf(c)] \in SUBSET Provider
      BY <2>1, GroupOfType DEF PutState
    <2> QED
      BY <1>1, <2>1, <2>2 DEF UploadInv, PutProgress, NeverAgainNever, PutState, ChunksOf
  <1> QED
    BY <1>1 DEF PutProgress

\* Every step keeps the books of the uploads right.
LEMMA ProgressKept ==
    ASSUME UploadInv, [Next]_vars
    PROVE  PutProgress'
  <1>0. NeverAgainNever /\ TypeOK
    BY UploadIsForGood DEF UploadInv
  <1> USE DEF TypeOK
  <1>1. CASE UNCHANGED job
    BY <1>0, <1>1, OthersKeepProgress
  <1>2. ASSUME NEW w \in Worker, NEW s, Become(w, s), s.op # "put"
        PROVE  PutProgress'
    BY <1>0, <1>2, OthersKeepProgress DEF Become
  <1>3. ASSUME NEW w \in Worker, Scrub(w)
        PROVE  PutProgress'
    <2>1. \A v \in Worker : job'[v] = job[v] \/ job'[v].op # "put"
      <3> USE DEF Become
      <3>1. CASE \E deep, repair \in BOOLEAN, batch \in SUBSET NonLost(rows) :
                    StartScrub(w, deep, repair, batch)
        BY <1>0, <3>1 DEF StartScrub
      <3>2. CASE ScanStep(w)
        <4>1. ASSUME NEW i \in RowId, job[w].op = "scan",
                     RowDone(w, i) \/ \E s \in State : Observe(w, i, s)
              PROVE  \A v \in Worker : job'[v] = job[v] \/ job'[v].op # "put"
          <5>1. job[w] \in ScanState
            BY <1>0, <4>1, JobStates
          <5> QED
            BY <1>0, <4>1, <5>1 DEF Observe, RowDone, Failed, ScanState
        <4>2. CASE EndScan(w)
          BY <1>0, <4>2 DEF EndScan, Idle
        <4>3. \A st : Demotion(st) \in State
          BY DEF Demotion, State
        <4> QED
          BY <3>2, <4>1, <4>2, <4>3
          DEF ScanStep, ProbeFound, ProbeMissed, DeepVerified, DeepCorrupt, DeepFailed,
              Scanning, State
      <3>3. CASE RepairStep(w)
        <4>1. ASSUME NEW failed, NextChunk(w, failed)
              PROVE  \A v \in Worker : job'[v] = job[v] \/ job'[v].op # "put"
          BY <1>0, <4>1 DEF NextChunk
        <4>2. ASSUME NEW i \in RowId, FetchMissed(w, i)
              PROVE  \A v \in Worker : job'[v] = job[v] \/ job'[v].op # "put"
          <5>1. job[w] \in FetchState
            BY <1>0, <4>2, JobStates DEF FetchMissed
          <5> QED
            BY <1>0, <4>2, <5>1 DEF FetchMissed, FetchState
        <4>3. ASSUME NEW p \in Provider, UploadLands(w, p) \/ UploadRaises(w, p)
              PROVE  \A v \in Worker : job'[v] = job[v] \/ job'[v].op # "put"
          <5>1. job[w] \in UploadState
            BY <1>0, <4>3, JobStates DEF UploadLands, UploadRaises
          <5>2. /\ [job[w] EXCEPT !.targets = @ \ {p}, !.stale = Superseded(w, p)].op = "upload"
                /\ [job[w] EXCEPT !.targets = @ \ {p},
                                  !.report = @ \cup {job[w].chunk}].op = "upload"
            BY <5>1 DEF UploadState
          <5>3. ASSUME NEW s, s.op # "put", Become(w, s)
                PROVE  \A v \in Worker : job'[v] = job[v] \/ job'[v].op # "put"
            BY <1>0, <5>3
          <5>4. Failed.op # "put"
            BY DEF Failed
          <5> HIDE DEF Become
          <5> QED
            BY <4>3, <5>2, <5>3, <5>4 DEF UploadLands, UploadRaises
        <4>4. ASSUME NEW i \in RowId, FetchHit(w, i)
              PROVE  \A v \in Worker : job'[v] = job[v] \/ job'[v].op # "put"
          <5>1. ASSUME NEW T,
                       Become(w, [op |-> "upload", handles |-> job[w].handles,
                                  work |-> job[w].work, report |-> job[w].report,
                                  chunk |-> job[w].chunk, seen |-> job[w].seen,
                                  targets |-> T, stale |-> {}])
                PROVE  \A v \in Worker : job'[v] = job[v] \/ job'[v].op # "put"
            BY <1>0, <5>1
          <5> HIDE DEF Become
          <5> QED
            BY <4>1, <4>4, <5>1 DEF FetchHit
        <4>5. ASSUME NEW c \in Chunk, RepairChunk(w, c)
              PROVE  \A v \in Worker : job'[v] = job[v] \/ job'[v].op # "put"
          BY <1>0, <4>5 DEF RepairChunk
        <4>6. CASE FetchExhausted(w) \/ EndUpload(w)
          BY <4>1, <4>6 DEF FetchExhausted, EndUpload
        <4>7. CASE EndRepair(w)
          BY <1>0, <4>7 DEF EndRepair, Idle
        <4>8. ASSUME NEW i \in RowId, Retire(w, i)
              PROVE  \A v \in Worker : job'[v] = job[v] \/ job'[v].op # "put"
          <5>1. job[w] \in UploadState
            BY <1>0, <4>8, JobStates DEF Retire
          <5> QED
            BY <1>0, <4>8, <5>1 DEF Retire, UploadState, Failed
        <4> HIDE DEF Become
        <4> QED
          BY <3>3, <4>2, <4>3, <4>4, <4>5, <4>6, <4>7, <4>8 DEF RepairStep
      <3> QED
        BY <1>3, <3>1, <3>2, <3>3 DEF Scrub
    <2> QED
      BY <1>0, <2>1, OthersKeepProgress
  <1>4. ASSUME NEW w \in Worker, PutStep(w)
        PROVE  PutProgress'
    <2>1. ASSUME NEW f \in File, StartPut(w, f)
          PROVE  PutProgress'
      <3>1. \A v \in Worker \ {w} : job'[v] = job[v]
        BY <1>0, <2>1 DEF StartPut, Become
      <3>2. /\ job'[w].left = ChunksOf(f) /\ job'[w].file = f
            /\ job'[w].landed = {} /\ job'[w].op = "put"
        BY <1>0, <2>1 DEF StartPut, Become
      <3>3. PICK usable \in Usable(provs) : \E plan \in Plans(usable) :
               Become(w, [op |-> "put", file |-> f, plan |-> plan,
                          left |-> ChunksOf(f), landed |-> {}])
        BY <2>1 DEF StartPut
      <3>4. PICK plan \in Plans(usable) : job'[w].plan = plan
        BY <1>0, <3>3 DEF Become
      <3>5. \A g \in Group : Cardinality(plan[g]) >= ReplicaTarget
        <4>1. \A g \in Group : plan[g] \in Selections(usable, 0)
          BY <3>4 DEF Plans
        <4>2. \A g \in Group : plan[g] \in SUBSET Provider
          BY <1>0, <3>3, <4>1 DEF Usable, Selections, RegisterTypeOK
        <4>3. \A g \in Group : Cardinality(plan[g]) \in Nat
          BY <4>2, ManifestAssumption, FS_Subset, FS_CardinalityType
        <4> QED
          BY <4>1, <4>3 DEF Selections
      <3> QED
        BY <1>0, <3>1, <3>2, <3>4, <3>5, OneKeepsProgress
    <2>2. ASSUME NEW c \in Chunk, NEW p \in Provider, PutLands(w, c, p)
          PROVE  PutProgress'
      <3>1. job[w] \in PutState /\ job[w].op = "put"
        BY <1>0, <2>2, JobStates DEF PutLands, Putting
      <3>2. \A v \in Worker \ {w} : job'[v] = job[v]
        BY <1>0, <2>2 DEF PutLands, Become
      <3>3. remote'[p][c] = "intact"
        BY <1>0, <2>2 DEF PutLands, Put, WithPut
      <3>4. \A d \in Chunk : job[w].plan[GroupOf(d)] \in SUBSET Provider
        BY <3>1, GroupOfType DEF PutState
      <3>5. /\ job[w].left \subseteq ChunksOf(job[w].file)
            /\ c \in job[w].left
            /\ IsNextChunk(c, job[w].left)
            /\ \A d \in job[w].left : IsNextChunk(d, job[w].left) => d = c
        <4>1. job[w].left \subseteq ChunksOf(job[w].file)
          BY <3>1 DEF UploadInv, PutProgress
        <4>2. c \in job[w].left /\ IsNextChunk(c, job[w].left)
          BY <2>2 DEF PutLands, Putting, IsNextChunk
        <4>3. ASSUME NEW d \in job[w].left, IsNextChunk(d, job[w].left)
              PROVE  d = c
          <5>1. SeqOf[c] <= SeqOf[d] /\ SeqOf[d] <= SeqOf[c]
            BY <4>2, <4>3 DEF IsNextChunk
          <5>2. d \in Chunk /\ FileOf[c] = FileOf[d]
            BY <4>1, <4>2, <4>3 DEF ChunksOf
          <5> QED
            BY <5>1, <5>2, ManifestAssumption
        <4> QED
          BY <4>1, <4>2, <4>3
      <3>6. CASE Waiting(w, c) = {p}
        <4>1. job'[w] = [job[w] EXCEPT !.left = @ \ {c}, !.landed = {}]
          BY <1>0, <2>2, <3>6 DEF PutLands, Become
        <4>2. /\ job'[w].left = job[w].left \ {c} /\ job'[w].landed = {}
              /\ job'[w].plan = job[w].plan /\ job'[w].file = job[w].file
          BY <3>1, <4>1 DEF PutState
        <4>3. \A q \in job[w].plan[GroupOf(c)] : q = p \/ q \in job[w].landed
          BY <3>6 DEF Waiting
        <4>4. \A q \in job[w].plan[GroupOf(c)] : remote'[q][c] # "never"
          BY <1>0, <3>1, <3>3, <3>4, <3>5, <4>3
          DEF UploadInv, PutProgress, NeverAgainNever
        <4>5. \A d \in ChunksOf(job'[w].file) \ job'[w].left :
                 \A q \in job'[w].plan[GroupOf(d)] : remote'[q][d] # "never"
          BY <1>0, <3>1, <3>4, <4>2, <4>4
          DEF UploadInv, PutProgress, NeverAgainNever, ChunksOf
        <4> QED
          BY <1>0, <3>1, <3>2, <3>5, <4>2, <4>5, OneKeepsProgress
          DEF UploadInv, PutProgress
      <3>7. CASE Waiting(w, c) # {p}
        <4>1. job'[w] = [job[w] EXCEPT !.landed = @ \cup {p}]
          BY <1>0, <2>2, <3>7 DEF PutLands, Become
        <4>2. /\ job'[w].left = job[w].left /\ job'[w].landed = job[w].landed \cup {p}
              /\ job'[w].plan = job[w].plan /\ job'[w].file = job[w].file
          BY <3>1, <4>1 DEF PutState
        <4>3. \A d \in ChunksOf(job'[w].file) \ job'[w].left :
                 \A q \in job'[w].plan[GroupOf(d)] : remote'[q][d] # "never"
          BY <1>0, <3>1, <3>4, <4>2 DEF UploadInv, PutProgress, NeverAgainNever, ChunksOf
        <4>4. \A d \in job'[w].left, q \in job'[w].landed :
                 IsNextChunk(d, job'[w].left) => remote'[q][d] # "never"
          <5>1. \A q \in job[w].landed : q \in Provider /\ remote[q][c] # "never"
            BY <3>1, <3>5 DEF UploadInv, PutProgress, PutState
          <5> QED
            BY <1>0, <3>3, <3>5, <4>2, <5>1 DEF NeverAgainNever
        <4> QED
          BY <1>0, <3>1, <3>2, <3>5, <4>2, <4>3, <4>4, OneKeepsProgress
          DEF UploadInv, PutProgress
      <3> QED
        BY <3>6, <3>7
    <2>3. ASSUME NEW c \in Chunk, NEW p \in Provider,
                 PutFails(w, c, p) \/ CleanupOne(w, p, c)
          PROVE  PutProgress'
      <3>1. CASE PutFails(w, c, p)
        BY <1>2, <3>1 DEF PutFails
      <3>2. CASE CleanupOne(w, p, c)
        <4>1. job[w] \in CleanupState
          BY <1>0, <3>2, JobStates DEF CleanupOne
        <4> QED
          BY <1>2, <3>2, <4>1 DEF CleanupOne, CleanupState
      <3> QED
        BY <2>3, <3>1, <3>2
    <2>4. CASE EndCleanup(w) \/ CommitPut(w)
      BY <1>2, <2>4 DEF EndCleanup, CommitPut, Idle, Failed
    <2> QED
      BY <1>4, <2>1, <2>2, <2>3, <2>4 DEF PutStep
  <1>5. ASSUME NEW w \in Worker, RemoveStep(w)
        PROVE  PutProgress'
    <2>1. ASSUME NEW i \in RowId, RemoveOne(w, i)
          PROVE  PutProgress'
      <3>1. job[w] \in RemoveState
        BY <1>0, <2>1, JobStates DEF RemoveOne
      <3> QED
        BY <1>2, <2>1, <3>1 DEF RemoveOne, RemoveState, Failed
    <2> QED
      BY <1>2, <1>5, <2>1 DEF RemoveStep, StartRemove, EndRemove, Idle
  <1>6. ASSUME NEW w \in Worker, Crash(w)
        PROVE  PutProgress'
    BY <1>2, <1>6 DEF Crash, Failed
  <1>7. ASSUME NEW r \in Reader, GetStep(r)
        PROVE  PutProgress'
    BY <1>1, <1>7 DEF GetStep, StartGet, GetHit, GetMissed, GetExhausted, TryEnds
  <1>8. CASE Environment
    BY <1>1, <1>8 DEF Environment, RemoveProvider, StrayPut
  <1>9. CASE UNCHANGED vars
    BY <1>1, <1>9 DEF vars
  <1> QED
    BY <1>3, <1>4, <1>5, <1>6, <1>7, <1>8, <1>9 DEF Next

\* set_replica_state changes rows legally.
LEMMA SetStateChange ==
    ASSUME TypeOK, NEW i \in RowId, NEW s \in State,
           UNCHANGED rows \/ (CanSet(i, s) /\ SetReplicaState(i, s))
    PROVE  \A j \in RowId : RowChange(j)
    BY DEF TypeOK, RegisterTypeOK, Snapshot, CanSet, SetReplicaState, RowChange, Ids

\* A repaired copy is recorded after its upload, under a free id.
LEMMA AddReplicaChange ==
    ASSUME TypeOK, NEW c \in Chunk, NEW p \in Provider, AddReplica(c, p), Put(p, c)
    PROVE  \A j \in RowId : RowChange(j)
  <1>1. PICK n \in RowId :
           /\ IsNextId(n)
           /\ rows' = [rows EXCEPT ![n] = [chunk |-> c, prov |-> p, state |-> "stored"]]
    BY DEF AddReplica
  <1>2. rows[n] = NoRow
    BY <1>1 DEF IsNextId, RowId
  <1>3. remote'[p][c] = "intact"
    BY DEF TypeOK, RemoteTypeOK, Put, WithPut
  <1>4. /\ rows'[n] = [chunk |-> c, prov |-> p, state |-> "stored"]
        /\ \A j \in RowId \ {n} : rows'[j] = rows[j]
    BY <1>1 DEF TypeOK, RegisterTypeOK, Snapshot
  <1>5. RowChange(n)
    BY <1>2, <1>3, <1>4 DEF RowChange, Ids, State
  <1> QED
    BY <1>4, <1>5 DEF RowChange

\* The rows a file is born with name objects its upload has put in place.
LEMMA CommitChange ==
    ASSUME UploadInv, NEW w \in Worker, job[w].op = "put", job[w].left = {},
           remote' = remote, NEW f, NEW n \in Int, IsNextId(n),
           InsertFileWithManifest(f, n, {<<o[2], o[1]>> : o \in Uploaded(w)})
    PROVE  \A j \in RowId : RowChange(j)
  <1> DEFINE placed == {<<o[2], o[1]>> : o \in Uploaded(w)}
             num == Numbering(n, placed)
             last == n + Cardinality(placed) - 1
  <1>1. placed \in SUBSET (Chunk \X Provider)
    BY UploadedType DEF UploadInv
  <1>2. IsFiniteSet(placed)
    BY <1>1, ManifestAssumption, FS_Product, FS_Subset
  <1>3. num \in [n..last -> placed]
    <2>1. num \in Bijection(n..last, placed)
      BY <1>2, NumberingIsBijection
    <2> HIDE DEF num
    <2> QED
      BY <2>1 DEF Bijection, Injection
  <1>4. \A o \in placed : remote'[o[2]][o[1]] # "never"
    BY DEF UploadInv, PutProgress, Uploaded, ChunksOf
  <1>5. rows' = [i \in RowId |->
                    IF i \in DOMAIN num
                    THEN [chunk |-> num[i][1], prov |-> num[i][2], state |-> "stored"]
                    ELSE rows[i]]
    BY DEF InsertFileWithManifest
  <1> HIDE DEF num, placed, last
  <1>6. \A i \in RowId : i \in n..last => rows[i] = NoRow
    BY DEF IsNextId, RowId
  <1> TAKE j \in RowId
  <1>7. CASE j \in n..last
    <2>1. num[j] \in placed /\ num[j][1] \in Chunk /\ num[j][2] \in Provider
      BY <1>1, <1>3, <1>7
    <2>2. rows'[j] = [chunk |-> num[j][1], prov |-> num[j][2], state |-> "stored"]
      BY <1>3, <1>5, <1>7
    <2> QED
      BY <1>4, <1>6, <1>7, <2>1, <2>2 DEF RowChange, Ids, State
  <1>8. CASE j \notin n..last
    BY <1>3, <1>5, <1>8 DEF RowChange
  <1> QED
    BY <1>7, <1>8

\* Every step of the system changes every row legally.
LEMMA RowsChangeLegally ==
    ASSUME UploadInv, [Next]_vars
    PROVE  \A j \in RowId : RowChange(j)
  <1>0. TypeOK
    BY DEF UploadInv
  <1>1. CASE UNCHANGED rows
    BY <1>1 DEF RowChange
  <1>2. ASSUME NEW w \in Worker, Scrub(w)
        PROVE  \A j \in RowId : RowChange(j)
    <2>1. CASE \E deep, repair \in BOOLEAN, batch \in SUBSET NonLost(rows) :
                  StartScrub(w, deep, repair, batch)
      BY <1>1, <2>1 DEF StartScrub, regVars
    <2>2. CASE ScanStep(w)
      <3>1. ASSUME NEW i \in RowId, NEW s \in State, Observe(w, i, s)
            PROVE  \A j \in RowId : RowChange(j)
        BY <1>0, <3>1, SetStateChange DEF Observe
      <3>2. \A st : Demotion(st) \in State
        BY DEF Demotion, State
      <3>3. CASE EndScan(w)
        BY <1>1, <3>3 DEF EndScan, regVars
      <3>4. ASSUME NEW i \in RowId,
                   \/ ProbeFound(w, i) \/ ProbeMissed(w, i) \/ DeepVerified(w, i)
                   \/ DeepCorrupt(w, i) \/ DeepFailed(w, i)
            PROVE  \A j \in RowId : RowChange(j)
        <4>1. UNCHANGED rows \/ \E s \in State : Observe(w, i, s)
          BY <3>2, <3>4 DEF ProbeFound, ProbeMissed, DeepVerified, DeepCorrupt, DeepFailed,
                            State, regVars
        <4> QED
          BY <1>1, <3>1, <4>1
      <3> QED
        BY <2>2, <3>3, <3>4 DEF ScanStep
    <2>3. ASSUME NEW p \in Provider, UploadLands(w, p)
          PROVE  \A j \in RowId : RowChange(j)
      <3>1. job[w].chunk \in Chunk
        BY <1>0, <2>3, JobStates DEF UploadLands, TypeOK, UploadState
      <3> QED
        BY <1>0, <1>1, <2>3, <3>1, AddReplicaChange DEF UploadLands
    <2>4. ASSUME NEW i \in RowId, Retire(w, i)
          PROVE  \A j \in RowId : RowChange(j)
      <3>1. "lost" \in State
        BY DEF State
      <3> QED
        BY <1>0, <2>4, <3>1, SetStateChange DEF Retire
    <2>5. CASE RepairStep(w)
      BY <1>1, <2>3, <2>4, <2>5 DEF RepairStep, RepairChunk, FetchMissed, FetchHit,
                              FetchExhausted, UploadRaises, EndUpload, EndRepair, regVars
    <2> QED
      BY <1>2, <2>1, <2>2, <2>5 DEF Scrub
  <1>3. ASSUME NEW w \in Worker, PutStep(w)
        PROVE  \A j \in RowId : RowChange(j)
    <2>1. CASE CommitPut(w)
      <3>1. CASE UNCHANGED regVars
        BY <1>1, <3>1 DEF regVars
      <3>2. CASE \E n \in Int : /\ IsNextId(n)
                                /\ InsertFileWithManifest(job[w].file, n,
                                      {<<o[2], o[1]>> : o \in Uploaded(w)})
        BY <2>1, <3>2, CommitChange DEF CommitPut, remoteVars
      <3> QED
        BY <2>1, <3>1, <3>2 DEF CommitPut
    <2> QED
      BY <1>1, <1>3, <2>1 DEF PutStep, StartPut, PutLands, PutFails, CleanupOne,
                              EndCleanup, regVars
  <1>4. ASSUME NEW w \in Worker, RemoveStep(w)
        PROVE  \A j \in RowId : RowChange(j)
    <2>1. CASE EndRemove(w)
      BY <2>1 DEF EndRemove, DeleteFile, RowChange
    <2> QED
      BY <1>1, <1>4, <2>1 DEF RemoveStep, StartRemove, RemoveOne, regVars
  <1>5. ASSUME NEW w \in Worker, Crash(w)
        PROVE  \A j \in RowId : RowChange(j)
    BY <1>1, <1>5 DEF Crash, regVars
  <1>6. ASSUME NEW r \in Reader, GetStep(r)
        PROVE  \A j \in RowId : RowChange(j)
    <2>1. ASSUME NEW i \in RowId, GetHit(r, i) \/ GetMissed(r, i)
          PROVE  \A j \in RowId : RowChange(j)
      BY <1>0, <2>1, SetStateChange DEF GetHit, GetMissed, TryEnds, State
    <2> QED
      BY <1>1, <1>6, <2>1 DEF GetStep, StartGet, GetExhausted, regVars
  <1>7. CASE Environment
    <2>1. ASSUME NEW p \in Provider, RemoveProvider(p)
          PROVE  \A j \in RowId : RowChange(j)
      BY <2>1 DEF RemoveProvider, DeleteProvider, RowChange
    <2> QED
      BY <1>1, <1>7, <2>1 DEF Environment, StrayPut, regVars
  <1>8. CASE UNCHANGED vars
    BY <1>1, <1>8 DEF vars, regVars
  <1> QED
    BY <1>2, <1>3, <1>4, <1>5, <1>6, <1>7, <1>8 DEF Next

\* The inductive invariant: the types, and the uploads' books.
LEMMA UploadInvHolds == Spec => []UploadInv
  <1>1. Init => PutProgress
    BY DEF Init, JobsInit, PutProgress, Idle
  <1>2. UploadInv /\ [Next]_vars => PutProgress'
    BY ProgressKept
  <1>3. Init /\ TypeOK => UploadInv
    BY <1>1 DEF UploadInv
  <1>4. UploadInv /\ TypeOK' /\ [Next]_vars => UploadInv'
    BY <1>2 DEF UploadInv
  <1> QED
    BY <1>3, <1>4, TypeCorrect, PTL DEF Spec

\* The books of an upload are right at every await: its plan meets the floor,
\* and what it has ticked off is on the providers, whoever else is at work.
THEOREM UploadsKeepBooks == Spec => []PutProgress
  BY UploadInvHolds, PTL DEF UploadInv

\* Crash safety of put_file and repair: whatever fails, and whoever crashes,
\* the register names no object that was never uploaded.
THEOREM RowsUploaded == Spec => []RowsWereUploaded
  <1>1. Init => RowsWereUploaded
    BY DEF Init, RegisterInit, RowsWereUploaded, Ids
  <1>2. UploadInv /\ RowsWereUploaded /\ [Next]_vars => RowsWereUploaded'
    <2> SUFFICES ASSUME UploadInv, RowsWereUploaded, [Next]_vars,
                        NEW i \in RowId, rows'[i] # NoRow
                 PROVE  remote'[rows'[i].prov][rows'[i].chunk] # "never"
      BY DEF RowsWereUploaded, Ids
    <2>1. RowChange(i) /\ NeverAgainNever
      BY RowsChangeLegally, UploadIsForGood DEF UploadInv
    <2>2. ASSUME rows[i] # NoRow
          PROVE  remote'[rows[i].prov][rows[i].chunk] # "never"
      <3>1. rows[i].prov \in Provider /\ rows[i].chunk \in Chunk
        BY <2>2 DEF UploadInv, TypeOK, RegisterTypeOK, Snapshot, Row
      <3> QED
        BY <2>1, <2>2, <3>1 DEF RowsWereUploaded, Ids, NeverAgainNever
    <2>3. ASSUME rows[i] # NoRow, NEW s \in State, rows'[i] = [rows[i] EXCEPT !.state = s]
          PROVE  rows'[i].prov = rows[i].prov /\ rows'[i].chunk = rows[i].chunk
      BY <2>3 DEF UploadInv, TypeOK, RegisterTypeOK, Snapshot, Row
    <2>4. ASSUME NEW c, NEW p, NEW s, remote'[p][c] # "never",
                 rows'[i] = [chunk |-> c, prov |-> p, state |-> s]
          PROVE  remote'[rows'[i].prov][rows'[i].chunk] # "never"
      BY <2>4
    <2>5. CASE rows'[i] = rows[i]
      BY <2>2, <2>5
    <2>6. CASE rows[i] # NoRow /\ \E s \in State : rows'[i] = [rows[i] EXCEPT !.state = s]
      BY <2>2, <2>3, <2>6
    <2> QED
      BY <2>1, <2>4, <2>5, <2>6 DEF RowChange, Ids
  <1> QED
    BY <1>1, <1>2, UploadInvHolds, PTL DEF Spec

\* _REPLICA_TRANSITIONS is obeyed across id reuse, races and repair: a lost
\* row stays lost until it is deleted.
THEOREM LostStaysLost == Spec => LostIsFinal
  <1>1. UploadInv /\ [Next]_vars =>
           \A i \in RowId : i \in Ids(rows) /\ rows[i].state = "lost"
                               => rows'[i] = NoRow \/ rows'[i].state = "lost"
    <2> SUFFICES ASSUME UploadInv, [Next]_vars,
                        NEW i \in RowId, i \in Ids(rows), rows[i].state = "lost"
                 PROVE  rows'[i] = NoRow \/ rows'[i].state = "lost"
      OBVIOUS
    <2>1. RowChange(i)
      BY RowsChangeLegally
    <2>2. ASSUME NEW s \in State, s = rows[i].state \/ s \in Transitions[rows[i].state],
                 rows'[i] = [rows[i] EXCEPT !.state = s]
          PROVE  rows'[i].state = "lost"
      BY <2>2 DEF Transitions, UploadInv, TypeOK, RegisterTypeOK, Snapshot, Row, Ids
    <2> QED
      BY <2>1, <2>2 DEF RowChange
  <1> QED
    BY <1>1, UploadInvHolds, PTL DEF Spec, LostIsFinal

\* The only step that adds a file to the register is the commit of its
\* upload.
LEMMA OnlyCommitAddsFiles ==
    ASSUME [Next]_vars
    PROVE  \/ files' \subseteq files
           \/ \E w \in Worker, n \in 1..MaxRows + 1 :
                 LET placed == {<<o[2], o[1]>> : o \in Uploaded(w)}
                 IN  /\ job[w].op = "put" /\ job[w].left = {}
                     /\ CanInsert(job[w].file, placed)
                     /\ IsNextId(n)
                     /\ InsertFileWithManifest(job[w].file, n, placed)
  <1>1. CASE UNCHANGED files
    BY <1>1
  <1>2. ASSUME NEW w \in Worker, Scrub(w)
        PROVE  UNCHANGED files
    BY <1>2 DEF Scrub, StartScrub, ScanStep, ProbeFound, ProbeMissed, DeepVerified,
                DeepCorrupt, DeepFailed, EndScan, Observe, RepairStep, RepairChunk,
                FetchMissed, FetchHit, FetchExhausted, UploadLands, Retire, UploadRaises,
                EndUpload, EndRepair, regVars
  <1>3. ASSUME NEW w \in Worker, PutStep(w), ~CommitPut(w)
        PROVE  UNCHANGED files
    BY <1>3 DEF PutStep, StartPut, PutLands, PutFails, CleanupOne, EndCleanup, regVars
  <1>4. ASSUME NEW w \in Worker, RemoveStep(w)
        PROVE  files' \subseteq files
    BY <1>4 DEF RemoveStep, StartRemove, RemoveOne, EndRemove, DeleteFile, regVars
  <1>5. ASSUME NEW r \in Reader, GetStep(r)
        PROVE  UNCHANGED files
    BY <1>5 DEF GetStep, StartGet, GetHit, GetMissed, GetExhausted, TryEnds, regVars
  <1>6. CASE Environment
    BY <1>6 DEF Environment, RemoveProvider, DeleteProvider, StrayPut, regVars
  <1>7. ASSUME NEW w \in Worker, Crash(w)
        PROVE  UNCHANGED files
    BY <1>7 DEF Crash, regVars
  <1>8. ASSUME NEW w \in Worker, CommitPut(w), ~(files' \subseteq files)
        PROVE  \E n \in 1..MaxRows + 1 :
                 LET placed == {<<o[2], o[1]>> : o \in Uploaded(w)}
                 IN  /\ job[w].op = "put" /\ job[w].left = {}
                     /\ CanInsert(job[w].file, placed)
                     /\ IsNextId(n)
                     /\ InsertFileWithManifest(job[w].file, n, placed)
    BY <1>8 DEF CommitPut, regVars
  <1>9. CASE UNCHANGED vars
    BY <1>9 DEF vars, regVars
  <1> QED
    BY <1>2, <1>3, <1>4, <1>5, <1>6, <1>7, <1>8, <1>9 DEF Next

\* However many uploads to a path have passed put_file's first check, at most
\* one file is registered under it.
THEOREM PathsStayUnique == Spec => []OneFilePerPath
  <1>1. Init => OneFilePerPath
    BY DEF Init, RegisterInit, OneFilePerPath
  <1>2. OneFilePerPath /\ [Next]_vars => OneFilePerPath'
    <2> SUFFICES ASSUME OneFilePerPath, [Next]_vars
                 PROVE  OneFilePerPath'
      OBVIOUS
    <2>1. CASE files' \subseteq files
      BY <2>1 DEF OneFilePerPath
    <2>2. ASSUME NEW f, ~VPathTaken(f), files' = files \cup {f}
          PROVE  OneFilePerPath'
      BY <2>2 DEF OneFilePerPath, VPathTaken
    <2> QED
      BY <2>1, <2>2, OnlyCommitAddsFiles DEF CanInsert, InsertFileWithManifest
  <1> QED
    BY <1>1, <1>2, PTL DEF Spec

\* insert_file_with_manifest records every place of the plan.
LEMMA PlanIsRecorded ==
    ASSUME TypeOK, NEW w \in Worker, NEW n \in 1..MaxRows + 1, job[w].op = "put",
           job[w].left = {}, IsNextId(n),
           LET placed == {<<o[2], o[1]>> : o \in Uploaded(w)}
           IN  /\ CanInsert(job[w].file, placed)
               /\ InsertFileWithManifest(job[w].file, n, placed),
           NEW c \in ChunksOf(job[w].file), NEW p \in job[w].plan[GroupOf(c)]
    PROVE  \E i \in Ids(rows)' : rows'[i] = [chunk |-> c, prov |-> p, state |-> "stored"]
  <1> DEFINE placed == {<<o[2], o[1]>> : o \in Uploaded(w)}
             num == Numbering(n, placed)
             last == n + Cardinality(placed) - 1
  <1>1. c \in Chunk /\ FileOf[c] = job[w].file /\ p \in Provider
    <2>1. job[w] \in PutState
      BY JobStates DEF TypeOK
    <2> QED
      BY <2>1, GroupOfType DEF PutState, ChunksOf
  <1>2. placed \in SUBSET (Chunk \X Provider) /\ IsFiniteSet(placed)
    <2>1. placed \in SUBSET (Chunk \X Provider)
      BY UploadedType
    <2> QED
      BY <2>1, ManifestAssumption, FS_Product, FS_Subset
  <1>3. <<c, p>> \in placed
    <2>1. <<p, c>> \in Uploaded(w)
      BY <1>1 DEF Uploaded
    <2>2. PICK o \in Uploaded(w) : o = <<p, c>>
      BY <2>1
    <2>3. o[1] = p /\ o[2] = c
      BY <2>2
    <2> QED
      BY <2>3
  <1>4. num \in [n..last -> placed] /\ \A o \in placed : \E i \in n..last : num[i] = o
    <2>1. num \in Bijection(n..last, placed)
      BY <1>2, NumberingIsBijection
    <2> HIDE DEF num
    <2> QED
      BY <2>1 DEF Bijection, Injection, Surjection
  <1>5. n..last \subseteq RowId
    <2>1. Cardinality(placed) \in Nat
      BY <1>2, FS_CardinalityType
    <2>2. n + Cardinality(placed) <= MaxRows + 1
      BY <2>1, ManifestAssumption DEF CanInsert, HasRoom, IsNextId, RowId
    <2> HIDE DEF placed
    <2> QED
      BY <2>1, <2>2, ManifestAssumption DEF RowId
  <1>6. rows' = [i \in RowId |->
                    IF i \in DOMAIN num
                    THEN [chunk |-> num[i][1], prov |-> num[i][2], state |-> "stored"]
                    ELSE rows[i]]
    BY DEF InsertFileWithManifest
  <1> HIDE DEF num, placed, last
  <1>7. PICK i \in n..last : num[i] = <<c, p>>
    BY <1>3, <1>4
  <1>8. i \in RowId /\ rows'[i] = [chunk |-> c, prov |-> p, state |-> "stored"]
    BY <1>4, <1>5, <1>6, <1>7
  <1>9. [chunk |-> c, prov |-> p, state |-> "stored"] # NoRow
    BY <1>1, ManifestAssumption DEF Row, State
  <1> QED
    BY <1>8, <1>9 DEF Ids

\* insert_file_with_manifest records, for every chunk of the new file, as
\* many stored copies on different providers as its floor asks for.
THEOREM FilesAreBornAtFloor == Spec => BornAtFloor
  <1> DEFINE Homes(c) == {p \in Provider : \E i \in Ids(rows') :
                             rows'[i] = [chunk |-> c, prov |-> p, state |-> "stored"]}
  <1>1. ASSUME UploadInv, [Next]_vars, NEW f \in files' \ files, NEW c \in ChunksOf(f)
        PROVE  Cardinality(Homes(c)) >= ReplicaTarget
    <2>1. PICK w \in Worker, n \in 1..MaxRows + 1 :
             LET placed == {<<o[2], o[1]>> : o \in Uploaded(w)}
             IN  /\ job[w].op = "put" /\ job[w].left = {}
                 /\ CanInsert(job[w].file, placed)
                 /\ IsNextId(n)
                 /\ InsertFileWithManifest(job[w].file, n, placed)
      BY <1>1, OnlyCommitAddsFiles, Zenon
    <2> DEFINE homes == job[w].plan[GroupOf(c)]
    <2>2. job[w].file = f /\ c \in ChunksOf(job[w].file)
      BY <1>1, <2>1 DEF InsertFileWithManifest
    <2>3. homes \in SUBSET Provider /\ Cardinality(homes) >= ReplicaTarget
      <3>1. job[w] \in PutState
        BY <1>1, <2>1, JobStates DEF UploadInv, TypeOK
      <3> QED
        BY <1>1, <2>1, <2>2, <3>1, GroupOfType DEF UploadInv, PutProgress, PutState, ChunksOf
    <2>4. \A p \in homes : \E i \in Ids(rows)' :
             rows'[i] = [chunk |-> c, prov |-> p, state |-> "stored"]
      BY <1>1, <2>1, <2>2, PlanIsRecorded DEF UploadInv
    <2> HIDE DEF homes
    <2>5. /\ IsFiniteSet(Homes(c)) /\ homes \subseteq Homes(c)
          /\ Cardinality(Homes(c)) \in Nat /\ Cardinality(homes) \in Nat
          /\ Cardinality(homes) <= Cardinality(Homes(c))
      <3>1. IsFiniteSet(Homes(c))
        BY ManifestAssumption, FS_Subset
      <3>2. homes \subseteq Homes(c)
        BY <2>3, <2>4 DEF Ids
      <3> HIDE DEF Homes
      <3> QED
        BY <3>1, <3>2, FS_Subset, FS_CardinalityType
    <2> QED
      BY <2>3, <2>5, ManifestAssumption
  <1>2. UploadInv /\ [Next]_vars =>
           \A f \in files' \ files : \A c \in ChunksOf(f) :
              LET homes == {p \in Provider : \E i \in Ids(rows') :
                               rows'[i] = [chunk |-> c, prov |-> p, state |-> "stored"]}
              IN  Cardinality(homes) >= ReplicaTarget
    BY <1>1
  <1> QED
    BY <1>2, UploadInvHolds, PTL DEF Spec, BornAtFloor

----------------------------------------------------------------------------
(* One worker.                                                             *)

OneWorker == \A v, w \in Worker : v = w

\* The foreign key of a row.
Filed == \A i \in Ids(rows) : FileOf[rows[i].chunk] \in files

\* The plan of an upload keeps to the cap.
Capped(plan) ==
    MinSpread > 1 =>
        \A p \in Provider : Cardinality({g \in Group : p \in plan[g]}) <= SpreadCap

\* Every live row of the chunk in repair is one that was fetched.
FetchBooks(s) ==
    \A i \in NonLost(rows) : rows[i].chunk = s.chunk =>
        i \in NonLost(s.seen) /\ s.seen[i].chunk = s.chunk /\ s.seen[i].prov = rows[i].prov

\* A provider that is to get a copy has no live row of the chunk but those that
\* were seen suspect, and may hold the group of the chunk.
HasGroupRoom(c, p) ==
    MinSpread > 1 => Cardinality(GroupsHeld(rows, FileOf[c], p) \cup {GroupOf(c)}) <= SpreadCap
UploadBooks(s) ==
    \A p \in s.targets :
        /\ \A i \in NonLost(rows) : rows[i].chunk = s.chunk /\ rows[i].prov = p =>
              i \in InState(s.seen, s.chunk, "suspect") /\ s.seen[i].prov = p
        /\ HasGroupRoom(s.chunk, p)

JobBooks ==
    \A w \in Worker :
        /\ job[w].op = "put" => Capped(job[w].plan)
        /\ job[w].op = "fetch" => FetchBooks(job[w])
        /\ job[w].op = "upload" => UploadBooks(job[w])

RepairInv == UploadInv /\ Filed /\ JobBooks /\ SpreadCapHeld

(* With no download beside it.                                             *)
Quiet == OneWorker /\ Reader = {}

\* A row that a scan has still to look at is as it was fetched, or gone; one
\* that repair has seen suspect, or is about to retire, has not been cleared
\* since.
ScanBooks ==
    \A w \in Worker :
        /\ job[w].op = "scan" =>
              \A i \in job[w].todo : rows[i] \in {job[w].seen[i], NoRow}
        /\ job[w].op \in {"fetch", "upload"} =>
              \A i \in InState(job[w].seen, job[w].chunk, "suspect") :
                 job[w].seen[i].prov \in provs =>
                    /\ rows[i] # NoRow /\ rows[i].prov = job[w].seen[i].prov
                    /\ rows[i].state \in {"suspect", "lost"}
        /\ job[w].op = "upload" =>
              \A i \in job[w].stale :
                 rows[i] # NoRow => rows[i].state \in {"suspect", "lost"}
ScanInv == UploadInv /\ ScanBooks

\* With no removal of a provider either: what repair has fetched is what there
\* is, and the copies still to come make up what is missing.
AccountBooks(w) ==
    /\ job[w].op = "fetch" => job[w].seen = RowsOf(job[w].chunk)
    /\ job[w].op = "upload" =>
          \/ job[w].chunk \in job[w].report
          \/ Live(job[w].chunk) + Cardinality(job[w].targets) >= ReplicaTarget
Listed(w) ==
    job[w].op \in {"repair", "fetch", "upload"} =>
        ChunksBelowFloor \subseteq
            job[w].work \cup job[w].report
                \cup (IF job[w].op = "repair" THEN {} ELSE {job[w].chunk})
AccountInv == ScanInv /\ \A w \in Worker : AccountBooks(w) /\ Listed(w)

----------------------------------------------------------------------------
(* Rows: a step lets them age, or records one copy or one file.            *)

\* A row that is there was there before, and is lost if it was.
Older(i) ==
    \/ rows'[i] = NoRow
    \/ /\ rows[i] # NoRow
       /\ rows'[i].chunk = rows[i].chunk /\ rows'[i].prov = rows[i].prov
       /\ rows[i].state = "lost" => rows'[i].state = "lost"

NoneFilled == \A i \in RowId : rows[i] = NoRow => rows'[i] = NoRow

CopyRecorded(w, p, n) ==
    /\ job[w].op = "upload" /\ job[w].stale = {} /\ p \in job[w].targets
    /\ CanAddReplica(job[w].chunk, p)
    /\ IsNextId(n)
    /\ rows' = [rows EXCEPT ![n] = [chunk |-> job[w].chunk, prov |-> p, state |-> "stored"]]
    /\ Become(w, [job[w] EXCEPT !.targets = @ \ {p}, !.stale = Superseded(w, p)])
    /\ UNCHANGED <<files, provs>>

FileRecorded(w, n) ==
    LET placed == {<<o[2], o[1]>> : o \in Uploaded(w)}
    IN  /\ job[w].op = "put" /\ job[w].left = {}
        /\ CanInsert(job[w].file, placed)
        /\ IsNextId(n)
        /\ InsertFileWithManifest(job[w].file, n, placed)
        /\ Become(w, Idle)

\* Setting a state fills no id.
LEMMA SetStateFillsNone ==
    ASSUME TypeOK, NEW i \in RowId, NEW s, UNCHANGED rows \/ (CanSet(i, s) /\ SetReplicaState(i, s))
    PROVE  NoneFilled
    BY DEF TypeOK, RegisterTypeOK, Snapshot, CanSet, SetReplicaState, NoneFilled

\* Every step fills no id, or records a copy, or a file.
LEMMA RowSteps ==
    ASSUME UploadInv, [Next]_vars
    PROVE  \/ NoneFilled /\ (UNCHANGED files \/ \E f \in File : DeleteFile(f))
           \/ \E w \in Worker, p \in Provider, n \in RowId : CopyRecorded(w, p, n)
           \/ \E w \in Worker, n \in 1..MaxRows + 1 : FileRecorded(w, n)
  <1> DEFINE Ages == NoneFilled /\ UNCHANGED files
  <1>0. TypeOK
    BY DEF UploadInv
  <1>1. CASE UNCHANGED regVars
    BY <1>1 DEF regVars, NoneFilled
  <1>2. ASSUME NEW w \in Worker, Scrub(w)
        PROVE  Ages \/ \E p \in Provider, n \in RowId : CopyRecorded(w, p, n)
    <2>1. CASE \E deep, repair \in BOOLEAN, batch \in SUBSET NonLost(rows) :
                  StartScrub(w, deep, repair, batch)
      BY <2>1 DEF StartScrub, regVars, NoneFilled
    <2>2. CASE ScanStep(w)
      <3>1. ASSUME NEW i \in RowId, NEW s, Observe(w, i, s)
            PROVE  Ages
        BY <1>0, <3>1, SetStateFillsNone DEF Observe
      <3>2. CASE UNCHANGED regVars
        BY <3>2 DEF regVars, NoneFilled
      <3> QED
        BY <2>2, <3>1, <3>2 DEF ScanStep, ProbeFound, ProbeMissed, DeepVerified, DeepCorrupt,
                                DeepFailed, EndScan
    <2>3. ASSUME NEW p \in Provider, UploadLands(w, p)
          PROVE  Ages \/ \E n \in RowId : CopyRecorded(w, p, n)
      <3>1. CASE UNCHANGED rows
        BY <2>3, <3>1 DEF UploadLands, NoneFilled
      <3>2. CASE ~ UNCHANGED rows
        BY <2>3, <3>2 DEF UploadLands, AddReplica, CopyRecorded
      <3> QED
        BY <3>1, <3>2
    <2>4. CASE RepairStep(w)
      <3>1. CASE UNCHANGED regVars
        BY <3>1 DEF regVars, NoneFilled
      <3>2. ASSUME NEW i \in RowId, Retire(w, i)
            PROVE  Ages
        BY <1>0, <3>2, SetStateFillsNone DEF Retire
      <3> QED
        BY <2>3, <2>4, <3>1, <3>2 DEF RepairStep, RepairChunk, FetchMissed, FetchHit,
                                FetchExhausted, UploadRaises, EndUpload, EndRepair
    <2> QED
      BY <1>2, <2>1, <2>2, <2>4 DEF Scrub
  <1>3. ASSUME NEW w \in Worker, PutStep(w)
        PROVE  Ages \/ \E n \in 1..MaxRows + 1 : FileRecorded(w, n)
    <2>1. CASE UNCHANGED regVars
      BY <2>1 DEF regVars, NoneFilled
    <2>2. CASE CommitPut(w) /\ ~ UNCHANGED regVars
      BY <2>2 DEF CommitPut, FileRecorded
    <2> QED
      BY <1>3, <2>1, <2>2 DEF PutStep, StartPut, PutLands, PutFails, CleanupOne, EndCleanup
  <1>4. ASSUME NEW w \in Worker, RemoveStep(w)
        PROVE  NoneFilled /\ (UNCHANGED files \/ \E f \in File : DeleteFile(f))
    <2>1. CASE UNCHANGED regVars
      BY <2>1 DEF regVars, NoneFilled
    <2>2. CASE EndRemove(w)
      <3>1. job[w].file \in File
        BY <1>0, <2>2, JobStates DEF EndRemove, TypeOK, RemoveState
      <3>2. NoneFilled
        BY <2>2 DEF EndRemove, DeleteFile, NoneFilled
      <3> QED
        BY <2>2, <3>1, <3>2 DEF EndRemove
    <2> QED
      BY <1>4, <2>1, <2>2 DEF RemoveStep, StartRemove, RemoveOne
  <1>5. ASSUME NEW w \in Worker, Crash(w)
        PROVE  UNCHANGED regVars
    BY <1>5 DEF Crash
  <1>6. ASSUME NEW r \in Reader, GetStep(r)
        PROVE  Ages
    <2>1. ASSUME NEW i \in RowId, NEW s, TryEnds(r, i, s)
          PROVE  Ages
      BY <1>0, <2>1, SetStateFillsNone DEF TryEnds
    <2>2. CASE UNCHANGED regVars
      BY <2>2 DEF regVars, NoneFilled
    <2> QED
      BY <1>6, <2>1, <2>2 DEF GetStep, StartGet, GetHit, GetMissed, GetExhausted
  <1>7. CASE Environment
    <2>1. ASSUME NEW p \in Provider, RemoveProvider(p)
          PROVE  Ages
      BY <2>1 DEF RemoveProvider, DeleteProvider, NoneFilled
    <2>2. CASE UNCHANGED regVars
      BY <2>2 DEF regVars, NoneFilled
    <2> QED
      BY <1>7, <2>1, <2>2 DEF Environment, StrayPut
  <1>8. CASE UNCHANGED vars
    BY <1>1, <1>8 DEF vars
  <1> QED
    BY <1>1, <1>2, <1>3, <1>4, <1>5, <1>6, <1>7, <1>8 DEF Next

\* A row whose id was not filled just now has aged.
LEMMA RowsAge ==
    ASSUME UploadInv, [Next]_vars, NEW i \in RowId, rows[i] = NoRow => rows'[i] = NoRow
    PROVE  Older(i)
  <1>1. RowChange(i)
    BY RowsChangeLegally
  <1>2. CASE rows[i] = NoRow
    BY <1>2 DEF Older
  <1>3. CASE rows[i] # NoRow
    <2>1. rows[i] \in Row
      BY <1>3 DEF UploadInv, TypeOK, RegisterTypeOK, Snapshot
    <2>2. ASSUME NEW s \in State, s = rows[i].state \/ s \in Transitions[rows[i].state],
                 rows'[i] = [rows[i] EXCEPT !.state = s]
          PROVE  Older(i)
      <3>1. rows'[i].chunk = rows[i].chunk /\ rows'[i].prov = rows[i].prov /\ rows'[i].state = s
        BY <2>1, <2>2 DEF Row
      <3>2. rows[i].state = "lost" => s = "lost"
        BY <2>2 DEF Transitions
      <3> QED
        BY <1>3, <3>1, <3>2 DEF Older
    <2> QED
      BY <1>1, <1>3, <2>2 DEF RowChange, Older, Ids
  <1> QED
    BY <1>2, <1>3

----------------------------------------------------------------------------
(* Jobs: what a process knows after a step it knew before, or has just     *)
(* read or chosen.                                                         *)

SameChunk(w) == job'[w].chunk = job[w].chunk /\ job'[w].seen = job[w].seen

JobKept(w) ==
    /\ job'[w].op = "put" =>
          \/ job[w].op = "put" /\ job'[w].plan = job[w].plan
          \/ Capped(job'[w].plan)
    /\ job'[w].op = "fetch" =>
          \/ job[w].op = "fetch" /\ SameChunk(w)
          \/ rows' = rows /\ job'[w].seen = RowsOf(job'[w].chunk)
    /\ job'[w].op = "upload" =>
          \/ job[w].op = "upload" /\ SameChunk(w) /\ job'[w].targets \subseteq job[w].targets
          \/ /\ job[w].op = "fetch" /\ SameChunk(w) /\ rows' = rows
             /\ job'[w].targets \cap (Existing(w) \cup Barred(w)) = {}

\* One process moves, the others stay.
LEMMA BecomeOne ==
    ASSUME TypeOK, NEW w \in Worker, NEW s, Become(w, s)
    PROVE  job'[w] = s /\ \A v \in Worker : v # w => job'[v] = job[v]
    BY DEF TypeOK, Become

\* A plan of put_file keeps to the cap: nobody else is in a group of it.
LEMMA PlansAreCapped ==
    ASSUME NEW usable \in SUBSET Provider, NEW plan \in Plans(usable)
    PROVE  Capped(plan)
  <1> SUFFICES ASSUME MinSpread > 1, NEW p \in Provider
               PROVE  Cardinality({g \in Group : p \in plan[g]}) <= SpreadCap
    BY DEF Capped
  <1>1. CASE p \in usable
    BY <1>1 DEF Plans
  <1>2. CASE p \notin usable
    <2>1. \A g \in Group : plan[g] \subseteq usable
      BY DEF Plans, Selections
    <2>2. {g \in Group : p \in plan[g]} = {}
      BY <1>2, <2>1
    <2> QED
      BY <2>2, FS_EmptySet, ManifestAssumption
  <1> QED
    BY <1>1, <1>2

LEMMA RepairJobKept ==
    ASSUME TypeOK, NEW w \in Worker, RepairStep(w)
    PROVE  JobKept(w)
  <1>1. ASSUME NEW s, Become(w, s), s.op \notin {"put", "fetch", "upload"}
        PROVE  JobKept(w)
    <2>1. job'[w] = s
      BY <1>1, BecomeOne
    <2> QED
      BY <1>1, <2>1 DEF JobKept
  <1>2. ASSUME NEW failed, NextChunk(w, failed)
        PROVE  JobKept(w)
    BY <1>1, <1>2 DEF NextChunk
  <1>3. ASSUME NEW c \in Chunk, RepairChunk(w, c)
        PROVE  JobKept(w)
    <2> DEFINE s == [op |-> "fetch", handles |-> job[w].handles,
                     work |-> job[w].work \ {c}, report |-> job[w].report,
                     chunk |-> c, seen |-> RowsOf(c), todo |-> NonLost(RowsOf(c))]
    <2>1. Become(w, s) /\ rows' = rows
      BY <1>3 DEF RepairChunk, regVars
    <2>2. job'[w] = s
      BY <2>1, BecomeOne
    <2>3. s.op = "fetch" /\ s.seen = RowsOf(s.chunk)
      OBVIOUS
    <2> HIDE DEF s
    <2> QED
      BY <2>1, <2>2, <2>3 DEF JobKept
  <1>4. ASSUME NEW i \in RowId, FetchMissed(w, i)
        PROVE  JobKept(w)
    <2>1. job[w] \in FetchState /\ job[w].op = "fetch"
      BY <1>4, JobStates DEF FetchMissed, TypeOK
    <2>2. job'[w] = [job[w] EXCEPT !.todo = @ \ {i}]
      BY <1>4, BecomeOne DEF FetchMissed
    <2>3. job'[w].op = "fetch" /\ SameChunk(w)
      BY <2>1, <2>2 DEF FetchState, SameChunk
    <2> QED
      BY <2>1, <2>3 DEF JobKept
  <1>5. ASSUME NEW i \in RowId, FetchHit(w, i)
        PROVE  JobKept(w)
    <2>1. ASSUME NEW T, T \cap (Existing(w) \cup Barred(w)) = {},
                 Become(w, [op |-> "upload", handles |-> job[w].handles,
                            work |-> job[w].work, report |-> job[w].report,
                            chunk |-> job[w].chunk, seen |-> job[w].seen,
                            targets |-> T, stale |-> {}])
          PROVE  JobKept(w)
      <3> DEFINE s == [op |-> "upload", handles |-> job[w].handles,
                       work |-> job[w].work, report |-> job[w].report,
                       chunk |-> job[w].chunk, seen |-> job[w].seen, targets |-> T, stale |-> {}]
      <3>1. job'[w] = s
        BY <2>1, BecomeOne
      <3>2. s.op = "upload" /\ s.chunk = job[w].chunk /\ s.seen = job[w].seen /\ s.targets = T
        OBVIOUS
      <3>3. job[w].op = "fetch" /\ rows' = rows
        BY <1>5 DEF FetchHit, regVars
      <3> HIDE DEF s
      <3> QED
        BY <2>1, <3>1, <3>2, <3>3 DEF JobKept, SameChunk
    <2> DEFINE have == Cardinality(InState(job[w].seen, job[w].chunk, "stored"))
    <2>2. PICK usable \in Usable(job[w].handles \ (Existing(w) \cup Barred(w))) :
             LET fits == {T \in Selections(usable, have) : HasRoom(Cardinality(T))}
             IN  \/ \E T \in fits :
                       Become(w, [op |-> "upload", handles |-> job[w].handles,
                                  work |-> job[w].work, report |-> job[w].report,
                                  chunk |-> job[w].chunk, seen |-> job[w].seen,
                                  targets |-> T, stale |-> {}])
                 \/ fits = {} /\ NextChunk(w, TRUE)
      BY <1>5 DEF FetchHit
    <2>3. \A T \in Selections(usable, have) : T \cap (Existing(w) \cup Barred(w)) = {}
      BY DEF Selections, Usable
    <2> HIDE DEF have
    <2> QED
      BY <1>2, <2>1, <2>2, <2>3
  <1>6. ASSUME NEW p \in Provider, UploadLands(w, p) \/ UploadRaises(w, p)
        PROVE  JobKept(w)
    <2>1. job[w] \in UploadState /\ job[w].op = "upload"
      BY <1>6, JobStates DEF UploadLands, UploadRaises, TypeOK
    <2>2. CASE Become(w, Failed)
      BY <1>1, <2>2 DEF Failed
    <2>3. CASE Become(w, [job[w] EXCEPT !.targets = @ \ {p}, !.stale = Superseded(w, p)])
      <3> DEFINE s == [job[w] EXCEPT !.targets = @ \ {p}, !.stale = Superseded(w, p)]
      <3>1. s.chunk = job[w].chunk /\ s.seen = job[w].seen /\ s.targets \subseteq job[w].targets
            /\ s.op = "upload"
        BY <2>1 DEF UploadState
      <3>2. Become(w, s)
        BY <2>3
      <3> HIDE DEF s
      <3>3. job'[w] = s
        BY <3>2, BecomeOne
      <3> QED
        BY <2>1, <3>1, <3>3 DEF JobKept, SameChunk
    <2>4. CASE UploadRaises(w, p)
      <3> DEFINE s == [job[w] EXCEPT !.targets = @ \ {p}, !.report = @ \cup {job[w].chunk}]
      <3>1. s.chunk = job[w].chunk /\ s.seen = job[w].seen /\ s.targets \subseteq job[w].targets
            /\ s.op = "upload"
        BY <2>1 DEF UploadState
      <3>2. Become(w, s)
        BY <2>4 DEF UploadRaises
      <3> HIDE DEF s
      <3>3. job'[w] = s
        BY <3>2, BecomeOne
      <3> QED
        BY <2>1, <3>1, <3>3 DEF JobKept, SameChunk
    <2> QED
      BY <1>6, <2>2, <2>3, <2>4 DEF UploadLands
  <1>7. CASE FetchExhausted(w) \/ EndUpload(w)
    BY <1>2, <1>7 DEF FetchExhausted, EndUpload
  <1>8. CASE EndRepair(w)
    BY <1>1, <1>8 DEF EndRepair, Idle
  <1>9. ASSUME NEW i \in RowId, Retire(w, i)
        PROVE  JobKept(w)
    <2>1. job[w] \in UploadState /\ job[w].op = "upload"
      BY <1>9, JobStates DEF Retire, TypeOK
    <2>2. CASE Become(w, Failed)
      BY <1>1, <2>2 DEF Failed
    <2>3. CASE Become(w, [job[w] EXCEPT !.stale = @ \ {i}])
      <3> DEFINE s == [job[w] EXCEPT !.stale = @ \ {i}]
      <3>1. s.chunk = job[w].chunk /\ s.seen = job[w].seen /\ s.targets = job[w].targets
            /\ s.op = "upload"
        BY <2>1 DEF UploadState
      <3>2. Become(w, s)
        BY <2>3
      <3> HIDE DEF s
      <3>3. job'[w] = s
        BY <3>2, BecomeOne
      <3> QED
        BY <2>1, <3>1, <3>3 DEF JobKept, SameChunk
    <2> QED
      BY <1>9, <2>2, <2>3 DEF Retire
  <1> QED
    BY <1>3, <1>4, <1>5, <1>6, <1>7, <1>8, <1>9 DEF RepairStep

LEMMA JobsKept ==
    ASSUME UploadInv, [Next]_vars, NEW w \in Worker
    PROVE  JobKept(w)
  <1>0. TypeOK
    BY DEF UploadInv
  <1>1. CASE job'[w] = job[w]
    BY <1>1 DEF JobKept, SameChunk
  <1>2. ASSUME NEW s, Become(w, s), s.op \notin {"put", "fetch", "upload"}
        PROVE  JobKept(w)
    <2>1. job'[w] = s
      BY <1>0, <1>2, BecomeOne
    <2> QED
      BY <1>2, <2>1 DEF JobKept
  <1>3. ASSUME NEW v \in Worker, v # w, NEW s, Become(v, s)
        PROVE  JobKept(w)
    BY <1>0, <1>1, <1>3, BecomeOne
  <1>4. ASSUME NEW v \in Worker, Scrub(v)
        PROVE  JobKept(w)
    <2>1. CASE \E deep, repair \in BOOLEAN, batch \in SUBSET NonLost(rows) :
                  StartScrub(v, deep, repair, batch)
      BY <1>2, <1>3, <2>1 DEF StartScrub
    <2>2. CASE ScanStep(v)
      <3>1. ASSUME NEW i \in RowId, Scanning(v, i),
                   RowDone(v, i) \/ \E s \in State : Observe(v, i, s)
            PROVE  JobKept(w)
        <4>1. job[v] \in ScanState
          BY <1>0, <3>1, JobStates DEF Scanning, TypeOK
        <4>2. [job[v] EXCEPT !.todo = @ \ {i}].op = "scan" /\ Failed.op = "failed"
          BY <4>1 DEF ScanState, Failed
        <4>3. Become(v, [job[v] EXCEPT !.todo = @ \ {i}]) \/ Become(v, Failed)
          BY <3>1 DEF RowDone, Observe
        <4> QED
          BY <1>2, <1>3, <4>2, <4>3
      <3>2. \A st : Demotion(st) \in State
        BY DEF Demotion, State
      <3>3. CASE EndScan(v)
        BY <1>2, <1>3, <3>3 DEF EndScan, Idle
      <3>4. ASSUME NEW i \in RowId,
                   \/ ProbeFound(v, i) \/ ProbeMissed(v, i) \/ DeepVerified(v, i)
                   \/ DeepCorrupt(v, i) \/ DeepFailed(v, i)
            PROVE  Scanning(v, i) /\ (RowDone(v, i) \/ \E s \in State : Observe(v, i, s))
        BY <3>2, <3>4 DEF ProbeFound, ProbeMissed, DeepVerified, DeepCorrupt, DeepFailed, State
      <3> QED
        BY <2>2, <3>1, <3>3, <3>4 DEF ScanStep
    <2>3. CASE RepairStep(v) /\ v = w
      BY <1>0, <2>3, RepairJobKept
    <2>4. CASE RepairStep(v) /\ v # w
      BY <1>3, <2>4 DEF RepairStep, RepairChunk, FetchMissed, FetchHit, FetchExhausted, NextChunk,
                        UploadLands, Retire, UploadRaises, EndUpload, EndRepair
    <2> QED
      BY <1>4, <2>1, <2>2, <2>3, <2>4 DEF Scrub
  <1>5. ASSUME NEW v \in Worker, PutStep(v)
        PROVE  JobKept(w)
    <2>1. ASSUME NEW f \in File, StartPut(v, f)
          PROVE  JobKept(w)
      <3>1. PICK usable \in Usable(provs) : \E plan \in Plans(usable) :
               Become(v, [op |-> "put", file |-> f, plan |-> plan,
                          left |-> ChunksOf(f), landed |-> {}])
        BY <2>1 DEF StartPut
      <3>2. PICK plan \in Plans(usable) :
               Become(v, [op |-> "put", file |-> f, plan |-> plan,
                          left |-> ChunksOf(f), landed |-> {}])
        BY <3>1
      <3>3. CASE v # w
        BY <1>3, <3>2, <3>3
      <3>4. CASE v = w
        <4>1. usable \in SUBSET Provider
          BY <1>0, <3>1 DEF Usable, TypeOK, RegisterTypeOK
        <4>2. Capped(plan)
          BY <4>1, PlansAreCapped
        <4>3. job'[w].op = "put" /\ job'[w].plan = plan
          BY <1>0, <3>2, <3>4, BecomeOne
        <4> QED
          BY <4>2, <4>3 DEF JobKept
      <3> QED
        BY <3>3, <3>4
    <2>2. ASSUME NEW c \in Chunk, NEW p \in Provider, PutLands(v, c, p)
          PROVE  JobKept(w)
      <3>1. job[v] \in PutState /\ job[v].op = "put"
        BY <1>0, <2>2, JobStates DEF PutLands, Putting, TypeOK
      <3>2. PICK s : /\ Become(v, s)
                     /\ \/ s = [job[v] EXCEPT !.left = @ \ {c}, !.landed = {}]
                        \/ s = [job[v] EXCEPT !.landed = @ \cup {p}]
        BY <2>2 DEF PutLands
      <3>3. s.op = "put" /\ s.plan = job[v].plan
        BY <3>1, <3>2 DEF PutState
      <3>4. CASE v # w
        BY <1>3, <3>2, <3>4
      <3>5. CASE v = w
        <4>1. job'[w] = s
          BY <1>0, <3>2, <3>5, BecomeOne
        <4> QED
          BY <3>1, <3>3, <3>5, <4>1 DEF JobKept
      <3> QED
        BY <3>4, <3>5
    <2>3. ASSUME NEW c \in Chunk, NEW p \in Provider, PutFails(v, c, p)
          PROVE  JobKept(w)
      BY <1>2, <1>3, <2>3 DEF PutFails
    <2>4. ASSUME NEW c \in Chunk, NEW p \in Provider, CleanupOne(v, p, c)
          PROVE  JobKept(w)
      <3>1. job[v] \in CleanupState
        BY <1>0, <2>4, JobStates DEF CleanupOne, TypeOK
      <3>2. [job[v] EXCEPT !.uploaded = @ \ {<<p, c>>}].op = "cleanup"
        BY <3>1 DEF CleanupState
      <3> QED
        BY <1>2, <1>3, <2>4, <3>2 DEF CleanupOne
    <2>5. CASE EndCleanup(v) \/ CommitPut(v)
      BY <1>2, <1>3, <2>5 DEF EndCleanup, CommitPut, Idle, Failed
    <2> QED
      BY <1>5, <2>1, <2>2, <2>3, <2>4, <2>5 DEF PutStep
  <1>6. ASSUME NEW v \in Worker, RemoveStep(v)
        PROVE  JobKept(w)
    <2>1. ASSUME NEW i \in RowId, RemoveOne(v, i)
          PROVE  JobKept(w)
      <3>1. job[v] \in RemoveState
        BY <1>0, <2>1, JobStates DEF RemoveOne, TypeOK
      <3>2. [job[v] EXCEPT !.todo = @ \ {i}].op = "remove" /\ Failed.op = "failed"
        BY <3>1 DEF RemoveState, Failed
      <3>3. Become(v, [job[v] EXCEPT !.todo = @ \ {i}]) \/ Become(v, Failed)
        BY <2>1 DEF RemoveOne
      <3> QED
        BY <1>2, <1>3, <3>2, <3>3
    <2>2. CASE EndRemove(v)
      BY <1>2, <1>3, <2>2 DEF EndRemove, Idle
    <2>3. ASSUME NEW f \in File, StartRemove(v, f)
          PROVE  JobKept(w)
      BY <1>2, <1>3, <2>3 DEF StartRemove
    <2> QED
      BY <1>6, <2>1, <2>2, <2>3 DEF RemoveStep
  <1>7. ASSUME NEW v \in Worker, Crash(v)
        PROVE  JobKept(w)
    BY <1>2, <1>3, <1>7 DEF Crash, Failed
  <1>8. ASSUME NEW r \in Reader, GetStep(r)
        PROVE  JobKept(w)
    BY <1>1, <1>8 DEF GetStep, StartGet, GetHit, GetMissed, GetExhausted, TryEnds
  <1>9. CASE Environment
    BY <1>1, <1>9 DEF Environment, RemoveProvider, StrayPut
  <1>10. CASE UNCHANGED vars
    BY <1>1, <1>10 DEF vars
  <1> QED
    BY <1>4, <1>5, <1>6, <1>7, <1>8, <1>9, <1>10 DEF Next

----------------------------------------------------------------------------
(* Shard groups.                                                           *)

\* Sets of shard groups are finite, and fewer are fewer.
LEMMA GroupCount ==
    ASSUME NEW S \in SUBSET Group, NEW T \in SUBSET S
    PROVE  Cardinality(S) \in Nat /\ Cardinality(T) \in Nat /\ Cardinality(T) <= Cardinality(S)
  <1>1. IsFiniteSet(Group)
    BY ManifestAssumption, FS_Interval DEF Group
  <1>2. IsFiniteSet(S) /\ IsFiniteSet(T)
    BY <1>1, FS_Subset
  <1> QED
    BY <1>2, FS_Subset, FS_CardinalityType

\* Fewer groups fit under the cap when more do.
LEMMA FewerFit ==
    ASSUME NEW S \in SUBSET Group, NEW T, T \subseteq S, Cardinality(S) <= SpreadCap
    PROVE  Cardinality(T) <= SpreadCap
  <1>1. Cardinality(S) \in Nat /\ Cardinality(T) \in Nat /\ Cardinality(T) <= Cardinality(S)
    BY GroupCount
  <1> QED
    BY <1>1, ManifestAssumption

LEMMA HeldType ==
    ASSUME NEW t \in Snapshot, NEW f, NEW p
    PROVE  GroupsHeld(t, f, p) \in SUBSET Group
  <1>1. \A i \in NonLost(t) : t[i].chunk \in Chunk
    BY DEF NonLost, Ids, Snapshot, Row
  <1> QED
    BY <1>1, GroupOfType DEF GroupsHeld

\* A provider that holds a group already, or is below the cap, has room for it.
LEMMA RoomWithoutConflict ==
    ASSUME TypeOK, SpreadCapHeld, NEW c \in Chunk, NEW p \in Provider,
           MinSpread > 1 => p \notin SpreadConflictProviders(c)
    PROVE  HasGroupRoom(c, p)
  <1> SUFFICES ASSUME MinSpread > 1
               PROVE  Cardinality(GroupsHeld(rows, FileOf[c], p) \cup {GroupOf(c)}) <= SpreadCap
    BY DEF HasGroupRoom
  <1> DEFINE held == GroupsHeld(rows, FileOf[c], p)
  <1>1. held \in SUBSET Group /\ IsFiniteSet(Group) /\ FileOf[c] \in File
    BY HeldType, ManifestAssumption, FS_Interval DEF TypeOK, RegisterTypeOK, Group
  <1>2. IsFiniteSet(held) /\ Cardinality(held) \in Nat
    BY <1>1, FS_Subset, FS_CardinalityType
  <1>3. Cardinality(held) <= SpreadCap
    BY <1>1 DEF SpreadCapHeld
  <1>4. GroupOf(c) \in held \/ Cardinality(held) < SpreadCap
    BY <1>2, ManifestAssumption DEF SpreadConflictProviders
  <1> HIDE DEF held
  <1>5. CASE GroupOf(c) \in held
    <2>1. held \cup {GroupOf(c)} = held
      BY <1>5
    <2> QED
      BY <1>3, <2>1 DEF held
  <1>6. CASE GroupOf(c) \notin held
    <2>1. Cardinality(held \cup {GroupOf(c)}) = Cardinality(held) + 1
      BY <1>2, <1>6, FS_AddElement
    <2> QED
      BY <1>2, <1>4, <1>6, <2>1, ManifestAssumption DEF held
  <1> QED
    BY <1>5, <1>6

----------------------------------------------------------------------------
(* Rows that only age.                                                     *)

LEMMA AgingFacts ==
    ASSUME TypeOK, TypeOK', \A i \in RowId : Older(i)
    PROVE  /\ \A i \in NonLost(rows)' :
                 i \in NonLost(rows) /\ rows'[i].chunk = rows[i].chunk /\ rows'[i].prov = rows[i].prov
           /\ \A f, p : GroupsHeld(rows, f, p)' \subseteq GroupsHeld(rows, f, p)
  <1>1. \A i \in NonLost(rows)' :
           i \in NonLost(rows) /\ rows'[i].chunk = rows[i].chunk /\ rows'[i].prov = rows[i].prov
    BY DEF Older, NonLost, Ids
  <1> QED
    BY <1>1 DEF GroupsHeld

\* The books of a job stay right while rows age.
LEMMA BooksWhileAging ==
    ASSUME RepairInv, TypeOK', \A i \in RowId : Older(i), \A w \in Worker : JobKept(w)
    PROVE  JobBooks'
  <1>0. TypeOK /\ JobBooks /\ SpreadCapHeld
    BY DEF RepairInv, UploadInv
  <1>1. /\ \A i \in NonLost(rows)' :
              i \in NonLost(rows) /\ rows'[i].chunk = rows[i].chunk /\ rows'[i].prov = rows[i].prov
        /\ \A f, p : GroupsHeld(rows, f, p)' \subseteq GroupsHeld(rows, f, p)
    BY <1>0, AgingFacts
  <1> SUFFICES ASSUME NEW w \in Worker
               PROVE  /\ job'[w].op = "put" => Capped(job'[w].plan)
                      /\ job'[w].op = "fetch" => FetchBooks(job[w])'
                      /\ job'[w].op = "upload" => UploadBooks(job[w])'
    BY DEF JobBooks, Capped
  <1>2. JobKept(w)
    OBVIOUS
  <1>3. ASSUME job'[w].op = "put"
        PROVE  Capped(job'[w].plan)
    BY <1>0, <1>2, <1>3 DEF JobKept, JobBooks
  <1>4. ASSUME job'[w].op = "fetch"
        PROVE  FetchBooks(job[w])'
    <2>1. CASE job[w].op = "fetch" /\ SameChunk(w)
      BY <1>0, <1>1, <2>1 DEF JobBooks, FetchBooks, SameChunk
    <2>2. CASE rows' = rows /\ job'[w].seen = RowsOf(job'[w].chunk)
      <3>1. ASSUME NEW i \in NonLost(rows), rows[i].chunk = job'[w].chunk
            PROVE  i \in NonLost(job'[w].seen) /\ job'[w].seen[i] = rows[i]
        <4>1. i \in RowId /\ rows[i] # NoRow /\ rows[i].state # "lost"
          BY <3>1 DEF NonLost, Ids
        <4>2. job'[w].seen[i] = rows[i]
          BY <2>2, <3>1, <4>1 DEF RowsOf, IdsOf, Ids
        <4> QED
          BY <4>1, <4>2 DEF NonLost, Ids
      <3> QED
        BY <2>2, <3>1 DEF FetchBooks
    <2> QED
      BY <1>2, <1>4, <2>1, <2>2 DEF JobKept
  <1>5. ASSUME job'[w].op = "upload"
        PROVE  UploadBooks(job[w])'
    <2>1. job'[w] \in UploadState
      BY <1>5, JobStates DEF TypeOK
    <2>2. job'[w].chunk \in Chunk /\ job'[w].targets \in SUBSET Provider /\ job'[w].seen \in Snapshot
      BY <2>1 DEF UploadState
    <2>3. ASSUME NEW p \in job'[w].targets, HasGroupRoom(job'[w].chunk, p)
          PROVE  HasGroupRoom(job[w].chunk, p)'
      <3>1. PICK c \in Chunk : c = job'[w].chunk
        BY <2>2
      <3> DEFINE S == GroupsHeld(rows, FileOf[c], p) \cup {GroupOf(c)}
                 T == GroupsHeld(rows, FileOf[c], p)' \cup {GroupOf(c)}
      <3>2. S \in SUBSET Group
        BY <1>0, HeldType, GroupOfType DEF TypeOK, RegisterTypeOK
      <3>3. T \in SUBSET S
        BY <1>1
      <3>4. Cardinality(S) \in Nat /\ Cardinality(T) \in Nat /\ Cardinality(T) <= Cardinality(S)
        <4> HIDE DEF S, T
        <4> QED
          BY <3>2, <3>3, GroupCount
      <3>5. MinSpread > 1 => Cardinality(S) <= SpreadCap
        BY <2>3, <3>1 DEF HasGroupRoom
      <3>6. MinSpread > 1 => Cardinality(T) <= SpreadCap
        <4> HIDE DEF S, T
        <4> QED
          BY <3>4, <3>5, ManifestAssumption
      <3> QED
        BY <3>1, <3>6 DEF HasGroupRoom
    <2>4. CASE /\ job[w].op = "upload" /\ SameChunk(w)
               /\ job'[w].targets \subseteq job[w].targets
      <3>1. UploadBooks(job[w])
        BY <1>0, <2>4 DEF JobBooks
      <3> QED
        BY <1>1, <2>3, <2>4, <3>1 DEF UploadBooks, SameChunk
    <2>5. CASE /\ job[w].op = "fetch" /\ SameChunk(w) /\ rows' = rows
               /\ job'[w].targets \cap (Existing(w) \cup Barred(w)) = {}
      <3>1. FetchBooks(job[w])
        BY <1>0, <2>5 DEF JobBooks
      <3>2. ASSUME NEW p \in job'[w].targets
            PROVE  HasGroupRoom(job'[w].chunk, p)
        <4>1. MinSpread > 1 => p \notin SpreadConflictProviders(job'[w].chunk)
          BY <2>5, <3>2 DEF Barred, SameChunk
        <4> QED
          BY <1>0, <2>2, <4>1, RoomWithoutConflict
      <3>3. ASSUME NEW p \in job'[w].targets, NEW i \in NonLost(rows),
                   rows[i].chunk = job'[w].chunk, rows[i].prov = p
            PROVE  i \in InState(job'[w].seen, job'[w].chunk, "suspect") /\ job'[w].seen[i].prov = p
        <4>1. i \in NonLost(job[w].seen) /\ job[w].seen[i].chunk = job[w].chunk
              /\ job[w].seen[i].prov = p
          BY <2>5, <3>1, <3>3 DEF FetchBooks, SameChunk
        <4>2. i \in IdsOf(job[w].seen, job[w].chunk) /\ job[w].seen[i] \in Row
          BY <2>2, <2>5, <4>1 DEF NonLost, IdsOf, Ids, Snapshot, SameChunk
        <4>3. job[w].seen[i].state # "stored"
          BY <2>5, <3>3, <4>1, <4>2 DEF Existing, InState
        <4>4. job[w].seen[i].state # "pending"
          BY <2>5, <3>3, <4>1, <4>2 DEF Barred, InState
        <4>5. job[w].seen[i].state = "suspect"
          BY <4>1, <4>2, <4>3, <4>4 DEF Row, State, NonLost
        <4> QED
          BY <2>5, <4>1, <4>2, <4>5 DEF InState, SameChunk
      <3> QED
        BY <2>3, <2>5, <3>2, <3>3 DEF UploadBooks
    <2> QED
      BY <1>2, <1>5, <2>4, <2>5 DEF JobKept
  <1> QED
    BY <1>3, <1>4, <1>5

LEMMA AgingStep ==
    ASSUME RepairInv, UploadInv', [Next]_vars,
           NoneFilled, UNCHANGED files \/ \E f \in File : DeleteFile(f)
    PROVE  RepairInv'
  <1>0. TypeOK /\ TypeOK' /\ UploadInv /\ Filed /\ SpreadCapHeld
    BY DEF RepairInv, UploadInv
  <1>1. \A i \in RowId : Older(i)
    BY <1>0, RowsAge DEF NoneFilled
  <1>2. JobBooks'
    BY <1>0, <1>1, JobsKept, BooksWhileAging
  <1>3. /\ \A i \in NonLost(rows)' :
              i \in NonLost(rows) /\ rows'[i].chunk = rows[i].chunk /\ rows'[i].prov = rows[i].prov
        /\ \A f, p : GroupsHeld(rows, f, p)' \subseteq GroupsHeld(rows, f, p)
    BY <1>0, <1>1, AgingFacts
  <1>4. Filed'
    <2>1. CASE UNCHANGED files
      BY <1>0, <1>1, <2>1 DEF Filed, Older, Ids
    <2>2. CASE \E f \in File : DeleteFile(f)
      BY <1>0, <2>2 DEF DeleteFile, Filed, Ids
    <2> QED
      BY <2>1, <2>2
  <1>6. ASSUME MinSpread > 1, NEW f \in File, NEW p \in Provider
        PROVE  Cardinality(GroupsHeld(rows, f, p)') <= SpreadCap
    <2> DEFINE S == GroupsHeld(rows, f, p)
               T == GroupsHeld(rows, f, p)'
    <2>1. S \in SUBSET Group /\ T \in SUBSET S
      BY <1>0, <1>3, HeldType DEF TypeOK, RegisterTypeOK
    <2>2. Cardinality(S) <= SpreadCap
      BY <1>0, <1>6 DEF SpreadCapHeld
    <2> HIDE DEF S, T
    <2>3. Cardinality(S) \in Nat /\ Cardinality(T) \in Nat /\ Cardinality(T) <= Cardinality(S)
      BY <2>1, GroupCount
    <2>4. Cardinality(T) <= SpreadCap
      BY <2>2, <2>3, ManifestAssumption
    <2> QED
      BY <2>4 DEF T
  <1>7. SpreadCapHeld'
    BY <1>6 DEF SpreadCapHeld
  <1> QED
    BY <1>2, <1>4, <1>7 DEF RepairInv

----------------------------------------------------------------------------
(* A copy is recorded.                                                     *)

\* The rows after it: the new one, and the others as they were.
LEMMA CopyFacts ==
    ASSUME TypeOK, NEW w \in Worker, NEW p \in Provider, NEW n \in RowId,
           CopyRecorded(w, p, n)
    PROVE  /\ job[w] \in UploadState /\ job[w].chunk \in Chunk /\ rows[n] = NoRow
           /\ rows'[n] \in Row /\ rows'[n] # NoRow
           /\ rows'[n].chunk = job[w].chunk /\ rows'[n].prov = p
           /\ rows'[n].state = "stored"
           /\ \A i \in RowId \ {n} : rows'[i] = rows[i]
           /\ job'[w].op = "upload" /\ job'[w].chunk = job[w].chunk
           /\ job'[w].seen = job[w].seen /\ job'[w].targets = job[w].targets \ {p}
           /\ job'[w].work = job[w].work /\ job'[w].report = job[w].report
           /\ job'[w].stale = Superseded(w, p)
  <1>1. job[w] \in UploadState
    BY JobStates DEF CopyRecorded, TypeOK
  <1>2. job[w].chunk \in Chunk /\ job[w].op = "upload"
    BY <1>1 DEF UploadState
  <1>3. rows[n] = NoRow
    BY DEF CopyRecorded, IsNextId, RowId
  <1> DEFINE new == [chunk |-> job[w].chunk, prov |-> p, state |-> "stored"]
  <1>4. new \in Row /\ new # NoRow
    BY <1>2, ManifestAssumption DEF Row, State
  <1>5. rows'[n] = new /\ \A i \in RowId \ {n} : rows'[i] = rows[i]
    BY DEF CopyRecorded, TypeOK, RegisterTypeOK, Snapshot
  <1>6. job'[w] = [job[w] EXCEPT !.targets = @ \ {p}, !.stale = Superseded(w, p)]
    BY BecomeOne DEF CopyRecorded
  <1>7. /\ job'[w].op = "upload" /\ job'[w].chunk = job[w].chunk
        /\ job'[w].seen = job[w].seen /\ job'[w].targets = job[w].targets \ {p}
        /\ job'[w].work = job[w].work /\ job'[w].report = job[w].report
        /\ job'[w].stale = Superseded(w, p)
    BY <1>1, <1>6 DEF UploadState
  <1> QED
    BY <1>1, <1>2, <1>3, <1>4, <1>5, <1>7

LEMMA CopyStep ==
    ASSUME RepairInv, UploadInv', [Next]_vars, OneWorker,
           NEW w \in Worker, NEW p \in Provider, NEW n \in RowId, CopyRecorded(w, p, n)
    PROVE  RepairInv'
  <1>0. TypeOK /\ TypeOK' /\ UploadInv /\ Filed /\ SpreadCapHeld
        /\ job[w].op = "upload" /\ p \in job[w].targets /\ UploadBooks(job[w])
    BY DEF RepairInv, UploadInv, CopyRecorded, JobBooks
  <1>1. /\ job[w].chunk \in Chunk /\ rows[n] = NoRow
        /\ rows'[n] # NoRow /\ rows'[n].chunk = job[w].chunk /\ rows'[n].prov = p
        /\ \A i \in RowId \ {n} : rows'[i] = rows[i]
    BY <1>0, CopyFacts
  <1>2. job[w] \in UploadState /\ job[w].seen \in Snapshot /\ job[w].targets \in SUBSET Provider
    BY <1>0, JobStates DEF TypeOK, UploadState
  <1>3. /\ job'[w].op = "upload" /\ job'[w].chunk = job[w].chunk /\ job'[w].seen = job[w].seen
        /\ job'[w].targets = job[w].targets \ {p}
    BY <1>0, CopyFacts
  <1>4. \A v \in Worker : v = w
    BY DEF OneWorker
  <1>5. Filed'
    BY <1>0, <1>1 DEF Filed, Ids, CopyRecorded, CanAddReplica
  <1>6. ASSUME NEW j \in NonLost(rows)', j # n
        PROVE  j \in NonLost(rows) /\ rows'[j] = rows[j]
    BY <1>1, <1>6 DEF NonLost, Ids
  <1>8. PICK c \in Chunk : c = job[w].chunk
    BY <1>1
  <1>9. ASSUME NEW f, NEW q, q # p \/ FileOf[c] # f
        PROVE  GroupsHeld(rows, f, q)' \subseteq GroupsHeld(rows, f, q)
    BY <1>1, <1>6, <1>8, <1>9 DEF GroupsHeld
  <1>10. GroupsHeld(rows, FileOf[c], p)' \subseteq GroupsHeld(rows, FileOf[c], p) \cup {GroupOf(c)}
    BY <1>1, <1>6, <1>8 DEF GroupsHeld
  <1>11. HasGroupRoom(c, p)
    BY <1>0, <1>8 DEF UploadBooks
  <1>12. ASSUME MinSpread > 1, NEW f \in File, NEW q \in Provider
         PROVE  Cardinality(GroupsHeld(rows, f, q)') <= SpreadCap
    <2>1. /\ GroupsHeld(rows, f, q) \in SUBSET Group
          /\ GroupsHeld(rows, FileOf[c], p) \cup {GroupOf(c)} \in SUBSET Group
      BY <1>0, HeldType, GroupOfType DEF TypeOK, RegisterTypeOK
    <2>2. CASE q # p \/ FileOf[c] # f
      <3>1. Cardinality(GroupsHeld(rows, f, q)) <= SpreadCap
        BY <1>0, <1>12 DEF SpreadCapHeld
      <3>2. GroupsHeld(rows, f, q)' \subseteq GroupsHeld(rows, f, q)
        BY <1>9, <2>2
      <3> QED
        BY <2>1, <3>1, <3>2, FewerFit
    <2>3. CASE q = p /\ FileOf[c] = f
      <3>1. Cardinality(GroupsHeld(rows, f, q) \cup {GroupOf(c)}) <= SpreadCap
        BY <1>11, <1>12, <2>3 DEF HasGroupRoom
      <3>2. GroupsHeld(rows, f, q)' \subseteq GroupsHeld(rows, f, q) \cup {GroupOf(c)}
        BY <1>10, <2>3
      <3> QED
        BY <2>1, <2>3, <3>1, <3>2, FewerFit
    <2> QED
      BY <2>2, <2>3
  <1>13. SpreadCapHeld'
    BY <1>12 DEF SpreadCapHeld
  <1>14. ASSUME NEW q \in job'[w].targets
         PROVE  HasGroupRoom(c, q)'
    <2>1. q \in job[w].targets /\ q # p /\ q \in Provider
      BY <1>2, <1>3, <1>14
    <2>2. HasGroupRoom(c, q)
      BY <1>0, <1>8, <2>1 DEF UploadBooks
    <2>3. GroupsHeld(rows, FileOf[c], q) \cup {GroupOf(c)} \in SUBSET Group
      BY <1>0, HeldType, GroupOfType DEF TypeOK, RegisterTypeOK
    <2>4. GroupsHeld(rows, FileOf[c], q)' \cup {GroupOf(c)}
             \subseteq GroupsHeld(rows, FileOf[c], q) \cup {GroupOf(c)}
      BY <1>9, <2>1
    <2> QED
      BY <2>2, <2>3, <2>4, FewerFit DEF HasGroupRoom
  <1>15. UploadBooks(job[w])'
    <2>1. ASSUME NEW q \in job'[w].targets, NEW i \in NonLost(rows)',
                 rows'[i].chunk = job'[w].chunk, rows'[i].prov = q
          PROVE  i \in InState(job'[w].seen, job'[w].chunk, "suspect") /\ job'[w].seen[i].prov = q
      <3>1. q \in job[w].targets /\ q # p
        BY <1>3, <2>1
      <3>2. i # n
        BY <1>1, <2>1, <3>1
      <3>3. i \in NonLost(rows) /\ rows[i].chunk = job[w].chunk /\ rows[i].prov = q
        BY <1>3, <1>6, <2>1, <3>2
      <3> QED
        BY <1>0, <1>3, <3>1, <3>3 DEF UploadBooks
    <2>2. \A q \in job'[w].targets : HasGroupRoom(job[w].chunk, q)'
      BY <1>3, <1>8, <1>14 DEF HasGroupRoom
    <2> QED
      BY <2>1, <2>2 DEF UploadBooks
  <1>16. JobBooks'
    BY <1>3, <1>4, <1>15 DEF JobBooks
  <1> QED
    BY <1>5, <1>13, <1>16 DEF RepairInv

----------------------------------------------------------------------------
(* A file is recorded.                                                     *)

\* The rows after it: the new ones, one for each placement, and the others.
LEMMA InsertFacts ==
    ASSUME TypeOK, NEW f, NEW n \in 1..MaxRows + 1, IsNextId(n),
           NEW placed \in SUBSET (Chunk \X Provider), InsertFileWithManifest(f, n, placed)
    PROVE  \E New \in SUBSET RowId :
              /\ \A i \in RowId \ New : rows'[i] = rows[i]
              /\ \A i \in New : /\ rows[i] = NoRow /\ rows'[i] # NoRow
                                /\ rows'[i].state = "stored"
                                /\ <<rows'[i].chunk, rows'[i].prov>> \in placed
              /\ \A i, j \in New :
                    rows'[i].chunk = rows'[j].chunk /\ rows'[i].prov = rows'[j].prov => i = j
  <1> DEFINE num == Numbering(n, placed)
             last == n + Cardinality(placed) - 1
  <1>1. IsFiniteSet(placed)
    BY ManifestAssumption, FS_Product, FS_Subset
  <1>2. /\ num \in [n..last -> placed]
        /\ \A i, j \in n..last : num[i] = num[j] => i = j
    <2>1. num \in Bijection(n..last, placed)
      BY <1>1, NumberingIsBijection, ManifestAssumption
    <2> HIDE DEF num
    <2> QED
      BY <2>1 DEF Bijection, Injection, IsInjective
  <1>3. rows' = [i \in RowId |->
                    IF i \in DOMAIN num
                    THEN [chunk |-> num[i][1], prov |-> num[i][2], state |-> "stored"]
                    ELSE rows[i]]
    BY DEF InsertFileWithManifest
  <1>4. \A i \in RowId : i \in n..last => rows[i] = NoRow
    BY DEF IsNextId, RowId
  <1> HIDE DEF num, last
  <1> DEFINE New == {i \in RowId : i \in n..last}
  <1>5. \A i \in RowId \ New : rows'[i] = rows[i]
    BY <1>2, <1>3
  <1>6. ASSUME NEW i \in New
        PROVE  /\ rows'[i].chunk = num[i][1] /\ rows'[i].prov = num[i][2]
               /\ rows'[i].state = "stored" /\ rows'[i] # NoRow
               /\ num[i] = <<rows'[i].chunk, rows'[i].prov>> /\ num[i] \in placed
    <2>1. num[i] \in placed /\ num[i] \in Chunk \X Provider
      BY <1>2, <1>6
    <2>2. rows'[i] = [chunk |-> num[i][1], prov |-> num[i][2], state |-> "stored"]
      BY <1>2, <1>3, <1>6
    <2>3. num[i][1] \in Chunk /\ num[i][2] \in Provider /\ num[i] = <<num[i][1], num[i][2]>>
      BY <2>1
    <2>4. rows'[i] \in Row
      BY <2>2, <2>3 DEF Row, State
    <2> QED
      BY <2>1, <2>2, <2>3, <2>4, ManifestAssumption
  <1>7. \A i \in New : rows[i] = NoRow /\ i \in n..last
    BY <1>4
  <1>8. \A i, j \in New :
           rows'[i].chunk = rows'[j].chunk /\ rows'[i].prov = rows'[j].prov => i = j
    <2> SUFFICES ASSUME NEW i \in New, NEW j \in New,
                        rows'[i].chunk = rows'[j].chunk, rows'[i].prov = rows'[j].prov
                 PROVE  i = j
      OBVIOUS
    <2>1. num[i] = <<rows'[i].chunk, rows'[i].prov>> /\ num[j] = <<rows'[j].chunk, rows'[j].prov>>
      BY <1>6
    <2> QED
      BY <1>2, <1>7, <2>1
  <1>9. New \in SUBSET RowId
    OBVIOUS
  <1>10. \A i \in New : /\ rows[i] = NoRow /\ rows'[i] # NoRow
                        /\ rows'[i].state = "stored"
                        /\ <<rows'[i].chunk, rows'[i].prov>> \in placed
    BY <1>6, <1>7
  <1> HIDE DEF New
  <1> QED
    BY <1>5, <1>8, <1>9, <1>10

LEMMA FileStep ==
    ASSUME RepairInv, UploadInv', [Next]_vars, OneWorker,
           NEW w \in Worker, NEW n \in 1..MaxRows + 1, FileRecorded(w, n)
    PROVE  RepairInv'
  <1>0. TypeOK /\ TypeOK' /\ UploadInv /\ Filed /\ SpreadCapHeld
        /\ job[w].op = "put" /\ Capped(job[w].plan)
    BY DEF RepairInv, UploadInv, FileRecorded, JobBooks
  <1>1. job[w] \in PutState
    BY <1>0, JobStates DEF TypeOK
  <1>2. PICK f \in File, plan \in [Group -> SUBSET Provider] : f = job[w].file /\ plan = job[w].plan
    BY <1>1 DEF PutState
  <1> DEFINE placed == {<<o[2], o[1]>> : o \in Uploaded(w)}
  <1>3. /\ IsNextId(n) /\ InsertFileWithManifest(f, n, placed) /\ ~VPathTaken(f)
        /\ Become(w, Idle)
    BY <1>2 DEF FileRecorded, CanInsert
  <1>4. placed \in SUBSET (Chunk \X Provider)
    BY <1>0, UploadedType
  <1>5. ASSUME NEW c, NEW p, <<c, p>> \in placed
        PROVE  FileOf[c] = f /\ p \in plan[GroupOf(c)]
    <2>1. PICK o \in Uploaded(w) : <<c, p>> = <<o[2], o[1]>>
      BY <1>5
    <2>2. o[2] = c /\ o[1] = p
      BY <2>1
    <2> QED
      BY <1>2, <2>2 DEF Uploaded
  <1> HIDE DEF placed
  <1>6. PICK New \in SUBSET RowId :
              /\ \A i \in RowId \ New : rows'[i] = rows[i]
              /\ \A i \in New : /\ rows[i] = NoRow /\ rows'[i] # NoRow
                                /\ rows'[i].state = "stored"
                                /\ <<rows'[i].chunk, rows'[i].prov>> \in placed
              /\ \A i, j \in New :
                    rows'[i].chunk = rows'[j].chunk /\ rows'[i].prov = rows'[j].prov => i = j
    BY <1>0, <1>3, <1>4, InsertFacts
  <1>7. f \notin files /\ files' = files \cup {f}
    BY <1>3 DEF VPathTaken, InsertFileWithManifest
  <1>8. ASSUME NEW i \in New
        PROVE  FileOf[rows'[i].chunk] = f /\ rows'[i].prov \in plan[GroupOf(rows'[i].chunk)]
    BY <1>5, <1>6
  <1>9. ASSUME NEW i \in RowId \ New, rows'[i] # NoRow
        PROVE  /\ rows'[i] = rows[i] /\ rows[i] # NoRow
               /\ FileOf[rows[i].chunk] \in files /\ FileOf[rows[i].chunk] # f
    BY <1>0, <1>6, <1>7, <1>9 DEF Filed, Ids
  <1>10. Filed'
    BY <1>7, <1>8, <1>9 DEF Filed, Ids
  <1>12. ASSUME MinSpread > 1, NEW g \in File, NEW q \in Provider
         PROVE  Cardinality(GroupsHeld(rows, g, q)') <= SpreadCap
    <2>1. ASSUME NEW i \in NonLost(rows)'
          PROVE  i \in RowId /\ rows'[i] # NoRow /\ rows'[i].state # "lost"
      BY <2>1 DEF NonLost, Ids
    <2>2. CASE g # f
      <3>1. ASSUME NEW i \in NonLost(rows)', FileOf[rows'[i].chunk] = g
            PROVE  i \in NonLost(rows) /\ rows'[i] = rows[i]
        BY <1>8, <1>9, <2>1, <2>2, <3>1 DEF NonLost, Ids
      <3>2. GroupsHeld(rows, g, q)' \subseteq GroupsHeld(rows, g, q)
        BY <3>1 DEF GroupsHeld
      <3>3. GroupsHeld(rows, g, q) \in SUBSET Group
        BY <1>0, HeldType DEF TypeOK, RegisterTypeOK
      <3>4. Cardinality(GroupsHeld(rows, g, q)) <= SpreadCap
        BY <1>0, <1>12 DEF SpreadCapHeld
      <3> QED
        BY <3>2, <3>3, <3>4, FewerFit
    <2>3. CASE g = f
      <3> DEFINE dealt == {h \in Group : q \in plan[h]}
      <3>1. ASSUME NEW i \in NonLost(rows)', rows'[i].prov = q, FileOf[rows'[i].chunk] = g
            PROVE  GroupOf(rows'[i].chunk) \in dealt
        <4>1. i \in New
          BY <1>9, <2>1, <2>3, <3>1
        <4>2. rows'[i].chunk \in Chunk
          BY <1>4, <1>6, <4>1
        <4> QED
          BY <1>8, <3>1, <4>1, <4>2, GroupOfType
      <3>2. GroupsHeld(rows, g, q)' \subseteq dealt
        <4> HIDE DEF dealt
        <4> QED
          BY <3>1 DEF GroupsHeld
      <3>3. dealt \in SUBSET Group /\ Cardinality(dealt) <= SpreadCap
        BY <1>0, <1>2, <1>12 DEF Capped
      <3> QED
        BY <3>2, <3>3, FewerFit
    <2> QED
      BY <2>2, <2>3
  <1>13. SpreadCapHeld'
    BY <1>12 DEF SpreadCapHeld
  <1>14. JobBooks'
    <2>1. \A v \in Worker : job'[v] = Idle
      BY <1>0, <1>3, BecomeOne DEF OneWorker
    <2> QED
      BY <2>1 DEF JobBooks, Idle
  <1> QED
    BY <1>10, <1>13, <1>14 DEF RepairInv

----------------------------------------------------------------------------
(* The theorems of one worker.                                             *)

LEMMA RepairInvHolds == ASSUME OneWorker PROVE Spec => []RepairInv
  <1>1. Init /\ UploadInv => RepairInv
    <2> SUFFICES ASSUME Init, UploadInv
                 PROVE  RepairInv
      OBVIOUS
    <2>1. Ids(rows) = {} /\ NonLost(rows) = {}
      BY DEF Init, RegisterInit, Ids, NonLost
    <2>2. Filed
      BY <2>1 DEF Filed
    <2>3. JobBooks
      BY DEF Init, JobsInit, JobBooks, Idle
    <2>4. SpreadCapHeld
      <3>1. \A f, p : GroupsHeld(rows, f, p) = {}
        BY <2>1 DEF GroupsHeld
      <3> QED
        BY <3>1, FS_EmptySet, ManifestAssumption DEF SpreadCapHeld
    <2> QED
      BY <2>2, <2>3, <2>4 DEF RepairInv
  <1>2. RepairInv /\ UploadInv' /\ [Next]_vars => RepairInv'
    <2> SUFFICES ASSUME RepairInv, UploadInv', [Next]_vars
                 PROVE  RepairInv'
      OBVIOUS
    <2>1. UploadInv
      BY DEF RepairInv
    <2> QED
      BY <2>1, RowSteps, AgingStep, CopyStep, FileStep
  <1> QED
    BY <1>1, <1>2, UploadInvHolds, PTL DEF Spec

\* What a worker that has rows to retire does next: it retires one, or dies.
LEMMA RetiringSteps ==
    ASSUME UploadInv, [Next]_vars, OneWorker, NEW w \in Worker,
           job[w].op = "upload", job[w].stale # {}
    PROVE  \/ job'[w] = job[w] \/ job'[w] = Failed
           \/ \E i \in job[w].stale :
                 /\ job'[w].op = "upload" /\ job'[w].stale = job[w].stale \ {i}
                 /\ i \notin NonLost(rows)'
  <1>0. TypeOK /\ job[w] \in UploadState /\ ~Free(w) /\ \A v \in Worker : v = w
    BY JobStates DEF UploadInv, TypeOK, OneWorker, Free, Idle, Failed
  <1>1. ASSUME NEW i \in RowId, Retire(w, i)
        PROVE  \/ job'[w] = Failed
               \/ /\ i \in job[w].stale
                  /\ job'[w].op = "upload" /\ job'[w].stale = job[w].stale \ {i}
                  /\ i \notin NonLost(rows)'
    <2>1. CASE Become(w, Failed)
      BY <1>0, <2>1, BecomeOne
    <2>2. CASE /\ CanSet(i, "lost") /\ SetReplicaState(i, "lost")
               /\ Become(w, [job[w] EXCEPT !.stale = @ \ {i}])
      <3>1. job'[w] = [job[w] EXCEPT !.stale = @ \ {i}]
        BY <1>0, <2>2, BecomeOne
      <3>2. job'[w].op = "upload" /\ job'[w].stale = job[w].stale \ {i}
        BY <1>0, <3>1 DEF UploadState
      <3>3. rows[i] \in Row
        BY <1>0, <2>2 DEF CanSet, TypeOK, RegisterTypeOK, Snapshot
      <3>4. rows'[i].state = "lost"
        BY <1>0, <2>2, <3>3 DEF SetReplicaState, TypeOK, RegisterTypeOK, Snapshot, Row
      <3> QED
        BY <1>1, <3>2, <3>4 DEF Retire, NonLost, Ids
    <2> QED
      BY <1>1, <2>1, <2>2 DEF Retire
  <1>2. CASE UNCHANGED job
    BY <1>2
  <1>3. CASE Scrub(w)
    <2>1. ~ \E deep, repair \in BOOLEAN, batch \in SUBSET NonLost(rows) :
               StartScrub(w, deep, repair, batch)
      BY <1>0 DEF StartScrub
    <2>2. ~ScanStep(w)
      BY DEF ScanStep, ProbeFound, ProbeMissed, DeepVerified, DeepCorrupt, DeepFailed,
             Scanning, EndScan
    <2> QED
      BY <1>1, <1>3, <2>1, <2>2 DEF Scrub, RepairStep, RepairChunk, FetchMissed, FetchHit,
             FetchExhausted, UploadLands, UploadRaises, EndUpload, EndRepair
  <1>4. ~PutStep(w)
    <2>1. job[w].op \notin {"put", "cleanup"}
      OBVIOUS
    <2> QED
      BY <1>0, <2>1 DEF PutStep, StartPut, PutLands, PutFails, CleanupOne, EndCleanup, CommitPut,
                  Putting
  <1>5. ~RemoveStep(w)
    BY <1>0 DEF RemoveStep, StartRemove, RemoveOne, EndRemove
  <1>6. CASE Crash(w)
    BY <1>0, <1>6, BecomeOne DEF Crash
  <1>7. ASSUME NEW r \in Reader, GetStep(r)
        PROVE  UNCHANGED job
    BY <1>7 DEF GetStep, StartGet, GetHit, GetMissed, GetExhausted, TryEnds
  <1>8. CASE Environment
    BY <1>2, <1>8 DEF Environment, RemoveProvider, StrayPut
  <1>9. CASE UNCHANGED vars
    BY <1>2, <1>9 DEF vars
  <1> QED
    BY <1>0, <1>1, <1>2, <1>3, <1>4, <1>5, <1>6, <1>7, <1>8, <1>9 DEF Next

\* The live rows that Doubled counts: a row that is being retired is not one.
Retiring == UNION {IF job[w].op = "upload" THEN job[w].stale ELSE {} : w \in Worker}
Counted == NonLost(rows) \ Retiring

\* While rows age, none comes to count, unless a repair dies that has rows to
\* retire.
LEMMA CountedWhileAging ==
    ASSUME RepairInv, TypeOK', [Next]_vars, OneWorker, NoneFilled, NEW i \in Counted'
    PROVE  \/ i \in Counted /\ rows'[i].chunk = rows[i].chunk /\ rows'[i].prov = rows[i].prov
           \/ \E w \in Worker : job[w].op = "upload" /\ job[w].stale # {} /\ job'[w] = Failed
  <1>0. TypeOK /\ UploadInv
    BY DEF RepairInv, UploadInv
  <1>1. \A j \in RowId : Older(j)
    BY <1>0, RowsAge DEF NoneFilled
  <1>2. /\ i \in NonLost(rows)' /\ i \notin Retiring'
        /\ i \in NonLost(rows) /\ rows'[i].chunk = rows[i].chunk /\ rows'[i].prov = rows[i].prov
    BY <1>0, <1>1, AgingFacts DEF Counted
  <1>3. CASE i \in Retiring
    <2>1. PICK w \in Worker : job[w].op = "upload" /\ i \in job[w].stale
      BY <1>3 DEF Retiring
    <2>2. ~ (job'[w].op = "upload" /\ i \in job'[w].stale)
      BY <1>2 DEF Retiring
    <2> QED
      BY <1>0, <1>2, <2>1, <2>2, RetiringSteps
  <1> QED
    BY <1>2, <1>3 DEF Counted

\* A copy that is recorded is the only row of its provider and chunk to count:
\* those that were seen suspect are to be retired.
LEMMA CountedAfterCopy ==
    ASSUME RepairInv, OneWorker, NEW w \in Worker, NEW p \in Provider, NEW n \in RowId,
           CopyRecorded(w, p, n), NEW i \in Counted', i # n
    PROVE  /\ i \in Counted /\ rows'[i] = rows[i]
           /\ ~ (rows[i].chunk = job[w].chunk /\ rows[i].prov = p)
  <1>0. TypeOK /\ job[w].op = "upload" /\ job[w].stale = {} /\ p \in job[w].targets
        /\ UploadBooks(job[w]) /\ \A v \in Worker : v = w
    BY DEF RepairInv, UploadInv, CopyRecorded, JobBooks, OneWorker
  <1>1. Retiring = {}
    BY <1>0 DEF Retiring
  <1>2. Superseded(w, p) \subseteq Retiring'
    BY <1>0, CopyFacts DEF Retiring
  <1>3. i \in RowId /\ rows'[i] # NoRow /\ rows'[i].state # "lost" /\ i \notin Retiring'
    BY DEF Counted, NonLost, Ids
  <1>4. rows'[i] = rows[i]
    BY <1>0, <1>3, CopyFacts
  <1>5. i \in NonLost(rows)
    BY <1>3, <1>4 DEF NonLost, Ids
  <1>6. ASSUME rows[i].chunk = job[w].chunk, rows[i].prov = p
        PROVE  i \in Superseded(w, p)
    BY <1>0, <1>5, <1>6 DEF UploadBooks, Superseded
  <1> QED
    BY <1>1, <1>2, <1>3, <1>4, <1>5, <1>6 DEF Counted

\* The rows of a file that is recorded are one for each chunk and provider, and
\* no row of its chunks was there.
LEMMA CountedAfterFile ==
    ASSUME RepairInv, OneWorker, NEW w \in Worker, NEW n \in 1..MaxRows + 1,
           FileRecorded(w, n), NEW i \in Counted', NEW j \in Counted', i # j,
           rows'[i].chunk = rows'[j].chunk, rows'[i].prov = rows'[j].prov
    PROVE  /\ i \in Counted /\ rows'[i] = rows[i]
           /\ j \in Counted /\ rows'[j] = rows[j]
  <1>0. TypeOK /\ Filed /\ job[w].op = "put" /\ \A v \in Worker : v = w
    BY DEF RepairInv, UploadInv, FileRecorded, OneWorker
  <1> DEFINE placed == {<<o[2], o[1]>> : o \in Uploaded(w)}
  <1>1. PICK f \in File : f = job[w].file
    BY <1>0, JobStates DEF TypeOK, PutState
  <1>2. IsNextId(n) /\ InsertFileWithManifest(f, n, placed) /\ ~VPathTaken(f)
    BY <1>1 DEF FileRecorded, CanInsert
  <1>3. placed \in SUBSET (Chunk \X Provider)
    BY <1>0, UploadedType
  <1>4. ASSUME NEW c, NEW p, <<c, p>> \in placed
        PROVE  FileOf[c] = f
    <2>1. PICK o \in Uploaded(w) : <<c, p>> = <<o[2], o[1]>>
      BY <1>4
    <2> QED
      BY <1>1, <2>1 DEF Uploaded
  <1> HIDE DEF placed
  <1>5. PICK New \in SUBSET RowId :
              /\ \A k \in RowId \ New : rows'[k] = rows[k]
              /\ \A k \in New : /\ rows[k] = NoRow /\ rows'[k] # NoRow
                                /\ rows'[k].state = "stored"
                                /\ <<rows'[k].chunk, rows'[k].prov>> \in placed
              /\ \A k, l \in New :
                    rows'[k].chunk = rows'[l].chunk /\ rows'[k].prov = rows'[l].prov => k = l
    BY <1>0, <1>2, <1>3, InsertFacts
  <1>6. f \notin files
    BY <1>2 DEF VPathTaken
  <1>7. \A k \in New : FileOf[rows'[k].chunk] = f
    BY <1>4, <1>5
  <1>8. \A k \in RowId \ New : rows'[k] # NoRow => FileOf[rows'[k].chunk] # f
    BY <1>0, <1>5, <1>6 DEF Filed, Ids
  <1>9. /\ i \in RowId /\ rows'[i] # NoRow /\ rows'[i].state # "lost"
        /\ j \in RowId /\ rows'[j] # NoRow /\ rows'[j].state # "lost"
    BY DEF Counted, NonLost, Ids
  <1>10. i \notin New /\ j \notin New
    BY <1>5, <1>7, <1>8, <1>9
  <1>11. Retiring = {}
    BY <1>0 DEF Retiring
  <1> QED
    BY <1>5, <1>9, <1>10, <1>11 DEF Counted, NonLost, Ids

\* Diversity, with one worker: no step gives a provider a second live row for a
\* chunk, except the end, by a crash or an exception, of a repair that has
\* recorded a copy and not yet retired the row it supersedes.
THEOREM ProvidersCountOnce == ASSUME OneWorker PROVE Spec => NoSecondLiveRow
  <1> DEFINE Torn == \E w \in Worker : /\ job[w].op = "upload" /\ job[w].stale # {}
                                       /\ job'[w] = Failed
  <1>1. ASSUME RepairInv, UploadInv', [Next]_vars, NEW c \in Chunk, NEW p \in Provider,
               Doubled(c, p)'
        PROVE  Doubled(c, p) \/ Torn
    <2>0. UploadInv /\ TypeOK'
      BY <1>1 DEF RepairInv, UploadInv
    <2>1. PICK i \in Counted', j \in Counted' :
             /\ i # j
             /\ rows'[i].chunk = c /\ rows'[i].prov = p
             /\ rows'[j].chunk = c /\ rows'[j].prov = p
      BY <1>1 DEF Doubled, Counted, Retiring
    <2>2. ASSUME i \in Counted, rows[i].chunk = c, rows[i].prov = p,
                 j \in Counted, rows[j].chunk = c, rows[j].prov = p
          PROVE  Doubled(c, p)
      BY <2>1, <2>2 DEF Doubled, Counted, Retiring
    <2>3. CASE NoneFilled
      BY <1>1, <2>0, <2>1, <2>2, <2>3, CountedWhileAging
    <2>4. ASSUME NEW w \in Worker, NEW q \in Provider, NEW n \in RowId, CopyRecorded(w, q, n)
          PROVE  Doubled(c, p)
      <3>1. rows'[n].chunk = job[w].chunk /\ rows'[n].prov = q
        BY <2>0, <2>4, CopyFacts DEF UploadInv
      <3>2. i # n /\ j # n
        BY <1>1, <2>1, <2>4, <3>1, CountedAfterCopy
      <3> QED
        BY <1>1, <2>1, <2>2, <2>4, <3>2, CountedAfterCopy
    <2>5. ASSUME NEW w \in Worker, NEW n \in 1..MaxRows + 1, FileRecorded(w, n)
          PROVE  Doubled(c, p)
      BY <1>1, <2>1, <2>2, <2>5, CountedAfterFile
    <2> QED
      BY <1>1, <2>0, <2>3, <2>4, <2>5, RowSteps
  <1>2. RepairInv /\ UploadInv' /\ [Next]_vars =>
           \A c \in Chunk, p \in Provider :
              ~Doubled(c, p) /\ Doubled(c, p)' =>
                  \E w \in Worker : /\ job[w].op = "upload" /\ job[w].stale # {}
                                   /\ job'[w] = Failed
    BY <1>1
  <1> QED
    BY <1>2, RepairInvHolds, UploadInvHolds, PTL DEF Spec, NoSecondLiveRow

\* Anti-colocation, with one worker: through uploads and repairs, no provider
\* gets more of a file's shard groups than the cap.
THEOREM NobodyOverCap == ASSUME OneWorker PROVE Spec => []SpreadCapHeld
  <1>1. RepairInv => SpreadCapHeld
    BY DEF RepairInv
  <1> QED
    BY <1>1, RepairInvHolds, PTL

----------------------------------------------------------------------------
(* A worker with no download beside it.                                    *)

RowsStay == \A i \in RowId : rows[i] # NoRow => rows'[i] \in {rows[i], NoRow}

\* A step of the worker that is part of no scan and no repair, before or after.
Elsewhere(w) == RowsStay /\ job'[w].op \notin {"scan", "repair", "fetch", "upload"}

LEMMA QuietSteps ==
    ASSUME UploadInv, [Next]_vars, Quiet
    PROVE  \/ UNCHANGED <<files, provs, rows, job>>
           \/ \E p \in Removable : DeleteProvider(p) /\ UNCHANGED job
           \/ \E w \in Worker :
                 \/ \E deep, repair \in BOOLEAN, batch \in SUBSET NonLost(rows) :
                       StartScrub(w, deep, repair, batch)
                 \/ ScanStep(w) \/ RepairStep(w) \/ Elsewhere(w)
  <1>0. TypeOK
    BY DEF UploadInv
  <1>1. ASSUME NEW w \in Worker, NEW s, Become(w, s), RowsStay,
               s.op \notin {"scan", "repair", "fetch", "upload"}
        PROVE  Elsewhere(w)
    <2>1. job'[w] = s
      BY <1>0, <1>1, BecomeOne
    <2> QED
      BY <1>1, <2>1 DEF Elsewhere
  <1>2. UNCHANGED regVars => RowsStay
    BY DEF regVars, RowsStay
  <1>3. ASSUME NEW w \in Worker, PutStep(w)
        PROVE  Elsewhere(w)
    <2>1. ASSUME NEW f \in File, StartPut(w, f)
          PROVE  Elsewhere(w)
      BY <1>1, <1>2, <2>1 DEF StartPut
    <2>2. ASSUME NEW c \in Chunk, NEW p \in Provider, PutLands(w, c, p)
          PROVE  Elsewhere(w)
      <3>1. job[w] \in PutState
        BY <1>0, <2>2, JobStates DEF PutLands, Putting, TypeOK
      <3>2. PICK s : /\ Become(w, s)
                     /\ \/ s = [job[w] EXCEPT !.left = @ \ {c}, !.landed = {}]
                        \/ s = [job[w] EXCEPT !.landed = @ \cup {p}]
        BY <2>2 DEF PutLands
      <3>3. s.op = "put"
        BY <3>1, <3>2 DEF PutState
      <3> QED
        BY <1>1, <1>2, <2>2, <3>2, <3>3 DEF PutLands
    <2>3. ASSUME NEW c \in Chunk, NEW p \in Provider, PutFails(w, c, p)
          PROVE  Elsewhere(w)
      BY <1>1, <1>2, <2>3 DEF PutFails
    <2>4. ASSUME NEW c \in Chunk, NEW p \in Provider, CleanupOne(w, p, c)
          PROVE  Elsewhere(w)
      <3>1. job[w] \in CleanupState
        BY <1>0, <2>4, JobStates DEF CleanupOne, TypeOK
      <3>2. [job[w] EXCEPT !.uploaded = @ \ {<<p, c>>}].op = "cleanup"
        BY <3>1 DEF CleanupState
      <3> QED
        BY <1>1, <1>2, <2>4, <3>2 DEF CleanupOne
    <2>5. CASE EndCleanup(w) \/ (CommitPut(w) /\ UNCHANGED regVars)
      BY <1>1, <1>2, <2>5 DEF EndCleanup, CommitPut, Idle, Failed
    <2>6. ASSUME NEW n \in 1..MaxRows + 1, FileRecorded(w, n)
          PROVE  Elsewhere(w)
      <3> DEFINE placed == {<<o[2], o[1]>> : o \in Uploaded(w)}
      <3>1. /\ placed \in SUBSET (Chunk \X Provider) /\ IsNextId(n)
            /\ InsertFileWithManifest(job[w].file, n, placed)
        BY <1>0, <2>6, UploadedType DEF FileRecorded
      <3> HIDE DEF placed
      <3>2. PICK New \in SUBSET RowId : /\ \A i \in RowId \ New : rows'[i] = rows[i]
                                        /\ \A i \in New : rows[i] = NoRow
        BY <1>0, <3>1, InsertFacts
      <3>3. RowsStay
        BY <3>2 DEF RowsStay
      <3> QED
        BY <1>1, <2>6, <3>3 DEF FileRecorded, Idle
    <2>7. CASE CommitPut(w) /\ ~ UNCHANGED regVars
      BY <2>6, <2>7 DEF CommitPut, FileRecorded
    <2> QED
      BY <1>3, <2>1, <2>2, <2>3, <2>4, <2>5, <2>7 DEF PutStep
  <1>4. ASSUME NEW w \in Worker, RemoveStep(w)
        PROVE  Elsewhere(w)
    <2>1. ASSUME NEW i \in RowId, RemoveOne(w, i)
          PROVE  Elsewhere(w)
      <3>1. job[w] \in RemoveState
        BY <1>0, <2>1, JobStates DEF RemoveOne, TypeOK
      <3>2. [job[w] EXCEPT !.todo = @ \ {i}].op = "remove" /\ Failed.op = "failed"
        BY <3>1 DEF RemoveState, Failed
      <3>3. Become(w, [job[w] EXCEPT !.todo = @ \ {i}]) \/ Become(w, Failed)
        BY <2>1 DEF RemoveOne
      <3> QED
        BY <1>1, <1>2, <2>1, <3>2, <3>3 DEF RemoveOne
    <2>2. CASE EndRemove(w)
      <3>1. RowsStay
        BY <2>2 DEF EndRemove, DeleteFile, RowsStay
      <3> QED
        BY <1>1, <2>2, <3>1 DEF EndRemove, Idle
    <2>3. ASSUME NEW f \in File, StartRemove(w, f)
          PROVE  Elsewhere(w)
      BY <1>1, <1>2, <2>3 DEF StartRemove
    <2> QED
      BY <1>4, <2>1, <2>2, <2>3 DEF RemoveStep
  <1>5. ASSUME NEW w \in Worker, Crash(w)
        PROVE  Elsewhere(w)
    BY <1>1, <1>2, <1>5 DEF Crash, Failed
  <1>6. CASE Environment
    <2>1. ASSUME NEW p \in Provider, RemoveProvider(p)
          PROVE  p \in Removable /\ DeleteProvider(p) /\ UNCHANGED job
      BY <2>1 DEF RemoveProvider
    <2>2. CASE UNCHANGED <<regVars, job>>
      BY <2>2 DEF regVars
    <2> QED
      BY <1>6, <2>1, <2>2 DEF Environment, StrayPut, regVars
  <1>7. CASE UNCHANGED vars
    BY <1>7 DEF vars, regVars
  <1> QED
    BY <1>3, <1>4, <1>5, <1>6, <1>7 DEF Next, Scrub, Quiet

----------------------------------------------------------------------------
(* A scan judges the rows it has read.                                     *)

Justified(i) ==
    rows[i] # NoRow /\ rows'[i] # NoRow =>
        /\ rows[i].state = "suspect" /\ rows'[i].state = "stored"
              => Intact(rows[i].prov, rows[i].chunk)
        /\ rows[i].state = "stored" /\ rows'[i].state = "lost"
              => remote[rows[i].prov][rows[i].chunk] = "corrupt"

\* What a scan does to the row it looks at.
LEMMA ScanFacts ==
    ASSUME ScanInv, NEW w \in Worker, ScanStep(w)
    PROVE  \/ EndScan(w)
           \/ /\ job[w].op = "scan" /\ UNCHANGED <<files, provs>>
              /\ \E i \in job[w].todo :
                    /\ \A j \in RowId \ {i} : rows'[j] = rows[j]
                    /\ Justified(i)
                    /\ \/ job'[w].op = "failed"
                       \/ /\ job'[w].op = "scan" /\ job'[w].seen = job[w].seen
                          /\ job'[w].todo = job[w].todo \ {i}
  <1>0. TypeOK /\ ScanBooks
    BY DEF ScanInv, UploadInv
  <1>1. CASE EndScan(w)
    BY <1>1
  <1>2. ASSUME NEW i \in RowId, Scanning(w, i)
        PROVE  /\ job[w] \in ScanState /\ job[w].op = "scan" /\ i \in job[w].todo
               /\ rows[i] \in {job[w].seen[i], NoRow}
    BY <1>0, <1>2, JobStates DEF Scanning, TypeOK, ScanBooks
  <1>3. ASSUME NEW i \in RowId, Scanning(w, i), RowDone(w, i)
        PROVE  \/ job'[w].op = "failed"
               \/ /\ job'[w].op = "scan" /\ job'[w].seen = job[w].seen
                  /\ job'[w].todo = job[w].todo \ {i}
    <2> DEFINE s == [job[w] EXCEPT !.todo = @ \ {i}]
    <2>1. s.op = "scan" /\ s.seen = job[w].seen /\ s.todo = job[w].todo \ {i}
      BY <1>2, <1>3 DEF ScanState
    <2>2. Become(w, s) \/ Become(w, Failed)
      BY <1>3 DEF RowDone
    <2> HIDE DEF s
    <2>3. job'[w] = s \/ job'[w] = Failed
      BY <1>0, <2>2, BecomeOne
    <2> QED
      BY <2>1, <2>3 DEF Failed
  <1>4. ASSUME NEW i \in RowId, Scanning(w, i), NEW s \in State, Observe(w, i, s),
               LET r == job[w].seen[i]
               IN  /\ r.state = "suspect" /\ s = "stored" => Intact(r.prov, r.chunk)
                   /\ r.state = "stored" /\ s = "lost" => remote[r.prov][r.chunk] = "corrupt"
        PROVE  /\ \A j \in RowId \ {i} : rows'[j] = rows[j]
               /\ Justified(i)
               /\ UNCHANGED <<files, provs>>
               /\ \/ job'[w].op = "failed"
                  \/ /\ job'[w].op = "scan" /\ job'[w].seen = job[w].seen
                     /\ job'[w].todo = job[w].todo \ {i}
    <2>1. CASE CanSet(i, s)
      <3>1. SetReplicaState(i, s) /\ RowDone(w, i) /\ UNCHANGED <<files, provs>>
        BY <1>4, <2>1 DEF Observe
      <3>2. rows[i] \in Row /\ rows[i] # NoRow
        BY <1>0, <2>1 DEF CanSet, TypeOK, RegisterTypeOK, Snapshot
      <3>3. rows[i] = job[w].seen[i]
        BY <1>2, <1>4, <3>2
      <3>4. rows' = [rows EXCEPT ![i].state = s]
        BY <3>1 DEF SetReplicaState
      <3>5. rows'[i].state = s /\ \A j \in RowId \ {i} : rows'[j] = rows[j]
        BY <1>0, <3>2, <3>4 DEF TypeOK, RegisterTypeOK, Snapshot, Row
      <3>6. Justified(i)
        BY <1>4, <3>3, <3>5 DEF Justified
      <3> QED
        BY <1>3, <1>4, <3>1, <3>5, <3>6
    <2>2. CASE ~CanSet(i, s)
      <3>1. rows' = rows /\ Become(w, Failed) /\ UNCHANGED <<files, provs>>
        BY <1>4, <2>2 DEF Observe
      <3>2. job'[w] = Failed
        BY <1>0, <3>1, BecomeOne
      <3>3. Justified(i)
        BY <3>1 DEF Justified
      <3> QED
        BY <3>1, <3>2, <3>3 DEF Failed
    <2> QED
      BY <2>1, <2>2
  <1>5. \A st : Demotion(st) \in State /\ (st = "suspect" => Demotion(st) = "lost")
                /\ (st # "suspect" => Demotion(st) = "suspect")
    BY DEF Demotion, State
  <1>6. ASSUME NEW i \in RowId,
               \/ ProbeMissed(w, i) \/ DeepVerified(w, i) \/ DeepCorrupt(w, i) \/ DeepFailed(w, i)
               \/ ProbeFound(w, i) /\ Observe(w, i, "stored")
                  /\ job[w].seen[i].state \in {"stored", "pending"}
        PROVE  /\ Scanning(w, i)
               /\ \E s \in State : /\ Observe(w, i, s)
                                   /\ LET r == job[w].seen[i]
                                      IN  /\ r.state = "suspect" /\ s = "stored"
                                                => Intact(r.prov, r.chunk)
                                          /\ r.state = "stored" /\ s = "lost"
                                                => remote[r.prov][r.chunk] = "corrupt"
    <2>1. CASE ProbeMissed(w, i) \/ DeepFailed(w, i)
      BY <1>5, <2>1 DEF ProbeMissed, DeepFailed
    <2>2. CASE DeepVerified(w, i)
      BY <2>2 DEF DeepVerified, State
    <2>3. CASE DeepCorrupt(w, i)
      BY <2>3 DEF DeepCorrupt, State
    <2>4. CASE ProbeFound(w, i) /\ Observe(w, i, "stored")
               /\ job[w].seen[i].state \in {"stored", "pending"}
      BY <2>4 DEF ProbeFound, State
    <2> QED
      BY <1>6, <2>1, <2>2, <2>3, <2>4
  <1>7. ASSUME NEW i \in RowId, ProbeFound(w, i), RowDone(w, i), UNCHANGED regVars
        PROVE  /\ \A j \in RowId \ {i} : rows'[j] = rows[j]
               /\ Justified(i)
               /\ UNCHANGED <<files, provs>>
               /\ Scanning(w, i)
    BY <1>7 DEF ProbeFound, regVars, Justified
  <1>8. ASSUME NEW i \in RowId,
               \/ ProbeFound(w, i) \/ ProbeMissed(w, i) \/ DeepVerified(w, i)
               \/ DeepCorrupt(w, i) \/ DeepFailed(w, i)
        PROVE  /\ Scanning(w, i)
               /\ \A j \in RowId \ {i} : rows'[j] = rows[j]
               /\ Justified(i)
               /\ UNCHANGED <<files, provs>>
               /\ \/ job'[w].op = "failed"
                  \/ /\ job'[w].op = "scan" /\ job'[w].seen = job[w].seen
                     /\ job'[w].todo = job[w].todo \ {i}
    <2>1. CASE ProbeFound(w, i) /\ RowDone(w, i) /\ UNCHANGED regVars
      BY <1>3, <1>7, <2>1
    <2>2. CASE ~ (ProbeFound(w, i) /\ RowDone(w, i) /\ UNCHANGED regVars)
      <3>1. \/ ProbeMissed(w, i) \/ DeepVerified(w, i) \/ DeepCorrupt(w, i) \/ DeepFailed(w, i)
            \/ ProbeFound(w, i) /\ Observe(w, i, "stored")
               /\ job[w].seen[i].state \in {"stored", "pending"}
        BY <1>8, <2>2 DEF ProbeFound
      <3> QED
        BY <1>4, <1>6, <3>1
    <2> QED
      BY <2>1, <2>2
  <1> QED
    BY <1>1, <1>2, <1>8 DEF ScanStep

----------------------------------------------------------------------------
(* What a step of repair does, as far as its books go.                     *)

\* It takes a chunk up, leaves it, or goes on with it.
TakesChunk(w) ==
    /\ job[w].op = "repair" /\ job'[w].op = "fetch"
    /\ job'[w].seen = RowsOf(job'[w].chunk)
    /\ job[w].work = job'[w].work \cup {job'[w].chunk}
    /\ job'[w].report = job[w].report
LeavesChunk(w) ==
    /\ job[w].op \in {"fetch", "upload"} /\ job'[w].op = "repair"
    /\ job'[w].work = job[w].work
    /\ \/ job'[w].report = job[w].report \cup {job[w].chunk}
       \/ /\ job[w].op = "upload" /\ job[w].targets = {}
          /\ job'[w].report = job[w].report
KeepsChunk(w) ==
    /\ SameChunk(w) /\ job'[w].work = job[w].work
    /\ \/ /\ job[w].op = "fetch" /\ job'[w].op = "fetch"
          /\ job'[w].report = job[w].report
       \/ /\ job[w].op = "fetch" /\ job'[w].op = "upload"
          /\ job'[w].report = job[w].report /\ job'[w].stale = {}
          /\ Cardinality(InState(job[w].seen, job[w].chunk, "stored"))
               + Cardinality(job'[w].targets) >= ReplicaTarget
       \/ /\ job[w].op = "upload" /\ job'[w].op = "upload"
          /\ job'[w].report = job[w].report \cup {job[w].chunk}
          /\ job'[w].stale = job[w].stale
RetiresRow(w) ==
    /\ job[w].op = "upload" /\ job'[w].op = "upload" /\ SameChunk(w)
    /\ job'[w].work = job[w].work /\ job'[w].report = job[w].report
    /\ job'[w].targets = job[w].targets
    /\ UNCHANGED <<files, provs>>
    /\ \E i \in job[w].stale :
          /\ job'[w].stale = job[w].stale \ {i}
          /\ rows[i] # NoRow /\ rows'[i] # NoRow /\ rows'[i].state = "lost"
          /\ rows'[i].chunk = rows[i].chunk /\ rows'[i].prov = rows[i].prov
          /\ \A j \in RowId \ {i} : rows'[j] = rows[j]

RepairMove(w) ==
    \/ \E p \in Provider, n \in RowId : CopyRecorded(w, p, n)
    \/ RetiresRow(w)
    \/ /\ UNCHANGED regVars
       /\ \/ job'[w].op \in {"idle", "failed"}
          \/ TakesChunk(w) \/ LeavesChunk(w) \/ KeepsChunk(w)

LEMMA RepairMoves ==
    ASSUME TypeOK, NEW w \in Worker, RepairStep(w)
    PROVE  RepairMove(w)
  <1>1. ASSUME NEW c \in Chunk, RepairChunk(w, c)
        PROVE  RepairMove(w)
    <2> DEFINE s == [op |-> "fetch", handles |-> job[w].handles,
                     work |-> job[w].work \ {c}, report |-> job[w].report,
                     chunk |-> c, seen |-> RowsOf(c), todo |-> NonLost(RowsOf(c))]
    <2>1. /\ s.op = "fetch" /\ s.seen = RowsOf(s.chunk) /\ s.report = job[w].report
          /\ s.work = job[w].work \ {c} /\ s.chunk = c
      OBVIOUS
    <2>2. /\ Become(w, s) /\ UNCHANGED regVars
          /\ job[w].op = "repair" /\ c \in job[w].work
      BY <1>1 DEF RepairChunk
    <2> HIDE DEF s
    <2>3. job'[w] = s
      BY <2>2, BecomeOne
    <2> QED
      BY <2>1, <2>2, <2>3 DEF RepairMove, TakesChunk
  <1>2. ASSUME NEW failed \in BOOLEAN, NextChunk(w, failed), UNCHANGED regVars,
               job[w].op \in {"fetch", "upload"},
               failed \/ (job[w].op = "upload" /\ job[w].targets = {})
        PROVE  RepairMove(w)
    <2> DEFINE s == [op |-> "repair", handles |-> job[w].handles, work |-> job[w].work,
                     report |-> job[w].report
                                  \cup (IF failed THEN {job[w].chunk} ELSE {})]
    <2>1. /\ s.op = "repair" /\ s.work = job[w].work
          /\ failed => s.report = job[w].report \cup {job[w].chunk}
          /\ ~failed => s.report = job[w].report
      OBVIOUS
    <2>2. Become(w, s)
      BY <1>2 DEF NextChunk
    <2> HIDE DEF s
    <2>3. job'[w] = s
      BY <2>2, BecomeOne
    <2>4. CASE failed
      BY <1>2, <2>1, <2>3, <2>4 DEF RepairMove, LeavesChunk
    <2>5. CASE ~failed
      BY <1>2, <2>1, <2>3, <2>5 DEF RepairMove, LeavesChunk
    <2> QED
      BY <2>4, <2>5
  <1>3. ASSUME NEW i \in RowId, FetchMissed(w, i)
        PROVE  RepairMove(w)
    <2> DEFINE s == [job[w] EXCEPT !.todo = @ \ {i}]
    <2>1. job[w] \in FetchState /\ job[w].op = "fetch"
      BY <1>3, JobStates DEF FetchMissed, TypeOK
    <2>2. /\ s.op = "fetch" /\ s.chunk = job[w].chunk /\ s.seen = job[w].seen
          /\ s.work = job[w].work /\ s.report = job[w].report
      BY <2>1 DEF FetchState
    <2>3. Become(w, s) /\ UNCHANGED regVars
      BY <1>3 DEF FetchMissed
    <2> HIDE DEF s
    <2>4. job'[w] = s
      BY <2>3, BecomeOne
    <2> QED
      BY <2>1, <2>2, <2>3, <2>4 DEF RepairMove, KeepsChunk, SameChunk
  <1>4. ASSUME NEW i \in RowId, FetchHit(w, i)
        PROVE  RepairMove(w)
    <2> DEFINE have == Cardinality(InState(job[w].seen, job[w].chunk, "stored"))
    <2>1. job[w].op = "fetch" /\ UNCHANGED regVars
      BY <1>4 DEF FetchHit
    <2>2. ASSUME NEW T, have + Cardinality(T) >= ReplicaTarget,
                 Become(w, [op |-> "upload", handles |-> job[w].handles,
                            work |-> job[w].work, report |-> job[w].report,
                            chunk |-> job[w].chunk, seen |-> job[w].seen,
                            targets |-> T, stale |-> {}])
          PROVE  RepairMove(w)
      <3> DEFINE s == [op |-> "upload", handles |-> job[w].handles,
                       work |-> job[w].work, report |-> job[w].report,
                       chunk |-> job[w].chunk, seen |-> job[w].seen, targets |-> T, stale |-> {}]
      <3>1. /\ s.op = "upload" /\ s.chunk = job[w].chunk /\ s.seen = job[w].seen
            /\ s.work = job[w].work /\ s.report = job[w].report /\ s.targets = T
            /\ s.stale = {}
        OBVIOUS
      <3>2. Become(w, s)
        BY <2>2
      <3> HIDE DEF s
      <3>3. job'[w] = s
        BY <3>2, BecomeOne
      <3> QED
        BY <2>1, <2>2, <3>1, <3>3 DEF RepairMove, KeepsChunk, SameChunk
    <2>3. PICK usable \in Usable(job[w].handles \ (Existing(w) \cup Barred(w))) :
             LET fits == {T \in Selections(usable, have) : HasRoom(Cardinality(T))}
             IN  \/ \E T \in fits :
                       Become(w, [op |-> "upload", handles |-> job[w].handles,
                                  work |-> job[w].work, report |-> job[w].report,
                                  chunk |-> job[w].chunk, seen |-> job[w].seen,
                                  targets |-> T, stale |-> {}])
                 \/ fits = {} /\ NextChunk(w, TRUE)
      BY <1>4 DEF FetchHit
    <2>4. \A T \in Selections(usable, have) : have + Cardinality(T) >= ReplicaTarget
      BY DEF Selections
    <2> HIDE DEF have
    <2> QED
      BY <1>2, <2>1, <2>2, <2>3, <2>4
  <1>5. ASSUME NEW p \in Provider, UploadLands(w, p)
        PROVE  RepairMove(w)
    <2>1. CASE CanAddReplica(job[w].chunk, p)
      BY <1>5, <2>1 DEF UploadLands, AddReplica, CopyRecorded, RepairMove
    <2>2. CASE ~CanAddReplica(job[w].chunk, p)
      <3>1. Become(w, Failed) /\ UNCHANGED regVars
        BY <1>5, <2>2 DEF UploadLands, regVars
      <3>2. job'[w] = Failed
        BY <3>1, BecomeOne
      <3> QED
        BY <3>1, <3>2 DEF Failed, RepairMove
    <2> QED
      BY <2>1, <2>2
  <1>6. ASSUME NEW p \in Provider, UploadRaises(w, p)
        PROVE  RepairMove(w)
    <2> DEFINE s == [job[w] EXCEPT !.targets = @ \ {p}, !.report = @ \cup {job[w].chunk}]
    <2>1. job[w] \in UploadState /\ job[w].op = "upload"
      BY <1>6, JobStates DEF UploadRaises, TypeOK
    <2>2. /\ s.op = "upload" /\ s.chunk = job[w].chunk /\ s.seen = job[w].seen
          /\ s.work = job[w].work /\ s.report = job[w].report \cup {job[w].chunk}
          /\ s.stale = job[w].stale
      BY <2>1 DEF UploadState
    <2>3. Become(w, s) /\ UNCHANGED regVars
      BY <1>6 DEF UploadRaises
    <2> HIDE DEF s
    <2>4. job'[w] = s
      BY <2>3, BecomeOne
    <2> QED
      BY <2>1, <2>2, <2>3, <2>4 DEF RepairMove, KeepsChunk, SameChunk
  <1>7. CASE FetchExhausted(w) \/ EndUpload(w)
    BY <1>2, <1>7 DEF FetchExhausted, EndUpload
  <1>8. CASE EndRepair(w)
    <2>1. job'[w] = Idle /\ UNCHANGED regVars
      BY <1>8, BecomeOne DEF EndRepair
    <2> QED
      BY <2>1 DEF Idle, RepairMove
  <1>9. ASSUME NEW i \in RowId, Retire(w, i)
        PROVE  RepairMove(w)
    <2>1. job[w] \in UploadState /\ job[w].op = "upload" /\ i \in job[w].stale
          /\ UNCHANGED <<files, provs>>
      BY <1>9, JobStates DEF Retire, TypeOK
    <2>2. CASE Become(w, Failed) /\ UNCHANGED rows
      <3>1. job'[w] = Failed /\ UNCHANGED regVars
        BY <2>1, <2>2, BecomeOne DEF regVars
      <3> QED
        BY <3>1 DEF Failed, RepairMove
    <2>3. CASE /\ CanSet(i, "lost") /\ SetReplicaState(i, "lost")
               /\ Become(w, [job[w] EXCEPT !.stale = @ \ {i}])
      <3> DEFINE s == [job[w] EXCEPT !.stale = @ \ {i}]
      <3>1. /\ s.op = "upload" /\ s.chunk = job[w].chunk /\ s.seen = job[w].seen
            /\ s.work = job[w].work /\ s.report = job[w].report
            /\ s.targets = job[w].targets /\ s.stale = job[w].stale \ {i}
        BY <2>1 DEF UploadState
      <3>2. Become(w, s)
        BY <2>3
      <3> HIDE DEF s
      <3>3. job'[w] = s
        BY <3>2, BecomeOne
      <3>4. rows[i] # NoRow /\ rows[i] \in Row
        BY <2>3 DEF CanSet, TypeOK, RegisterTypeOK, Snapshot
      <3>5. /\ rows'[i] = [rows[i] EXCEPT !.state = "lost"]
            /\ \A j \in RowId \ {i} : rows'[j] = rows[j]
        BY <2>3 DEF SetReplicaState, TypeOK, RegisterTypeOK, Snapshot
      <3>6. /\ rows'[i] \in Row /\ rows'[i].state = "lost"
            /\ rows'[i].chunk = rows[i].chunk /\ rows'[i].prov = rows[i].prov
        BY <3>4, <3>5 DEF Row, State
      <3>7. rows'[i] # NoRow
        BY <3>6, ManifestAssumption
      <3>8. RetiresRow(w)
        BY <2>1, <3>1, <3>3, <3>4, <3>5, <3>6, <3>7 DEF RetiresRow, SameChunk
      <3> QED
        BY <3>8 DEF RepairMove
    <2> QED
      BY <1>9, <2>2, <2>3 DEF Retire
  <1> QED
    BY <1>1, <1>3, <1>4, <1>5, <1>6, <1>7, <1>8, <1>9 DEF RepairStep

\* What is on record of a chunk is what a query for it returns.
LEMMA RowsOfStates ==
    ASSUME TypeOK, NEW c, NEW s
    PROVE  /\ InState(RowsOf(c), c, s) = InState(rows, c, s)
           /\ \A i \in InState(rows, c, s) : RowsOf(c)[i] = rows[i]
  BY DEF InState, IdsOf, Ids, RowsOf

\* Between a scan's reads, and between repair's reads and its last upload, the
\* rows it goes by change only as its books allow.
LEMMA ScanBooksKept ==
    ASSUME ScanInv, UploadInv', [Next]_vars, Quiet
    PROVE  ScanBooks'
  <1>0. TypeOK /\ UploadInv /\ ScanBooks
    BY DEF ScanInv, UploadInv
  <1> SUFFICES ASSUME NEW v \in Worker
               PROVE  /\ job'[v].op = "scan" =>
                            \A i \in job'[v].todo : rows'[i] \in {job'[v].seen[i], NoRow}
                      /\ job'[v].op \in {"fetch", "upload"} =>
                            \A i \in InState(job'[v].seen, job'[v].chunk, "suspect") :
                               job'[v].seen[i].prov \in provs' =>
                                  /\ rows'[i] # NoRow /\ rows'[i].prov = job'[v].seen[i].prov
                                  /\ rows'[i].state \in {"suspect", "lost"}
                      /\ job'[v].op = "upload" =>
                            \A i \in job'[v].stale :
                               rows'[i] # NoRow => rows'[i].state \in {"suspect", "lost"}
    BY DEF ScanBooks
  <1>1. /\ job[v].op = "scan" =>
              /\ job[v].todo \in SUBSET RowId
              /\ \A i \in job[v].todo : rows[i] \in {job[v].seen[i], NoRow}
        /\ job[v].op \in {"fetch", "upload"} =>
              \A i \in InState(job[v].seen, job[v].chunk, "suspect") :
                 job[v].seen[i].prov \in provs =>
                    /\ rows[i] # NoRow /\ rows[i].prov = job[v].seen[i].prov
                    /\ rows[i].state \in {"suspect", "lost"}
        /\ job[v].op = "upload" =>
              /\ job[v].stale \in SUBSET RowId
              /\ \A i \in job[v].stale :
                    rows[i] # NoRow => rows[i].state \in {"suspect", "lost"}
    <2>1. /\ job[v].op = "scan" => job[v].todo \in SUBSET RowId
          /\ job[v].op = "upload" => job[v].stale \in SUBSET RowId
      BY <1>0, JobStates DEF TypeOK, ScanState, UploadState
    <2> QED
      BY <1>0, <2>1 DEF ScanBooks
  <1>2. \A t, c, s : \A i \in InState(t, c, s) : i \in RowId /\ t[i].state = s
    BY DEF InState, IdsOf, Ids
  <1>3. CASE UNCHANGED <<files, provs, rows, job>>
    BY <1>1, <1>3
  <1>4. ASSUME NEW p, DeleteProvider(p), UNCHANGED job
        PROVE  \A i \in RowId : \/ rows'[i] = NoRow /\ rows[i] # NoRow /\ rows[i].prov = p
                                \/ rows'[i] = rows[i]
    BY <1>4 DEF DeleteProvider, Ids
  <1>5. ASSUME NEW p, DeleteProvider(p), UNCHANGED job
        PROVE  provs' = provs \ {p}
    BY <1>5 DEF DeleteProvider
  <1>6. CASE \E p \in Removable : DeleteProvider(p) /\ UNCHANGED job
    BY <1>1, <1>2, <1>4, <1>5, <1>6
  <1>7. ASSUME NEW deep \in BOOLEAN, NEW repair \in BOOLEAN, NEW batch \in SUBSET NonLost(rows),
               StartScrub(v, deep, repair, batch)
        PROVE  job'[v].op = "scan" /\ job'[v].seen = rows /\ rows' = rows
    <2> DEFINE s == [op |-> "scan", deep |-> deep, repair |-> repair,
                     seen |-> rows, todo |-> batch]
    <2>1. s.op = "scan" /\ s.seen = rows
      OBVIOUS
    <2>2. Become(v, s) /\ rows' = rows
      BY <1>7 DEF StartScrub, regVars
    <2> HIDE DEF s
    <2> QED
      BY <1>0, <2>1, <2>2, BecomeOne
  <1>8. CASE ScanStep(v)
    <2>1. CASE EndScan(v)
      <3>1. PICK s : Become(v, s) /\ s.op \in {"repair", "idle"}
        BY <2>1 DEF EndScan, Idle
      <3>2. job'[v] = s
        BY <1>0, <3>1, BecomeOne
      <3> QED
        BY <3>1, <3>2
    <2>2. CASE /\ job[v].op = "scan"
               /\ \E i \in job[v].todo :
                     /\ \A j \in RowId \ {i} : rows'[j] = rows[j]
                     /\ \/ job'[v].op = "failed"
                        \/ /\ job'[v].op = "scan" /\ job'[v].seen = job[v].seen
                           /\ job'[v].todo = job[v].todo \ {i}
      BY <1>1, <2>2
    <2> QED
      BY <1>8, <2>1, <2>2, ScanFacts
  <1>9. CASE RepairMove(v)
    <2>1. ASSUME NEW p \in Provider, NEW n \in RowId, CopyRecorded(v, p, n)
          PROVE  /\ job[v].op = "upload" /\ job'[v].op = "upload" /\ SameChunk(v)
                 /\ provs' = provs /\ rows[n] = NoRow
                 /\ \A i \in RowId \ {n} : rows'[i] = rows[i]
                 /\ \A i \in job'[v].stale :
                       /\ i \in InState(job[v].seen, job[v].chunk, "suspect")
                       /\ job[v].seen[i].prov \in provs
      <3>1. /\ job[v].op = "upload" /\ p \in provs /\ provs' = provs
        BY <2>1 DEF CopyRecorded, CanAddReplica
      <3> QED
        BY <1>0, <2>1, <3>1, CopyFacts DEF SameChunk, Superseded
    <2>2. CASE \E p \in Provider, n \in RowId : CopyRecorded(v, p, n)
      <3>1. PICK n \in RowId :
               /\ job[v].op = "upload" /\ job'[v].op = "upload" /\ SameChunk(v)
               /\ provs' = provs /\ rows[n] = NoRow
               /\ \A i \in RowId \ {n} : rows'[i] = rows[i]
               /\ \A i \in job'[v].stale :
                     /\ i \in InState(job[v].seen, job[v].chunk, "suspect")
                     /\ job[v].seen[i].prov \in provs
        BY <2>1, <2>2
      <3>2. \A i \in InState(job[v].seen, job[v].chunk, "suspect") :
               job[v].seen[i].prov \in provs =>
                  /\ rows'[i] # NoRow /\ rows'[i].prov = job[v].seen[i].prov
                  /\ rows'[i].state \in {"suspect", "lost"}
        BY <1>1, <1>2, <3>1
      <3> QED
        BY <3>1, <3>2 DEF SameChunk
    <2>3. CASE RetiresRow(v)
      <3>1. PICK i \in job[v].stale :
               /\ job'[v].stale = job[v].stale \ {i}
               /\ rows[i] # NoRow /\ rows'[i] # NoRow /\ rows'[i].state = "lost"
               /\ rows'[i].prov = rows[i].prov
               /\ \A j \in RowId \ {i} : rows'[j] = rows[j]
        BY <2>3 DEF RetiresRow
      <3>2. job[v].op = "upload" /\ job'[v].op = "upload" /\ SameChunk(v) /\ provs' = provs
        BY <2>3 DEF RetiresRow
      <3> QED
        BY <1>1, <1>2, <3>1, <3>2 DEF SameChunk
    <2>4. CASE UNCHANGED regVars /\ job'[v].op = "fetch" /\ job'[v].seen = RowsOf(job'[v].chunk)
      <3>1. PICK c : c = job'[v].chunk
        OBVIOUS
      <3>2. \A i \in InState(RowsOf(c), c, "suspect") :
               /\ RowsOf(c)[i] = rows[i] /\ rows[i] # NoRow /\ rows[i].state = "suspect"
        BY <1>0, RowsOfStates DEF InState, IdsOf, Ids
      <3> QED
        BY <2>4, <3>1, <3>2 DEF regVars
    <2>5. CASE /\ UNCHANGED regVars /\ SameChunk(v)
               /\ job[v].op \in {"fetch", "upload"}
               /\ job'[v].op \in {"fetch", "upload"}
               /\ job'[v].op = "upload" =>
                     \/ job'[v].stale = {}
                     \/ job[v].op = "upload" /\ job'[v].stale = job[v].stale
      <3>1. /\ rows' = rows /\ provs' = provs
            /\ job'[v].seen = job[v].seen /\ job'[v].chunk = job[v].chunk
        BY <2>5 DEF regVars, SameChunk
      <3>2. \A i \in InState(job'[v].seen, job'[v].chunk, "suspect") :
               job'[v].seen[i].prov \in provs' =>
                  /\ rows'[i] # NoRow /\ rows'[i].prov = job'[v].seen[i].prov
                  /\ rows'[i].state \in {"suspect", "lost"}
        BY <1>1, <2>5, <3>1
      <3>3. job'[v].op = "upload" =>
               \A i \in job'[v].stale :
                  rows'[i] # NoRow => rows'[i].state \in {"suspect", "lost"}
        BY <1>1, <2>5, <3>1
      <3> QED
        BY <2>5, <3>2, <3>3
    <2>6. CASE job'[v].op \in {"idle", "failed", "repair"}
      BY <2>6
    <2> QED
      BY <1>9, <2>2, <2>3, <2>4, <2>5, <2>6 DEF RepairMove, TakesChunk, LeavesChunk, KeepsChunk
  <1>10. CASE Elsewhere(v)
    BY <1>10 DEF Elsewhere
  <1>11. \A w \in Worker : w = v
    BY DEF Quiet, OneWorker
  <1>12. CASE \E deep, repair \in BOOLEAN, batch \in SUBSET NonLost(rows) :
                 StartScrub(v, deep, repair, batch)
    <2>1. job'[v].op = "scan" /\ job'[v].seen = rows /\ rows' = rows
      BY <1>7, <1>12
    <2> QED
      BY <2>1
  <1>13. RepairStep(v) => RepairMove(v)
    BY <1>0, RepairMoves
  <1> QED
    BY <1>0, <1>3, <1>6, <1>8, <1>9, <1>10, <1>11, <1>12, <1>13, QuietSteps

LEMMA ScanInvHolds == ASSUME Quiet PROVE Spec => []ScanInv
  <1>1. Init /\ UploadInv => ScanInv
    BY DEF Init, JobsInit, Idle, ScanInv, ScanBooks
  <1>2. ScanInv /\ UploadInv' /\ [Next]_vars => ScanInv'
    BY ScanBooksKept DEF ScanInv
  <1> QED
    BY <1>1, <1>2, UploadInvHolds, PTL DEF Spec

\* Every row that is judged is judged by what its provider just did.
LEMMA RowsJustified ==
    ASSUME ScanInv, [Next]_vars, Quiet, NEW i \in RowId
    PROVE  Justified(i)
  <1>0. TypeOK /\ UploadInv /\ ScanBooks
    BY DEF ScanInv, UploadInv
  <1>1. CASE rows'[i] \in {rows[i], NoRow}
    BY <1>1 DEF Justified
  <1>2. CASE rows' = rows
    BY <1>1, <1>2
  <1>3. ASSUME NEW p, DeleteProvider(p)
        PROVE  Justified(i)
    BY <1>1, <1>3 DEF DeleteProvider
  <1>4. ASSUME NEW w \in Worker, \E deep, repair \in BOOLEAN, batch \in SUBSET NonLost(rows) :
                                    StartScrub(w, deep, repair, batch)
        PROVE  Justified(i)
    BY <1>2, <1>4 DEF StartScrub, regVars
  <1>5. ASSUME NEW w \in Worker, ScanStep(w)
        PROVE  Justified(i)
    <2>1. EndScan(w) => rows' = rows
      BY DEF EndScan, regVars
    <2>2. EndScan(w) \/ \E j \in job[w].todo : (\A k \in RowId \ {j} : rows'[k] = rows[k])
                                               /\ Justified(j)
      BY <1>5, ScanFacts
    <2> QED
      BY <1>1, <1>2, <2>1, <2>2
  <1>6. ASSUME NEW w \in Worker, RepairStep(w)
        PROVE  Justified(i)
    <2>1. RepairMove(w)
      BY <1>0, <1>6, RepairMoves
    <2>2. CASE UNCHANGED regVars
      BY <1>2, <2>2 DEF regVars
    <2>3. ASSUME NEW p \in Provider, NEW n \in RowId, CopyRecorded(w, p, n)
          PROVE  Justified(i)
      <3>1. rows[n] = NoRow /\ \A j \in RowId \ {n} : rows'[j] = rows[j]
        BY <1>0, <2>3, CopyFacts
      <3> QED
        BY <1>1, <3>1 DEF Justified
    <2>4. CASE RetiresRow(w)
      <3>1. PICK j \in job[w].stale : /\ rows[j] # NoRow /\ rows'[j].state = "lost"
                                      /\ \A k \in RowId \ {j} : rows'[k] = rows[k]
        BY <2>4 DEF RetiresRow
      <3>2. rows[j].state \in {"suspect", "lost"}
        BY <1>0, <2>4, <3>1 DEF RetiresRow, ScanBooks
      <3> QED
        BY <1>1, <3>1, <3>2 DEF Justified
    <2> QED
      BY <2>1, <2>2, <2>3, <2>4 DEF RepairMove
  <1>7. ASSUME NEW w \in Worker, Elsewhere(w)
        PROVE  Justified(i)
    BY <1>7 DEF Elsewhere, RowsStay, Justified
  <1> QED
    BY <1>0, <1>2, <1>3, <1>4, <1>5, <1>6, <1>7, QuietSteps

\* With one worker and no download beside it: suspicion is cleared by seeing
\* the bytes, never by exists() alone.
THEOREM BytesClearSuspicion == ASSUME Quiet PROVE Spec => SuspicionNeedsBytes
  <1>1. ScanInv /\ [Next]_vars =>
           \A i \in RowId :
              SameRow(i) /\ rows[i].state = "suspect" /\ rows'[i].state = "stored"
                  => Intact(rows[i].prov, rows[i].chunk)
    BY RowsJustified DEF Justified, SameRow, Ids
  <1> QED
    BY <1>1, ScanInvHolds, PTL DEF Spec, SuspicionNeedsBytes

\* With one worker and no download beside it: a stored row is written off at
\* once only for wrong bytes.
THEOREM TwoStrikesAndOut == ASSUME Quiet PROVE Spec => TwoStrikes
  <1>1. ScanInv /\ [Next]_vars =>
           \A i \in RowId :
              SameRow(i) /\ rows[i].state = "stored" /\ rows'[i].state = "lost"
                  => remote[rows[i].prov][rows[i].chunk] = "corrupt"
    BY RowsJustified DEF Justified, SameRow, Ids
  <1> QED
    BY <1>1, ScanInvHolds, PTL DEF Spec, TwoStrikes

----------------------------------------------------------------------------
(* Repair loses sight of no chunk.                                         *)

LEMMA LiveType ==
    ASSUME NEW c
    PROVE  IsFiniteSet(InState(rows, c, "stored")) /\ Live(c) \in Nat
  <1>1. InState(rows, c, "stored") \subseteq RowId
    BY DEF InState, IdsOf, Ids
  <1>2. IsFiniteSet(RowId)
    BY ManifestAssumption, FS_Interval DEF RowId
  <1> QED
    BY <1>1, <1>2, FS_Subset, FS_CardinalityType DEF Live

\* A recorded copy is one live copy more of its chunk, and no chunk's loss.
LEMMA CopyCounts ==
    ASSUME ScanInv, NEW w \in Worker, NEW p \in Provider, NEW n \in RowId,
           CopyRecorded(w, p, n), NEW c \in Chunk
    PROVE  /\ Live(c) \in Nat /\ Live(c)' \in Nat /\ Live(c) <= Live(c)'
           /\ c = job[w].chunk => Live(c) + 1 <= Live(c)'
  <1>0. TypeOK /\ ScanBooks /\ job[w].op = "upload"
    BY DEF ScanInv, UploadInv, CopyRecorded
  <1>3. /\ rows[n] = NoRow /\ rows'[n] # NoRow /\ rows'[n].chunk = job[w].chunk
        /\ rows'[n].state = "stored"
        /\ \A i \in RowId \ {n} : rows'[i] = rows[i]
    BY <1>0, CopyFacts
  <1> DEFINE S == InState(rows, c, "stored")
             T == InState(rows, c, "stored")'
  <1>4. S \subseteq T
    BY <1>3 DEF InState, IdsOf, Ids
  <1>5. c = job[w].chunk => n \in T /\ n \notin S
    BY <1>3 DEF InState, IdsOf, Ids
  <1>6. IsFiniteSet(S) /\ IsFiniteSet(T)
    <2>1. S \subseteq RowId /\ T \subseteq RowId
      BY DEF InState, IdsOf, Ids
    <2>2. IsFiniteSet(RowId)
      BY ManifestAssumption, FS_Interval DEF RowId
    <2> HIDE DEF S, T
    <2> QED
      BY <2>1, <2>2, FS_Subset
  <1> HIDE DEF S, T
  <1>7. /\ Cardinality(S) \in Nat /\ Cardinality(T) \in Nat
        /\ Cardinality(S) <= Cardinality(T)
    BY <1>4, <1>6, FS_Subset, FS_CardinalityType
  <1>8. ASSUME c = job[w].chunk
        PROVE  Cardinality(S) + 1 <= Cardinality(T)
    <2>1. Cardinality(S \cup {n}) = Cardinality(S) + 1
      BY <1>5, <1>6, <1>8, FS_AddElement
    <2>2. S \cup {n} \subseteq T
      BY <1>4, <1>5, <1>8
    <2>3. Cardinality(S \cup {n}) <= Cardinality(T)
      BY <1>6, <2>2, FS_Subset
    <2> QED
      BY <2>1, <2>3
  <1> QED
    BY <1>7, <1>8 DEF S, T, Live

\* The books of repair add up after each of its steps.
LEMMA AccountsKept ==
    ASSUME AccountInv, NEW w \in Worker, RepairMove(w)
    PROVE  AccountBooks(w)' /\ Listed(w)'
  <1>0. TypeOK /\ AccountBooks(w) /\ Listed(w) /\ ScanInv
    BY DEF AccountInv, ScanInv, UploadInv
  <1>1. ASSUME NEW p \in Provider, NEW n \in RowId, CopyRecorded(w, p, n)
        PROVE  AccountBooks(w)' /\ Listed(w)'
    <2>1. job[w] \in UploadState /\ job[w].op = "upload" /\ p \in job[w].targets
      BY <1>0, <1>1, JobStates DEF CopyRecorded, TypeOK
    <2>3. /\ job'[w].op = "upload" /\ job'[w].chunk = job[w].chunk
          /\ job'[w].work = job[w].work /\ job'[w].report = job[w].report
          /\ job'[w].targets = job[w].targets \ {p}
      BY <1>0, <1>1, CopyFacts
    <2>4. PICK c \in Chunk : c = job[w].chunk
      BY <2>1 DEF UploadState
    <2>5. \A d \in Chunk : /\ Live(d) \in Nat /\ Live(d)' \in Nat /\ Live(d) <= Live(d)'
                           /\ d = c => Live(d) + 1 <= Live(d)'
      BY <1>0, <1>1, <2>4, CopyCounts
    <2>6. ChunksBelowFloor' \subseteq ChunksBelowFloor
      <3>1. files' = files
        BY <1>1 DEF CopyRecorded
      <3> QED
        BY <2>5, <3>1, ManifestAssumption DEF ChunksBelowFloor
    <2>7. Listed(w)'
      BY <1>0, <2>1, <2>3, <2>6 DEF Listed
    <2>8. /\ Cardinality(job[w].targets) \in Nat
          /\ Cardinality(job'[w].targets) = Cardinality(job[w].targets) - 1
      <3>1. IsFiniteSet(job[w].targets)
        BY <2>1, ManifestAssumption, FS_Subset DEF UploadState
      <3> QED
        BY <2>1, <2>3, <3>1, FS_RemoveElement, FS_CardinalityType
    <2>9. \/ c \in job'[w].report
          \/ Live(c)' + Cardinality(job'[w].targets) >= ReplicaTarget
      <3>1. c \in job[w].report \/ Live(c) + Cardinality(job[w].targets) >= ReplicaTarget
        BY <1>0, <2>1, <2>4 DEF AccountBooks
      <3> QED
        BY <2>3, <2>5, <2>8, <3>1, ManifestAssumption
    <2> QED
      BY <2>3, <2>4, <2>7, <2>9 DEF AccountBooks
  <1>2. CASE RetiresRow(w)
    <2>1. PICK i \in job[w].stale :
             /\ rows[i] # NoRow /\ rows'[i] # NoRow /\ rows'[i].state = "lost"
             /\ \A j \in RowId \ {i} : rows'[j] = rows[j]
      BY <1>2 DEF RetiresRow
    <2>2. rows[i].state # "stored"
      BY <1>0, <1>2, <2>1 DEF RetiresRow, ScanInv, ScanBooks
    <2>3. \A c : InState(rows, c, "stored")' = InState(rows, c, "stored")
      BY <2>1, <2>2 DEF InState, IdsOf, Ids
    <2>4. (\A c : Live(c)' = Live(c)) /\ ChunksBelowFloor' = ChunksBelowFloor
      BY <1>2, <2>3 DEF RetiresRow, Live, ChunksBelowFloor
    <2>5. AccountBooks(w)'
      BY <1>0, <1>2, <2>4 DEF RetiresRow, SameChunk, AccountBooks
    <2>6. Listed(w)'
      BY <1>0, <1>2, <2>4 DEF RetiresRow, SameChunk, Listed
    <2> QED
      BY <2>5, <2>6
  <1>3. CASE UNCHANGED regVars
    <2>1. /\ \A c : Live(c)' = Live(c) /\ RowsOf(c)' = RowsOf(c)
          /\ ChunksBelowFloor' = ChunksBelowFloor
      BY <1>3 DEF regVars, Live, InState, IdsOf, Ids, RowsOf, ChunksBelowFloor
    <2>2. CASE job'[w].op \in {"idle", "failed"}
      BY <2>2 DEF AccountBooks, Listed
    <2>3. CASE TakesChunk(w)
      <3>1. PICK c : c = job'[w].chunk
        OBVIOUS
      <3>2. AccountBooks(w)'
        BY <2>1, <2>3, <3>1 DEF AccountBooks, TakesChunk
      <3>3. Listed(w)'
        BY <1>0, <2>1, <2>3, <3>1 DEF Listed, TakesChunk
      <3> QED
        BY <3>2, <3>3
    <2>4. CASE LeavesChunk(w)
      <3>1. AccountBooks(w)'
        BY <2>4 DEF AccountBooks, LeavesChunk
      <3>2. ASSUME job[w].op = "upload", job[w].targets = {}, job[w].chunk \notin job[w].report
            PROVE  job[w].chunk \notin ChunksBelowFloor
        <4>1. Live(job[w].chunk) + Cardinality(job[w].targets) >= ReplicaTarget
          BY <1>0, <3>2 DEF AccountBooks
        <4>2. Cardinality(job[w].targets) = 0
          BY <3>2, FS_EmptySet
        <4>3. Live(job[w].chunk) \in Nat
          BY LiveType
        <4> QED
          BY <4>1, <4>2, <4>3, ManifestAssumption DEF ChunksBelowFloor
      <3>3. Listed(w)'
        BY <1>0, <2>1, <2>4, <3>2 DEF Listed, LeavesChunk
      <3> QED
        BY <3>1, <3>3
    <2>5. CASE KeepsChunk(w)
      <3>1. PICK c : c = job[w].chunk /\ c = job'[w].chunk
        BY <2>5 DEF KeepsChunk, SameChunk
      <3>2. Listed(w)'
        BY <1>0, <2>1, <2>5, <3>1 DEF Listed, KeepsChunk
      <3>3. CASE job'[w].op = "fetch"
        BY <1>0, <2>1, <2>5, <3>1, <3>2, <3>3 DEF AccountBooks, KeepsChunk, SameChunk
      <3>4. CASE job[w].op = "fetch" /\ job'[w].op = "upload"
        <4>1. Cardinality(InState(job[w].seen, job[w].chunk, "stored")) = Live(c)
          BY <1>0, <3>1, <3>4, RowsOfStates DEF AccountBooks, Live
        <4> QED
          BY <2>1, <2>5, <3>1, <3>2, <3>4, <4>1 DEF AccountBooks, KeepsChunk
      <3>5. CASE job[w].op = "upload"
        BY <2>5, <3>1, <3>2, <3>5 DEF AccountBooks, KeepsChunk
      <3> QED
        BY <2>5, <3>2, <3>3, <3>4, <3>5 DEF KeepsChunk
    <2> QED
      BY <1>1, <1>2, <1>3, <2>2, <2>3, <2>4, <2>5 DEF RepairMove
  <1> QED
    BY <1>1, <1>2, <1>3 DEF RepairMove

\* With one worker, no download beside it and no removal of a provider: while
\* repair works, every chunk below its floor is on its list, being handled, or
\* reported as unrepairable.
THEOREM RepairAccounts ==
    ASSUME Quiet, Removable = {} PROVE Spec => []RepairAccountsForAll
  <1>1. Init /\ ScanInv => AccountInv
    BY DEF Init, JobsInit, Idle, AccountInv, AccountBooks, Listed
  <1>2. AccountInv /\ ScanInv' /\ [Next]_vars => AccountInv'
    <2> SUFFICES ASSUME AccountInv, ScanInv', [Next]_vars, NEW v \in Worker
                 PROVE  AccountBooks(v)' /\ Listed(v)'
      BY DEF AccountInv
    <2>0. UploadInv /\ TypeOK /\ ScanInv /\ AccountBooks(v) /\ Listed(v)
      BY DEF AccountInv, ScanInv, UploadInv
    <2>1. CASE UNCHANGED <<files, provs, rows, job>>
      BY <2>0, <2>1 DEF AccountBooks, Listed, Live, InState, IdsOf, Ids, RowsOf,
                        ChunksBelowFloor
    <2>2. ASSUME job'[v].op \notin {"repair", "fetch", "upload"}
          PROVE  AccountBooks(v)' /\ Listed(v)'
      BY <2>2 DEF AccountBooks, Listed
    <2>3. CASE RepairStep(v)
      BY <2>0, <2>3, RepairMoves, AccountsKept
    <2>4. CASE ScanStep(v) /\ ~EndScan(v)
      BY <2>0, <2>2, <2>4, ScanFacts
    <2>5. CASE EndScan(v)
      <3>1. PICK s : /\ Become(v, s)
                     /\ s.op # "idle" => s.op = "repair" /\ s.work = ChunksBelowFloor
        BY <2>5 DEF EndScan, Idle
      <3>2. job'[v] = s
        BY <2>0, <3>1, BecomeOne
      <3>3. ChunksBelowFloor' = ChunksBelowFloor
        BY <2>5 DEF EndScan, regVars, ChunksBelowFloor, Live, InState, IdsOf, Ids
      <3> QED
        BY <3>1, <3>2, <3>3 DEF AccountBooks, Listed
    <2>6. CASE \E deep, repair \in BOOLEAN, batch \in SUBSET NonLost(rows) :
                  StartScrub(v, deep, repair, batch)
      <3>1. PICK s : Become(v, s) /\ s.op = "scan"
        BY <2>6 DEF StartScrub
      <3> QED
        BY <2>0, <2>2, <3>1, BecomeOne
    <2>7. CASE Elsewhere(v)
      BY <2>2, <2>7 DEF Elsewhere
    <2>8. \A w \in Worker : w = v
      BY DEF Quiet, OneWorker
    <2> QED
      BY <2>0, <2>1, <2>3, <2>4, <2>5, <2>6, <2>7, <2>8, QuietSteps
  <1>3. AccountInv => RepairAccountsForAll
    BY DEF AccountInv, RepairAccountsForAll, Listed
  <1> QED
    BY <1>1, <1>2, <1>3, ScanInvHolds, PTL DEF Spec

----------------------------------------------------------------------------
(* What a removal has to find.                                             *)

HasRow(c, p) == \E i \in Ids(rows) : rows[i].chunk = c /\ rows[i].prov = p

\* An upload only touches the places of its plan, repair only chunks of files
\* that are there, and a removal has still to visit every object of its file,
\* but for those that a crash has left without a row.
Tidy(s) ==
    /\ s.op = "put" =>
          /\ s.file \in used \ files
          /\ \A c \in ChunksOf(s.file), p \in Provider : Exists(p, c) => p \in s.plan[GroupOf(c)]
    /\ s.op \in {"repair", "fetch", "upload"} => \A c \in s.work : FileOf[c] \in files
    /\ s.op \in {"fetch", "upload"} => FileOf[s.chunk] \in files
    /\ s.op = "upload" => HasRoom(Cardinality(s.targets))
    /\ s.op = "remove" =>
          /\ s.file \in files /\ \A i \in s.todo : s.seen[i] \in Row
          /\ \A c \in ChunksOf(s.file), p \in provs \ Flaky :
                \/ Exists(p, c) => \E i \in s.todo : s.seen[i].chunk = c /\ s.seen[i].prov = p
                \/ CrashProne # {} /\ ~HasRow(c, p)

\* Without crashes, what is at a provider that never fails, of a file that is
\* there, has a row.
Registered ==
    CrashProne = {} => \A c \in Chunk, p \in provs \ Flaky :
        FileOf[c] \in files /\ Exists(p, c) =>
            \E i \in Ids(rows) : rows[i].chunk = c /\ rows[i].prov = p

\* Objects, finished or still under way, belong to files whose upload has begun.
Begun ==
    /\ files \subseteq used
    /\ \A p \in Provider, c \in Chunk : remote[p][c] # "never" => FileOf[c] \in used
    /\ \A o \in stray :
          /\ FileOf[o[2]] \in used \ files
          /\ \A w \in Worker : job[w].op = "put" => job[w].file # FileOf[o[2]]

TidyInv == TypeOK /\ Begun /\ Registered /\ \A w \in Worker : Tidy(job[w])

----------------------------------------------------------------------------
(* Steps that make no object.                                              *)

\* Rows go only with their provider.
RowsKept ==
    /\ NoneFilled /\ provs' \subseteq provs
    /\ \A i \in Ids(rows) : rows[i].prov \in provs' => rows'[i] # NoRow
    /\ \A i \in Ids(rows) : rows'[i] # NoRow =>
          rows'[i].chunk = rows[i].chunk /\ rows'[i].prov = rows[i].prov
NothingMade ==
    \A p \in Provider, c \in Chunk :
        /\ Exists(p, c)' => Exists(p, c)
        /\ remote'[p][c] # "never" => remote[p][c] # "never"
StillThere == RowsKept /\ NothingMade /\ UNCHANGED <<files, used>> /\ stray' \subseteq stray

LEMMA StaysTidy ==
    ASSUME TypeOK, TypeOK', StillThere, NEW s \in JobState, Tidy(s)
    PROVE  Tidy(s)'
  <1>1. s.op = "put" => s.plan \in [Group -> SUBSET Provider]
    BY JobStates DEF PutState
  <1>2. \A k : HasRoom(k) => HasRoom(k)'
    BY DEF StillThere, RowsKept, NoneFilled, HasRoom
  <1>3. provs' \subseteq provs /\ provs \subseteq Provider /\ used' = used /\ files' = files
    BY DEF StillThere, RowsKept, TypeOK, RegisterTypeOK
  <1>4. \A p \in Provider, c \in Chunk : Exists(p, c)' => Exists(p, c)
    BY DEF StillThere, NothingMade
  <1>5. s.op = "remove" => \A c \in ChunksOf(s.file) : c \in Chunk
    BY DEF ChunksOf
  <1>6. \A f : \A c \in ChunksOf(f) : c \in Chunk
    BY DEF ChunksOf
  <1>7. \A c, p : HasRow(c, p)' => HasRow(c, p)
    BY DEF HasRow, StillThere, RowsKept, NoneFilled, Ids
  <1> QED
    BY <1>2, <1>3, <1>4, <1>6, <1>7 DEF Tidy

LEMMA StillTidy ==
    ASSUME TidyInv, TypeOK', StillThere,
           \A w \in Worker : \/ job'[w] = job[w]
                             \/ job'[w].op # "put" /\ Tidy(job[w])'
    PROVE  TidyInv'
  <1>0. TypeOK /\ Begun /\ Registered
    BY DEF TidyInv
  <1>1. ASSUME NEW w \in Worker
        PROVE  Tidy(job[w])'
    <2>1. CASE job'[w] = job[w]
      <3>1. PICK s \in JobState : s = job[w]
        BY <1>0 DEF TypeOK
      <3>2. Tidy(s)'
        BY <1>0, <3>1, StaysTidy DEF TidyInv
      <3>3. job'[w] = s
        BY <2>1, <3>1
      <3> QED
        BY <3>2, <3>3 DEF Tidy
    <2> QED
      BY <2>1
  <1>2. Begun'
    BY <1>0 DEF Begun, StillThere, NothingMade
  <1>3. Registered'
    <2> SUFFICES ASSUME CrashProne = {}, NEW c \in Chunk, NEW p \in provs' \ Flaky,
                        FileOf[c] \in files', Exists(p, c)'
                 PROVE  \E i \in Ids(rows)' : rows'[i].chunk = c /\ rows'[i].prov = p
      BY DEF Registered
    <2>1. p \in provs \ Flaky /\ p \in Provider /\ FileOf[c] \in files
      BY <1>0 DEF StillThere, RowsKept, TypeOK, RegisterTypeOK
    <2>2. Exists(p, c)
      BY <2>1 DEF StillThere, NothingMade
    <2>3. PICK i \in Ids(rows) : rows[i].chunk = c /\ rows[i].prov = p
      BY <1>0, <2>1, <2>2 DEF Registered
    <2>4. rows'[i] # NoRow /\ rows'[i].chunk = c /\ rows'[i].prov = p
      BY <2>3 DEF StillThere, RowsKept
    <2> QED
      BY <2>3, <2>4 DEF Ids
  <1> QED
    BY <1>1, <1>2, <1>3 DEF TidyInv

\* Setting a state keeps every row.
LEMMA SettingKeepsRows ==
    ASSUME TypeOK, NEW i \in RowId, NEW s \in State, UNCHANGED provs,
           UNCHANGED rows \/ (CanSet(i, s) /\ SetReplicaState(i, s))
    PROVE  RowsKept
  <1>1. NoneFilled
    BY SetStateFillsNone
  <1>2. CASE UNCHANGED rows
    BY <1>1, <1>2 DEF RowsKept, Ids
  <1>3. CASE CanSet(i, s) /\ SetReplicaState(i, s)
    <2>1. rows[i] \in Row /\ rows[i] # NoRow
      BY <1>3 DEF CanSet, TypeOK, RegisterTypeOK, Snapshot
    <2>2. /\ [rows[i] EXCEPT !.state = s] \in Row
          /\ [rows[i] EXCEPT !.state = s].chunk = rows[i].chunk
          /\ [rows[i] EXCEPT !.state = s].prov = rows[i].prov
      BY <2>1 DEF Row
    <2>3. rows'[i] = [rows[i] EXCEPT !.state = s] /\ \A j \in RowId \ {i} : rows'[j] = rows[j]
      BY <1>3 DEF SetReplicaState, TypeOK, RegisterTypeOK, Snapshot
    <2>4. rows'[i] # NoRow
      BY <2>2, <2>3, ManifestAssumption
    <2> QED
      BY <1>1, <2>2, <2>3, <2>4 DEF RowsKept, Ids
  <1> QED
    BY <1>2, <1>3

\* Nor does a step that leaves the register alone lose one; and what puts no
\* object, deletes or damages one makes none.
LEMMA NothingChanges == ASSUME UNCHANGED regVars PROVE RowsKept
  BY DEF regVars, RowsKept, NoneFilled, Ids
LEMMA NothingPut == ASSUME UNCHANGED remoteVars PROVE NothingMade
  BY DEF remoteVars, NothingMade, Exists
LEMMA DeleteMakesNothing ==
    ASSUME TypeOK, NEW p \in Provider, NEW c \in Chunk, Delete(p, c)
    PROVE  NothingMade /\ (p \notin Flaky => ~Exists(p, c)')
    BY DEF Delete, WithDelete, NothingMade, Exists, TypeOK, RemoteTypeOK
LEMMA DamageMakesNothing ==
    ASSUME TypeOK, NEW p \in Provider, NEW c \in Chunk, Damage(p, c)
    PROVE  NothingMade
    BY DEF Damage, NothingMade, Exists, Intact, TypeOK, RemoteTypeOK

\* A put touches one object.
LEMMA PutMakesOne ==
    ASSUME TypeOK, NEW p \in Provider, NEW c \in Chunk, Put(p, c) \/ PutRaises(p, c)
    PROVE  /\ \A q \in Provider, d \in Chunk :
                 q # p \/ d # c => remote'[q][d] = remote[q][d]
           /\ UNCHANGED faults
  <1>1. CASE remote' = remote
    BY <1>1 DEF Put, PutRaises
  <1>2. CASE remote' = WithPut({<<p, c>>})
    BY <1>2 DEF WithPut, Put, PutRaises
  <1> QED
    BY <1>1, <1>2 DEF Put, PutRaises

LEMMA ScanIsTidy ==
    ASSUME TidyInv, TypeOK', NEW w \in Worker, ScanStep(w), UNCHANGED pipeVars, OneWorker
    PROVE  TidyInv'
  <1>0. TypeOK
    BY DEF TidyInv
  <1>1. ASSUME NEW s, Become(w, s), s.op \notin {"put", "repair", "fetch", "upload", "remove"},
               RowsKept, UNCHANGED <<files, remoteVars>>
        PROVE  TidyInv'
    <2>1. job'[w] = s /\ \A v \in Worker : v = w
      BY <1>0, <1>1, BecomeOne DEF OneWorker
    <2>2. StillThere
      BY <1>1, NothingPut DEF StillThere, pipeVars
    <2>3. Tidy(job[w])' /\ job'[w].op # "put"
      BY <1>1, <2>1 DEF Tidy
    <2> QED
      BY <2>1, <2>2, <2>3, StillTidy
  <1>2. ASSUME NEW i \in RowId, Scanning(w, i), RowDone(w, i), RowsKept,
               UNCHANGED <<files, remoteVars>>
        PROVE  TidyInv'
    <2>1. job[w] \in ScanState
      BY <1>0, <1>2, JobStates DEF Scanning, TypeOK
    <2>2. [job[w] EXCEPT !.todo = @ \ {i}].op = "scan" /\ Failed.op = "failed"
      BY <2>1 DEF ScanState, Failed
    <2>3. Become(w, [job[w] EXCEPT !.todo = @ \ {i}]) \/ Become(w, Failed)
      BY <1>2 DEF RowDone
    <2> QED
      BY <1>1, <1>2, <2>2, <2>3
  <1>3. ASSUME NEW i \in RowId, NEW s \in State, Scanning(w, i), Observe(w, i, s)
        PROVE  TidyInv'
    <2>1. RowsKept /\ UNCHANGED <<files, remoteVars>>
      BY <1>0, <1>3, SettingKeepsRows DEF Observe
    <2>2. Failed.op = "failed"
      BY DEF Failed
    <2> QED
      BY <1>1, <1>2, <1>3, <2>1, <2>2 DEF Observe
  <1>4. \A st : Demotion(st) \in State
    BY DEF Demotion, State
  <1>5. ASSUME NEW i \in RowId, ProbeFound(w, i)
        PROVE  TidyInv'
    BY <1>2, <1>3, <1>5, NothingChanges DEF ProbeFound, State, regVars
  <1>6. ASSUME NEW i \in RowId, \/ ProbeMissed(w, i) \/ DeepVerified(w, i)
                                \/ DeepCorrupt(w, i) \/ DeepFailed(w, i)
        PROVE  TidyInv'
    BY <1>3, <1>4, <1>6 DEF ProbeMissed, DeepVerified, DeepCorrupt, DeepFailed, State
  <1>7. CASE EndScan(w)
    <2>1. RowsKept /\ UNCHANGED <<files, remoteVars>>
      BY <1>7, NothingChanges DEF EndScan, regVars
    <2>2. CASE ~job[w].repair
      BY <1>1, <1>7, <2>1, <2>2 DEF EndScan, Idle
    <2>3. CASE job[w].repair
      <3> DEFINE s == [op |-> "repair", handles |-> provs, work |-> ChunksBelowFloor,
                       report |-> {}]
      <3>1. s.op = "repair" /\ s.work = ChunksBelowFloor
        OBVIOUS
      <3>2. Become(w, s)
        BY <1>7, <2>3 DEF EndScan
      <3> HIDE DEF s
      <3>3. job'[w] = s /\ \A v \in Worker : v = w
        BY <1>0, <3>2, BecomeOne DEF OneWorker
      <3>4. StillThere
        BY <2>1, NothingPut DEF StillThere, pipeVars
      <3>5. \A c \in job'[w].work : FileOf[c] \in files'
        BY <2>1, <3>1, <3>3 DEF ChunksBelowFloor
      <3>6. Tidy(job[w])' /\ job'[w].op # "put"
        BY <3>1, <3>3, <3>5 DEF Tidy
      <3> QED
        BY <3>3, <3>4, <3>6, StillTidy
    <2> QED
      BY <2>2, <2>3
  <1> QED
    BY <1>5, <1>6, <1>7 DEF ScanStep

\* Repair between its uploads.
LEMMA RepairIsTidy ==
    ASSUME TidyInv, TypeOK', NEW w \in Worker, RepairStep(w), UNCHANGED pipeVars, OneWorker,
           \A p \in Provider : ~UploadLands(w, p) /\ ~UploadRaises(w, p),
           \A i \in RowId : ~Retire(w, i)
    PROVE  TidyInv'
  <1>0. TypeOK /\ job[w] \in JobState /\ Tidy(job[w])
    BY DEF TidyInv, TypeOK
  <1>1. UNCHANGED <<regVars, remoteVars>>
    BY DEF RepairStep, RepairChunk, FetchMissed, FetchHit, FetchExhausted, EndUpload, EndRepair
  <1>2. StillThere
    BY <1>1, NothingChanges, NothingPut DEF StillThere, pipeVars, regVars
  <1>3. ASSUME NEW s, Become(w, s),
               s.op \in {"repair", "fetch", "upload"} => s.work \subseteq job[w].work
                                                         /\ job[w].op \in {"repair", "fetch", "upload"},
               s.op \in {"fetch", "upload"} => FileOf[s.chunk] \in files,
               s.op = "upload" => HasRoom(Cardinality(s.targets)),
               s.op \notin {"put", "remove"}
        PROVE  TidyInv'
    <2>1. job'[w] = s /\ \A v \in Worker : v = w
      BY <1>0, <1>3, BecomeOne DEF OneWorker
    <2>2. files' = files /\ rows' = rows
      BY <1>1 DEF regVars
    <2>3. s.op \in {"repair", "fetch", "upload"} => \A c \in s.work : FileOf[c] \in files
      BY <1>0, <1>3 DEF Tidy
    <2>4. s.op = "upload" => HasRoom(Cardinality(job[w].targets))'
      BY <1>3, <2>1, <2>2 DEF HasRoom
    <2>5. Tidy(job[w])' /\ job'[w].op # "put"
      BY <1>3, <2>1, <2>2, <2>3, <2>4 DEF Tidy
    <2> QED
      BY <1>2, <2>1, <2>5, StillTidy
  <1>4. ASSUME NEW c \in Chunk, RepairChunk(w, c)
        PROVE  TidyInv'
    <2> DEFINE s == [op |-> "fetch", handles |-> job[w].handles,
                     work |-> job[w].work \ {c}, report |-> job[w].report,
                     chunk |-> c, seen |-> RowsOf(c), todo |-> NonLost(RowsOf(c))]
    <2>1. s.op = "fetch" /\ s.work = job[w].work \ {c} /\ s.chunk = c
      OBVIOUS
    <2>2. Become(w, s) /\ job[w].op = "repair" /\ c \in job[w].work
      BY <1>4 DEF RepairChunk
    <2>3. FileOf[c] \in files
      BY <1>0, <2>2 DEF Tidy
    <2> HIDE DEF s
    <2> QED
      BY <1>3, <2>1, <2>2, <2>3
  <1>5. ASSUME NEW failed \in BOOLEAN, NextChunk(w, failed), job[w].op \in {"fetch", "upload"}
        PROVE  TidyInv'
    <2> DEFINE s == [op |-> "repair", handles |-> job[w].handles, work |-> job[w].work,
                     report |-> job[w].report
                                  \cup (IF failed THEN {job[w].chunk} ELSE {})]
    <2>1. s.op = "repair" /\ s.work = job[w].work
      OBVIOUS
    <2>2. Become(w, s)
      BY <1>5 DEF NextChunk
    <2> HIDE DEF s
    <2> QED
      BY <1>3, <1>5, <2>1, <2>2
  <1>6. ASSUME NEW i \in RowId, FetchMissed(w, i)
        PROVE  TidyInv'
    <2>1. job[w] \in FetchState /\ job[w].op = "fetch" /\ FileOf[job[w].chunk] \in files
      BY <1>0, <1>6, JobStates DEF FetchMissed, Tidy
    <2> DEFINE s == [job[w] EXCEPT !.todo = @ \ {i}]
    <2>2. s.op = "fetch" /\ s.work = job[w].work /\ s.chunk = job[w].chunk
      BY <2>1 DEF FetchState
    <2>3. Become(w, s)
      BY <1>6 DEF FetchMissed
    <2> HIDE DEF s
    <2> QED
      BY <1>3, <2>1, <2>2, <2>3
  <1>7. ASSUME NEW i \in RowId, FetchHit(w, i)
        PROVE  TidyInv'
    <2>1. job[w].op = "fetch" /\ FileOf[job[w].chunk] \in files
      BY <1>0, <1>7 DEF FetchHit, Tidy
    <2>2. ASSUME NEW T, HasRoom(Cardinality(T)),
                 Become(w, [op |-> "upload", handles |-> job[w].handles,
                            work |-> job[w].work, report |-> job[w].report,
                            chunk |-> job[w].chunk, seen |-> job[w].seen,
                            targets |-> T, stale |-> {}])
          PROVE  TidyInv'
      <3> DEFINE s == [op |-> "upload", handles |-> job[w].handles,
                       work |-> job[w].work, report |-> job[w].report,
                       chunk |-> job[w].chunk, seen |-> job[w].seen,
                       targets |-> T, stale |-> {}]
      <3>1. /\ s.op = "upload" /\ s.work = job[w].work /\ s.chunk = job[w].chunk
            /\ s.targets = T
        OBVIOUS
      <3>2. Become(w, s)
        BY <2>2
      <3> HIDE DEF s
      <3> QED
        BY <1>3, <2>1, <2>2, <3>1, <3>2
    <2> QED
      BY <1>5, <1>7, <2>1, <2>2 DEF FetchHit
  <1>8. CASE FetchExhausted(w) \/ EndUpload(w)
    BY <1>5, <1>8 DEF FetchExhausted, EndUpload
  <1>9. CASE EndRepair(w)
    BY <1>3, <1>9 DEF EndRepair, Idle
  <1> QED
    BY <1>4, <1>6, <1>7, <1>8, <1>9 DEF RepairStep

\* A superseded row is written off.
LEMMA RetireIsTidy ==
    ASSUME TidyInv, TypeOK', NEW w \in Worker, NEW i \in RowId, Retire(w, i),
           UNCHANGED pipeVars, OneWorker
    PROVE  TidyInv'
  <1>0. TypeOK /\ job[w].op = "upload" /\ files' = files /\ provs' = provs
        /\ UNCHANGED remoteVars
    BY DEF TidyInv, Retire
  <1>1. PICK s \in UploadState : s = job[w] /\ s \in JobState
    BY <1>0, JobStates DEF TypeOK
  <1>2. RowsKept
    <2>1. "lost" \in State
      BY DEF State
    <2> QED
      BY <1>0, <2>1, SettingKeepsRows DEF Retire
  <1>3. StillThere
    BY <1>0, <1>2, NothingPut DEF StillThere, pipeVars
  <1>4. Tidy(s)'
    BY <1>0, <1>1, <1>3, StaysTidy DEF TidyInv
  <1>5. PICK t : Become(w, t) /\ (t = Failed \/ t = [s EXCEPT !.stale = @ \ {i}])
    BY <1>1 DEF Retire
  <1>6. job'[w] = t /\ \A v \in Worker : v = w
    BY <1>0, <1>5, BecomeOne DEF OneWorker
  <1>7. CASE t = Failed
    <2>1. Tidy(job[w])' /\ job'[w].op # "put"
      BY <1>6, <1>7 DEF Tidy, Failed
    <2> QED
      BY <1>3, <1>6, <2>1, StillTidy
  <1>8. CASE t = [s EXCEPT !.stale = @ \ {i}]
    <2>1. t.op = "upload" /\ s.op = "upload" /\ t.work = s.work /\ t.chunk = s.chunk
          /\ t.targets = s.targets
      BY <1>8 DEF UploadState
    <2>2. Tidy(job[w])' /\ job'[w].op # "put"
      BY <1>4, <1>6, <2>1 DEF Tidy
    <2> QED
      BY <1>3, <1>6, <2>2, StillTidy
  <1> QED
    BY <1>5, <1>7, <1>8

\* What is left of a put to be recorded has an id kept for it.
LEMMA RoomForRest ==
    ASSUME TypeOK, NEW k \in Nat, HasRoom(k + 1), NEW n \in RowId, IsNextId(n),
           \A i \in RowId \ {n} : rows[i] = NoRow => rows'[i] = NoRow
    PROVE  HasRoom(k)'
  <1>1. MaxRows \in Nat
    BY ManifestAssumption
  <1>2. k + 1 <= MaxRows /\ \A i \in RowId : i > MaxRows - (k + 1) => rows[i] = NoRow
    BY DEF HasRoom
  <1>3. n <= MaxRows - k
    <2>1. CASE n = 1
      BY <1>1, <1>2, <2>1
    <2>2. CASE n > 1
      <3>1. n - 1 \in RowId /\ rows[n - 1] # NoRow
        BY <1>1, <2>2 DEF IsNextId, RowId
      <3> QED
        BY <1>1, <1>2, <3>1 DEF RowId
    <2> QED
      BY <2>1, <2>2 DEF RowId
  <1>4. ASSUME NEW i \in RowId, i > MaxRows - k
        PROVE  rows'[i] = NoRow
    BY <1>1, <1>2, <1>3, <1>4 DEF RowId
  <1> QED
    BY <1>1, <1>2, <1>4 DEF HasRoom

\* An upload of repair, whether it is recorded, refused or raises.
LEMMA CopyIsTidy ==
    ASSUME TidyInv, TypeOK', NEW w \in Worker, NEW p \in Provider,
           UploadLands(w, p) \/ UploadRaises(w, p), UNCHANGED pipeVars, OneWorker
    PROVE  TidyInv'
  <1>0. /\ TypeOK /\ Begun /\ Registered /\ job[w] \in JobState /\ Tidy(job[w])
        /\ job[w].op = "upload" /\ p \in job[w].targets
    BY DEF TidyInv, TypeOK, UploadLands, UploadRaises
  <1>1. job[w] \in UploadState
    BY <1>0, JobStates
  <1>2. PICK c \in Chunk, T \in SUBSET Provider : c = job[w].chunk /\ T = job[w].targets
    BY <1>1 DEF UploadState
  <1>3. FileOf[c] \in files /\ HasRoom(Cardinality(T)) /\ \A d \in job[w].work : FileOf[d] \in files
    BY <1>0, <1>2 DEF Tidy
  <1>4. /\ Put(p, c) \/ PutRaises(p, c)
        /\ files' = files /\ provs' = provs /\ used' = used /\ stray' = stray
    BY <1>2 DEF UploadLands, UploadRaises, regVars, pipeVars
  <1>5. \A q \in Provider, d \in Chunk : q # p \/ d # c => remote'[q][d] = remote[q][d]
    BY <1>0, <1>4, PutMakesOne
  <1>6. \A v \in Worker : v = w
    BY DEF OneWorker
  <1>7. job'[w].op # "put" => Begun'
    BY <1>0, <1>3, <1>4, <1>5, <1>6 DEF Begun
  <1>8. ASSUME \A i \in Ids(rows) : rows'[i] # NoRow /\ rows'[i].chunk = rows[i].chunk
                                                     /\ rows'[i].prov = rows[i].prov,
               p \in provs \ Flaky => \E i \in Ids(rows)' : rows'[i].chunk = c /\ rows'[i].prov = p
        PROVE  Registered'
    <2> SUFFICES ASSUME CrashProne = {}, NEW d \in Chunk, NEW q \in provs \ Flaky,
                        FileOf[d] \in files, Exists(q, d)'
                 PROVE  \E i \in Ids(rows)' : rows'[i].chunk = d /\ rows'[i].prov = q
      BY <1>4 DEF Registered
    <2>1. CASE q = p /\ d = c
      BY <1>8, <2>1
    <2>2. CASE q # p \/ d # c
      <3>1. Exists(q, d)
        BY <1>0, <1>5, <2>2 DEF Exists, TypeOK, RegisterTypeOK
      <3>2. PICK i \in Ids(rows) : rows[i].chunk = d /\ rows[i].prov = q
        BY <1>0, <3>1 DEF Registered
      <3>3. i \in Ids(rows)' /\ rows'[i].chunk = d /\ rows'[i].prov = q
        BY <1>8, <3>2 DEF Ids
      <3> QED
        BY <3>3
    <2> QED
      BY <2>1, <2>2
  <1>9. ASSUME NEW s, Become(w, s), s.op = "failed"
        PROVE  Tidy(job[w])' /\ job'[w].op # "put"
    <2>1. job'[w] = s
      BY <1>0, <1>9, BecomeOne
    <2> QED
      BY <1>9, <2>1 DEF Tidy
  <1>10. /\ IsFiniteSet(T) /\ Cardinality(T) \in Nat /\ Cardinality(T \ {p}) \in Nat
         /\ Cardinality(T) = Cardinality(T \ {p}) + 1
    <2>1. IsFiniteSet(T) /\ p \in T
      BY <1>0, <1>2, ManifestAssumption, FS_Subset
    <2>2. IsFiniteSet(T \ {p}) /\ Cardinality(T \ {p}) = Cardinality(T) - 1
      BY <2>1, FS_RemoveElement
    <2> QED
      BY <2>1, <2>2, FS_CardinalityType
  <1>11. ASSUME NEW s, Become(w, s), s.op = "upload", s.targets = T \ {p},
                s.work = job[w].work, s.chunk = c, HasRoom(Cardinality(T \ {p}))'
         PROVE  Tidy(job[w])' /\ job'[w].op # "put"
    <2>1. job'[w] = s
      BY <1>0, <1>11, BecomeOne
    <2> QED
      BY <1>3, <1>4, <1>11, <2>1 DEF Tidy
  <1>12. CASE UploadRaises(w, p)
    <2> DEFINE s == [job[w] EXCEPT !.targets = @ \ {p}, !.report = @ \cup {job[w].chunk}]
    <2>1. s.op = "upload" /\ s.targets = T \ {p} /\ s.work = job[w].work /\ s.chunk = c
      BY <1>0, <1>1, <1>2 DEF UploadState
    <2>2. Become(w, s) /\ rows' = rows /\ p \in Flaky
      BY <1>12 DEF UploadRaises, PutRaises, regVars
    <2> HIDE DEF s
    <2>3. HasRoom(Cardinality(T \ {p}))'
      <3> DEFINE k == Cardinality(T \ {p})
      <3>1. k \in Nat /\ HasRoom(k + 1)
        BY <1>3, <1>10
      <3> HIDE DEF k
      <3>2. HasRoom(k)'
        BY <2>2, <3>1, ManifestAssumption DEF HasRoom, RowId
      <3> QED
        BY <3>2 DEF k, HasRoom
    <2>4. Tidy(job[w])' /\ job'[w].op # "put"
      BY <1>11, <2>1, <2>2, <2>3
    <2>5. Registered'
      BY <1>8, <2>2 DEF Ids
    <2> QED
      BY <1>6, <1>7, <2>4, <2>5 DEF TidyInv
  <1>13. CASE UploadLands(w, p) /\ ~CanAddReplica(job[w].chunk, p)
    <2>1. Become(w, Failed) /\ rows' = rows
      BY <1>13 DEF UploadLands
    <2>2. p \notin provs
      <3> DEFINE k == Cardinality(T \ {p})
      <3>1. k \in Nat /\ HasRoom(k + 1)
        BY <1>3, <1>10
      <3> HIDE DEF k
      <3>2. HasRoom(1)
        BY <3>1, ManifestAssumption DEF HasRoom, RowId
      <3> QED
        BY <1>2, <1>3, <1>13, <3>2 DEF CanAddReplica
    <2>3. Registered'
      BY <1>8, <2>1, <2>2 DEF Ids
    <2>4. Tidy(job[w])' /\ job'[w].op # "put"
      BY <1>9, <2>1 DEF Failed
    <2> QED
      BY <1>6, <1>7, <2>3, <2>4 DEF TidyInv
  <1>14. CASE UploadLands(w, p) /\ CanAddReplica(job[w].chunk, p)
    <2>1. PICK n \in RowId : IsNextId(n) /\ CopyRecorded(w, p, n)
      BY <1>14 DEF UploadLands, AddReplica, CopyRecorded
    <2>2. /\ rows[n] = NoRow /\ rows'[n] # NoRow /\ rows'[n].chunk = c /\ rows'[n].prov = p
          /\ \A i \in RowId \ {n} : rows'[i] = rows[i]
      BY <1>0, <1>2, <2>1, CopyFacts
    <2> DEFINE s == [job[w] EXCEPT !.targets = @ \ {p}, !.stale = Superseded(w, p)]
    <2>3. s.op = "upload" /\ s.targets = T \ {p} /\ s.work = job[w].work /\ s.chunk = c
      BY <1>0, <1>1, <1>2 DEF UploadState
    <2>4. Become(w, s)
      BY <1>14 DEF UploadLands
    <2> HIDE DEF s
    <2>5. HasRoom(Cardinality(T \ {p}))'
      <3> DEFINE k == Cardinality(T \ {p})
      <3>1. k \in Nat /\ HasRoom(k + 1)
        BY <1>3, <1>10
      <3> HIDE DEF k
      <3>2. HasRoom(k)'
        BY <1>0, <2>1, <2>2, <3>1, RoomForRest
      <3> QED
        BY <3>2 DEF k, HasRoom
    <2>6. Tidy(job[w])' /\ job'[w].op # "put"
      BY <1>11, <2>3, <2>4, <2>5
    <2>7. n \in Ids(rows)' /\ \A i \in Ids(rows) : i # n
      BY <2>1, <2>2 DEF Ids
    <2>8. Registered'
      BY <1>8, <2>2, <2>7 DEF Ids
    <2> QED
      BY <1>6, <1>7, <2>6, <2>8 DEF TidyInv
  <1> QED
    BY <1>12, <1>13, <1>14

\* A step of the worker outside repair, after which its job is one of these.
LEMMA OtherJobs ==
    ASSUME TidyInv, TypeOK', OneWorker, StillThere, NEW w \in Worker, NEW s, Become(w, s),
           s.op \notin {"put", "repair", "fetch", "upload", "remove"}
    PROVE  TidyInv'
  <1>1. job'[w] = s /\ \A v \in Worker : v = w
    BY BecomeOne DEF OneWorker, TidyInv
  <1>2. Tidy(job[w])' /\ job'[w].op # "put"
    BY <1>1 DEF Tidy
  <1> QED
    BY <1>1, <1>2, StillTidy

LEMMA StartPutIsTidy ==
    ASSUME TidyInv, TypeOK', OneWorker, NEW w \in Worker, NEW f \in File, StartPut(w, f)
    PROVE  TidyInv'
  <1>0. TypeOK /\ Begun /\ Registered
    BY DEF TidyInv
  <1>1. PICK plan : Become(w, [op |-> "put", file |-> f, plan |-> plan,
                               left |-> ChunksOf(f), landed |-> {}])
    BY DEF StartPut
  <1> DEFINE s == [op |-> "put", file |-> f, plan |-> plan,
                   left |-> ChunksOf(f), landed |-> {}]
  <1>2. s.op = "put" /\ s.file = f /\ Become(w, s)
    BY <1>1
  <1> HIDE DEF s
  <1>3. job'[w] = s /\ \A v \in Worker : v = w
    BY <1>0, <1>2, BecomeOne DEF OneWorker
  <1>4. /\ f \notin used /\ used' = used \cup {f} /\ stray' = stray
        /\ files' = files /\ provs' = provs /\ rows' = rows /\ remote' = remote
    BY DEF StartPut, regVars, remoteVars
  <1>5. \A p \in Provider, c \in ChunksOf(f) : ~Exists(p, c)'
    BY <1>0, <1>4 DEF Begun, ChunksOf, Exists
  <1>6. f \in used' \ files'
    BY <1>0, <1>4 DEF Begun
  <1>7. Tidy(job[w])'
    BY <1>2, <1>3, <1>5, <1>6 DEF Tidy
  <1>8. Begun'
    BY <1>0, <1>2, <1>3, <1>4 DEF Begun
  <1>9. Registered'
    BY <1>0, <1>4 DEF Registered, Exists, Ids
  <1> QED
    BY <1>3, <1>7, <1>8, <1>9 DEF TidyInv

\* An object of a file that is not there yet, or no more, needs no row.
LEMMA UnlistedPut ==
    ASSUME TypeOK, Registered, UNCHANGED regVars, NEW p \in Provider, NEW c \in Chunk,
           Put(p, c) \/ PutRaises(p, c), FileOf[c] \notin files
    PROVE  Registered'
  <1>1. \A q \in Provider, d \in Chunk : q # p \/ d # c => remote'[q][d] = remote[q][d]
    BY PutMakesOne
  <1>2. files' = files /\ provs' = provs /\ rows' = rows
    BY DEF regVars
  <1> SUFFICES ASSUME CrashProne = {}, NEW d \in Chunk, NEW q \in provs \ Flaky,
                      FileOf[d] \in files, Exists(q, d)'
               PROVE  \E i \in Ids(rows)' : rows'[i].chunk = d /\ rows'[i].prov = q
    BY <1>2 DEF Registered
  <1>3. Exists(q, d)
    BY <1>1 DEF Exists, TypeOK, RegisterTypeOK
  <1>4. PICK i \in Ids(rows) : rows[i].chunk = d /\ rows[i].prov = q
    BY <1>3 DEF Registered
  <1> QED
    BY <1>2, <1>4 DEF Ids

LEMMA PuttingIsTidy ==
    ASSUME TidyInv, UploadInv, TypeOK', OneWorker,
           NEW w \in Worker, NEW c \in Chunk, NEW p \in Provider,
           PutLands(w, c, p) \/ PutFails(w, c, p)
    PROVE  TidyInv'
  <1>0. /\ TypeOK /\ Begun /\ Registered /\ job[w] \in JobState /\ Tidy(job[w])
        /\ job[w].op = "put" /\ c \in job[w].left /\ p \in Waiting(w, c)
        /\ \A v \in Worker : v = w
    BY DEF TidyInv, TypeOK, PutLands, PutFails, Putting, IsNextChunk, OneWorker
  <1>1. job[w] \in PutState
    BY <1>0, JobStates
  <1>2. PICK f \in File, plan \in [Group -> SUBSET Provider] : f = job[w].file /\ plan = job[w].plan
    BY <1>1 DEF PutState
  <1>3. FileOf[c] = f /\ p \in plan[GroupOf(c)] /\ f \in used \ files
    BY <1>0, <1>2 DEF UploadInv, PutProgress, ChunksOf, Tidy, Waiting
  <1>4. /\ Put(p, c) \/ PutRaises(p, c)
        /\ UNCHANGED regVars /\ files' = files /\ used' = used
    BY DEF PutLands, PutFails, regVars, pipeVars
  <1>5. \A q \in Provider, d \in Chunk : q # p \/ d # c => remote'[q][d] = remote[q][d]
    BY <1>0, <1>4, PutMakesOne
  <1>6. Registered'
    BY <1>0, <1>3, <1>4, UnlistedPut
  <1>7. \A q \in Provider, d \in Chunk : remote'[q][d] # "never" => FileOf[d] \in used'
    BY <1>0, <1>3, <1>4, <1>5 DEF Begun
  <1>8. CASE PutLands(w, c, p)
    <2>1. PICK s : /\ Become(w, s)
                   /\ \/ s = [job[w] EXCEPT !.left = @ \ {c}, !.landed = {}]
                      \/ s = [job[w] EXCEPT !.landed = @ \cup {p}]
      BY <1>8 DEF PutLands
    <2>2. s.op = "put" /\ s.plan = plan /\ s.file = f
      BY <1>0, <1>1, <1>2, <2>1 DEF PutState
    <2>3. job'[w] = s /\ stray' = stray
      BY <1>0, <1>8, <2>1, BecomeOne DEF PutLands, pipeVars
    <2>4. \A d \in ChunksOf(f), q \in Provider : Exists(q, d)' => q \in plan[GroupOf(d)]
      BY <1>0, <1>2, <1>3, <1>5 DEF Tidy, ChunksOf, Exists
    <2>5. Tidy(job[w])'
      BY <1>3, <1>4, <2>2, <2>3, <2>4 DEF Tidy
    <2>6. Begun'
      BY <1>0, <1>2, <1>4, <1>7, <2>2, <2>3 DEF Begun
    <2> QED
      BY <1>0, <1>6, <2>5, <2>6 DEF TidyInv
  <1>9. CASE PutFails(w, c, p)
    <2>1. /\ Become(w, [op |-> "cleanup", uploaded |-> Uploaded(w)])
          /\ stray' = stray \cup {<<q, c>> : q \in Waiting(w, c) \ {p}}
      BY <1>9 DEF PutFails
    <2> DEFINE s == [op |-> "cleanup", uploaded |-> Uploaded(w)]
    <2>2. s.op = "cleanup" /\ Become(w, s)
      BY <2>1
    <2> HIDE DEF s
    <2>3. job'[w] = s
      BY <1>0, <2>2, BecomeOne
    <2>4. Tidy(job[w])'
      BY <2>2, <2>3 DEF Tidy
    <2>5. \A o \in stray' : FileOf[o[2]] \in used' \ files'
      <3>1. ASSUME NEW o \in stray'
            PROVE  FileOf[o[2]] \in used' \ files'
        <4>1. CASE o \in stray
          BY <1>0, <1>4, <4>1 DEF Begun
        <4>2. CASE \E q \in Waiting(w, c) \ {p} : o = <<q, c>>
          BY <1>3, <1>4, <4>2
        <4> QED
          BY <2>1, <4>1, <4>2
      <3> QED
        BY <3>1
    <2>6. Begun'
      BY <1>0, <1>4, <1>7, <2>2, <2>3, <2>5 DEF Begun
    <2> QED
      BY <1>0, <1>6, <2>4, <2>6 DEF TidyInv
  <1> QED
    BY <1>8, <1>9

\* A put that its upload has given up on lands, or does not.
LEMMA StrayIsTidy ==
    ASSUME TidyInv, TypeOK', NEW c \in Chunk, NEW p \in Provider, StrayPut(p, c)
    PROVE  TidyInv'
  <1>0. TypeOK /\ Begun /\ Registered /\ <<p, c>> \in stray
    BY DEF TidyInv, StrayPut
  <1>1. /\ Put(p, c) \/ PutRaises(p, c)
        /\ UNCHANGED regVars /\ files' = files /\ provs' = provs /\ rows' = rows
        /\ job' = job /\ used' = used /\ stray' \subseteq stray
    BY DEF StrayPut, regVars
  <1>2. /\ FileOf[c] \in used \ files
        /\ \A w \in Worker : job[w].op = "put" => job[w].file # FileOf[c]
    BY <1>0 DEF Begun
  <1>3. \A q \in Provider, d \in Chunk : q # p \/ d # c => remote'[q][d] = remote[q][d]
    BY <1>0, <1>1, PutMakesOne
  <1>4. Registered'
    BY <1>0, <1>1, <1>2, UnlistedPut
  <1>5. Begun'
    BY <1>0, <1>1, <1>2, <1>3 DEF Begun
  <1>6. ASSUME NEW w \in Worker
        PROVE  Tidy(job[w])'
    <2>1. PICK s \in JobState : s = job[w]
      BY <1>0 DEF TypeOK
    <2>2. Tidy(s) /\ job'[w] = s /\ (s.op = "put" => s.file # FileOf[c])
      BY <1>1, <1>2, <2>1 DEF TidyInv
    <2>3. s.op \in {"put", "remove"} =>
             \A d \in ChunksOf(s.file), q \in Provider : Exists(q, d)' => Exists(q, d)
      BY <1>2, <1>3, <2>2 DEF Tidy, ChunksOf, Exists
    <2>4. \A k : HasRoom(k) => HasRoom(k)'
      BY <1>1 DEF HasRoom
    <2>5. provs \subseteq Provider
      BY <1>0 DEF TypeOK, RegisterTypeOK
    <2>6. \A d, q : HasRow(d, q)' => HasRow(d, q)
      BY <1>1 DEF HasRow, Ids
    <2>7. Tidy(s)'
      BY <1>1, <2>2, <2>3, <2>4, <2>5, <2>6 DEF Tidy
    <2> QED
      BY <2>2, <2>7 DEF Tidy
  <1> QED
    BY <1>4, <1>5, <1>6 DEF TidyInv

LEMMA CommitIsTidy ==
    ASSUME TidyInv, TypeOK', OneWorker, NEW w \in Worker, CommitPut(w)
    PROVE  TidyInv'
  <1>0. /\ TypeOK /\ Begun /\ Registered /\ job[w] \in JobState /\ Tidy(job[w])
        /\ job[w].op = "put" /\ job[w].left = {} /\ \A v \in Worker : v = w
    BY DEF TidyInv, TypeOK, CommitPut, OneWorker
  <1>1. CASE UNCHANGED regVars /\ Become(w, Failed)
    <2>1. StillThere
      BY <1>1, NothingChanges, NothingPut DEF StillThere, CommitPut, pipeVars, regVars
    <2> QED
      BY <1>1, <2>1, OtherJobs DEF Failed
  <1> DEFINE placed == {<<o[2], o[1]>> : o \in Uploaded(w)}
  <1>2. ASSUME NEW n \in 1..MaxRows + 1, CanInsert(job[w].file, placed), IsNextId(n),
               InsertFileWithManifest(job[w].file, n, placed), Become(w, Idle)
        PROVE  TidyInv'
    <2>1. PICK f : f = job[w].file
      OBVIOUS
    <2>2. f \in used /\ files' = files \cup {f} /\ provs' = provs
          /\ remote' = remote /\ used' = used /\ stray' = stray
      BY <1>0, <1>2, <2>1 DEF Tidy, InsertFileWithManifest, CommitPut, remoteVars, pipeVars
    <2>3. job'[w] = Idle
      BY <1>0, <1>2, BecomeOne
    <2>4. \A o \in stray : FileOf[o[2]] # f
      BY <1>0, <2>1 DEF Begun
    <2>5. Begun'
      BY <1>0, <2>2, <2>3, <2>4 DEF Begun, Idle
    <2>6. Tidy(job[w])'
      BY <2>3 DEF Tidy, Idle
    <2>7. \A c \in ChunksOf(f) : \A p \in job[w].plan[GroupOf(c)] :
             \E i \in Ids(rows)' : rows'[i] = [chunk |-> c, prov |-> p, state |-> "stored"]
      BY <1>0, <1>2, <2>1, PlanIsRecorded
    <2>8. placed \in SUBSET (Chunk \X Provider)
      BY <1>0, UploadedType
    <2> HIDE DEF placed
    <2>9. PICK New \in SUBSET RowId :
             /\ \A i \in RowId \ New : rows'[i] = rows[i]
             /\ \A i \in New : /\ rows[i] = NoRow /\ rows'[i] # NoRow
                               /\ rows'[i].state = "stored"
                               /\ <<rows'[i].chunk, rows'[i].prov>> \in placed
             /\ \A i, j \in New :
                   rows'[i].chunk = rows'[j].chunk /\ rows'[i].prov = rows'[j].prov => i = j
      <3>1. IsNextId(n) /\ InsertFileWithManifest(f, n, placed)
        BY <1>2, <2>1
      <3> QED
        BY <1>0, <2>8, <3>1, InsertFacts
    <2>10. Registered'
      <3> SUFFICES ASSUME CrashProne = {}, NEW c \in Chunk, NEW p \in provs \ Flaky,
                          FileOf[c] \in files', Exists(p, c)
                   PROVE  \E i \in Ids(rows)' : rows'[i].chunk = c /\ rows'[i].prov = p
        BY <2>2 DEF Registered, Exists
      <3>1. CASE FileOf[c] = f
        <4>1. c \in ChunksOf(f) /\ p \in Provider
          BY <1>0, <3>1 DEF ChunksOf, TypeOK, RegisterTypeOK
        <4>2. p \in job[w].plan[GroupOf(c)]
          BY <1>0, <2>1, <4>1 DEF Tidy
        <4>3. PICK i \in Ids(rows)' : rows'[i] = [chunk |-> c, prov |-> p, state |-> "stored"]
          BY <2>7, <4>1, <4>2
        <4> QED
          BY <4>3
      <3>2. CASE FileOf[c] \in files
        <4>1. PICK i \in Ids(rows) : rows[i].chunk = c /\ rows[i].prov = p
          BY <1>0, <3>2 DEF Registered
        <4> QED
          BY <2>9, <4>1 DEF Ids
      <3> QED
        BY <2>2, <3>1, <3>2
    <2> QED
      BY <1>0, <2>5, <2>6, <2>10 DEF TidyInv
  <1> QED
    BY <1>1, <1>2 DEF CommitPut

\* Removal visits the rows it has read, and then drops them with the file.
LEMMA RemovalIsTidy ==
    ASSUME TidyInv, TypeOK', OneWorker, NEW w \in Worker, RemoveStep(w)
    PROVE  TidyInv'
  <1>0. TypeOK /\ Begun /\ Registered /\ job[w] \in JobState /\ Tidy(job[w])
        /\ \A v \in Worker : v = w
    BY DEF TidyInv, TypeOK, OneWorker
  <1>1. ASSUME NEW f \in File, StartRemove(w, f)
        PROVE  TidyInv'
    <2> DEFINE s == [op |-> "remove", file |-> f, seen |-> rows,
                     todo |-> {i \in Ids(rows) : FileOf[rows[i].chunk] = f}]
    <2>1. /\ s.op = "remove" /\ s.file = f /\ s.seen = rows
          /\ s.todo = {i \in Ids(rows) : FileOf[rows[i].chunk] = f}
          /\ Become(w, s)
      BY <1>1 DEF StartRemove
    <2> HIDE DEF s
    <2>2. job'[w] = s
      BY <1>0, <2>1, BecomeOne
    <2>3. StillThere /\ f \in files /\ files' = files /\ provs' = provs /\ remote' = remote
      BY <1>1, NothingChanges, NothingPut DEF StartRemove, StillThere, pipeVars, regVars, remoteVars
    <2>4. ASSUME NEW c \in ChunksOf(f), NEW p \in provs \ Flaky, Exists(p, c)
          PROVE  \/ \E i \in s.todo : s.seen[i].chunk = c /\ s.seen[i].prov = p
                 \/ CrashProne # {} /\ ~HasRow(c, p)
      <3>1. c \in Chunk /\ FileOf[c] = f
        BY <2>4 DEF ChunksOf
      <3>2. CASE HasRow(c, p)
        BY <2>1, <3>1, <3>2 DEF HasRow
      <3>3. CASE CrashProne = {}
        BY <1>0, <2>1, <2>3, <2>4, <3>1, <3>3 DEF Registered
      <3> QED
        BY <3>2, <3>3
    <2>5. \A i \in s.todo : s.seen[i] \in Row
      BY <1>0, <2>1 DEF TypeOK, RegisterTypeOK, Snapshot, Ids
    <2>6. /\ \A c, p : HasRow(c, p)' <=> HasRow(c, p)
          /\ \A c, p : Exists(p, c)' <=> Exists(p, c)
      BY <1>1, <2>3 DEF StartRemove, regVars, HasRow, Ids, Exists
    <2>7. Tidy(job[w])' /\ job'[w].op # "put"
      BY <2>1, <2>2, <2>3, <2>4, <2>5, <2>6 DEF Tidy
    <2> QED
      BY <1>0, <2>3, <2>7, StillTidy
  <1>2. ASSUME NEW i \in RowId, RemoveOne(w, i)
        PROVE  TidyInv'
    <2>1. job[w] \in RemoveState /\ job[w].op = "remove" /\ i \in job[w].todo
      BY <1>0, <1>2, JobStates DEF RemoveOne
    <2>2. UNCHANGED regVars /\ UNCHANGED pipeVars /\ files' = files /\ provs' = provs
      BY <1>2 DEF RemoveOne, regVars
    <2>3. CASE UNCHANGED remoteVars /\ Become(w, Failed)
      <3>1. StillThere
        BY <2>2, <2>3, NothingChanges, NothingPut DEF StillThere, pipeVars, regVars
      <3> QED
        BY <2>3, <3>1, OtherJobs DEF Failed
    <2>4. ASSUME Delete(job[w].seen[i].prov, job[w].seen[i].chunk),
                 Become(w, [job[w] EXCEPT !.todo = @ \ {i}])
          PROVE  TidyInv'
      <3> DEFINE s == [job[w] EXCEPT !.todo = @ \ {i}]
      <3>1. /\ s.op = "remove" /\ s.file = job[w].file /\ s.seen = job[w].seen
            /\ s.todo = job[w].todo \ {i} /\ Become(w, s)
        BY <2>1, <2>4 DEF RemoveState
      <3> HIDE DEF s
      <3>2. job'[w] = s
        BY <1>0, <3>1, BecomeOne
      <3>3. PICK p, c : p = job[w].seen[i].prov /\ c = job[w].seen[i].chunk
        OBVIOUS
      <3>4. NothingMade /\ (p \notin Flaky => ~Exists(p, c)')
        <4>1. p \in Provider /\ c \in Chunk
          BY <1>0, <2>1, <3>3 DEF Tidy, Row
        <4> QED
          BY <1>0, <2>4, <3>3, <4>1, DeleteMakesNothing
      <3>5. StillThere
        BY <2>2, <3>4, NothingChanges DEF StillThere, pipeVars, regVars
      <3>6. ASSUME NEW d \in ChunksOf(job[w].file), NEW q \in provs \ Flaky, Exists(q, d)'
            PROVE  \/ \E j \in s.todo : s.seen[j].chunk = d /\ s.seen[j].prov = q
                   \/ CrashProne # {} /\ ~HasRow(d, q)
        <4>1. Exists(q, d)
          BY <1>0, <3>4, <3>6 DEF NothingMade, ChunksOf, TypeOK, RegisterTypeOK
        <4>2. CASE CrashProne # {} /\ ~HasRow(d, q)
          BY <4>2
        <4>3. CASE ~(CrashProne # {} /\ ~HasRow(d, q))
          <5>1. PICK j \in job[w].todo : job[w].seen[j].chunk = d /\ job[w].seen[j].prov = q
            BY <1>0, <2>1, <3>6, <4>1, <4>3 DEF Tidy
          <5>2. j # i
            BY <3>3, <3>4, <3>6, <5>1
          <5> QED
            BY <3>1, <5>1, <5>2
        <4> QED
          BY <4>2, <4>3
      <3>7. \A d, q : HasRow(d, q)' <=> HasRow(d, q)
        BY <2>2 DEF regVars, HasRow, Ids
      <3>8. Tidy(job[w])' /\ job'[w].op # "put"
        BY <1>0, <2>1, <2>2, <3>1, <3>2, <3>6, <3>7 DEF Tidy
      <3> QED
        BY <1>0, <3>5, <3>8, StillTidy
    <2> QED
      BY <1>2, <2>3, <2>4 DEF RemoveOne
  <1>3. CASE EndRemove(w)
    <2>1. PICK f : f = job[w].file
      OBVIOUS
    <2>2. /\ files' = files \ {f} /\ provs' = provs /\ remote' = remote
          /\ used' = used /\ stray' = stray /\ Become(w, Idle)
          /\ \A i \in Ids(rows) : FileOf[rows[i].chunk] # f => rows'[i] = rows[i]
      BY <1>3, <2>1 DEF EndRemove, DeleteFile, remoteVars, pipeVars, Ids
    <2>3. job'[w] = Idle
      BY <1>0, <2>2, BecomeOne
    <2>4. Tidy(job[w])'
      BY <2>3 DEF Tidy, Idle
    <2>5. Begun'
      BY <1>0, <2>2, <2>3 DEF Begun, Idle
    <2>6. Registered'
      <3> SUFFICES ASSUME CrashProne = {}, NEW c \in Chunk, NEW p \in provs \ Flaky,
                          FileOf[c] \in files \ {f}, Exists(p, c)
                   PROVE  \E i \in Ids(rows)' : rows'[i].chunk = c /\ rows'[i].prov = p
        BY <2>2 DEF Registered, Exists
      <3>1. PICK i \in Ids(rows) : rows[i].chunk = c /\ rows[i].prov = p
        BY <1>0 DEF Registered
      <3> QED
        BY <2>2, <3>1 DEF Ids
    <2> QED
      BY <1>0, <2>4, <2>5, <2>6 DEF TidyInv
  <1> QED
    BY <1>1, <1>2, <1>3 DEF RemoveStep

\* Files leave the register only at the end of remove_file.
LEMMA OnlyRemovalDropsFiles ==
    ASSUME TypeOK, [Next]_vars, NEW f \in files \ files'
    PROVE  \E w \in Worker : EndRemove(w) /\ job[w].file = f
  <1>1. ~ UNCHANGED regVars /\ ~ UNCHANGED files
    BY DEF regVars
  <1>2. ASSUME NEW w \in Worker, Scrub(w)
        PROVE  UNCHANGED files
    BY <1>2 DEF Scrub, StartScrub, ScanStep, ProbeFound, ProbeMissed, DeepVerified,
                DeepCorrupt, DeepFailed, EndScan, Observe, RepairStep, RepairChunk,
                FetchMissed, FetchHit, FetchExhausted, UploadLands, Retire, UploadRaises,
                EndUpload, EndRepair, regVars
  <1>3. ASSUME NEW w \in Worker, PutStep(w)
        PROVE  files \subseteq files'
    BY <1>3 DEF PutStep, StartPut, PutLands, PutFails, CleanupOne, EndCleanup, CommitPut,
                InsertFileWithManifest, regVars
  <1>4. ASSUME NEW w \in Worker, RemoveStep(w)
        PROVE  EndRemove(w) /\ job[w].file = f
    BY <1>1, <1>4 DEF RemoveStep, StartRemove, RemoveOne, EndRemove, DeleteFile
  <1>5. ASSUME NEW r \in Reader, GetStep(r)
        PROVE  UNCHANGED files
    BY <1>5 DEF GetStep, StartGet, GetHit, GetMissed, GetExhausted, TryEnds, regVars
  <1>6. CASE Environment
    BY <1>1, <1>6 DEF Environment, RemoveProvider, DeleteProvider, StrayPut, regVars
  <1>7. ASSUME NEW w \in Worker, Crash(w)
        PROVE  UNCHANGED files
    BY <1>7 DEF Crash, regVars
  <1> QED
    BY <1>1, <1>2, <1>3, <1>4, <1>5, <1>6, <1>7 DEF Next, vars

\* What a crashing process may have got through is of the file of its put, or of
\* the chunk under repair; its job is over.
LEMMA CrashIsTidy ==
    ASSUME TidyInv, UploadInv, TypeOK', OneWorker, NEW w \in Worker, Crash(w)
    PROVE  TidyInv'
  <1>0. /\ TypeOK /\ Begun /\ job[w] \in JobState /\ Tidy(job[w]) /\ CrashProne # {}
        /\ \A v \in Worker : v = w
    BY DEF TidyInv, TypeOK, Crash, OneWorker
  <1>1. job'[w] = Failed
    BY <1>0, BecomeOne DEF Crash
  <1>2. /\ files' = files /\ provs' = provs /\ rows' = rows
        /\ used' = used /\ stray' = stray
    BY DEF Crash, regVars, pipeVars
  <1>3. PICK objs \in InFlight(w) : remote' = WithPut(objs)
    BY DEF Crash
  <1>4. ASSUME NEW p \in Provider, NEW c \in Chunk, <<p, c>> \in objs
        PROVE  FileOf[c] \in used
    <2>1. CASE job[w].op = "put"
      <3>1. c \in job[w].left
        BY <1>3, <1>4, <2>1 DEF InFlight, Putting, IsNextChunk
      <3>2. FileOf[c] = job[w].file
        BY <2>1, <3>1 DEF UploadInv, PutProgress, ChunksOf
      <3> QED
        BY <1>0, <2>1, <3>2 DEF Tidy
    <2>2. CASE job[w].op = "upload"
      <3>1. c = job[w].chunk
        BY <1>3, <1>4, <2>2 DEF InFlight
      <3> QED
        BY <1>0, <2>2, <3>1 DEF Tidy, Begun
    <2> QED
      BY <1>3, <1>4, <2>1, <2>2 DEF InFlight
  <1>5. Begun'
    <2>1. \A p \in Provider, c \in Chunk : remote'[p][c] # "never" => FileOf[c] \in used
      BY <1>0, <1>3, <1>4 DEF WithPut, Begun
    <2> QED
      BY <1>0, <1>1, <1>2, <2>1 DEF Begun, Failed
  <1>6. Registered'
    BY <1>0 DEF Registered
  <1>7. Tidy(job[w])'
    BY <1>1 DEF Tidy, Failed
  <1> QED
    BY <1>0, <1>5, <1>6, <1>7 DEF TidyInv

\* Every step of the worker, of a download, and of what is around them.
LEMMA NextIsTidy ==
    ASSUME TidyInv, UploadInv, TypeOK', [Next]_vars, OneWorker
    PROVE  TidyInv'
  <1>0. TypeOK
    BY DEF TidyInv
  <1>1. ASSUME RowsKept, NothingMade, UNCHANGED <<files, job, used>>, stray' \subseteq stray
        PROVE  TidyInv'
    BY <1>0, <1>1, StillTidy DEF StillThere
  <1>2. ASSUME NEW w \in Worker, Scrub(w)
        PROVE  TidyInv'
    <2>1. ASSUME NEW deep \in BOOLEAN, NEW repair \in BOOLEAN, NEW batch,
                 StartScrub(w, deep, repair, batch)
          PROVE  TidyInv'
      <3>1. StillThere
        BY <1>2, <2>1, NothingChanges, NothingPut DEF Scrub, StartScrub, StillThere, pipeVars, regVars
      <3> QED
        BY <2>1, <3>1, OtherJobs DEF StartScrub
    <2>2. UNCHANGED pipeVars
      BY <1>2 DEF Scrub
    <2>3. CASE ScanStep(w)
      BY <2>2, <2>3, ScanIsTidy
    <2>4. CASE RepairStep(w)
      BY <2>2, <2>4, RepairIsTidy, RetireIsTidy, CopyIsTidy
    <2> QED
      BY <1>2, <2>1, <2>3, <2>4 DEF Scrub
  <1>3. ASSUME NEW w \in Worker, PutStep(w)
        PROVE  TidyInv'
    <2>1. ASSUME NEW c \in Chunk, NEW p \in Provider, CleanupOne(w, p, c)
          PROVE  TidyInv'
      <3>1. job[w] \in CleanupState /\ job[w].op = "cleanup"
        BY <1>0, <2>1, JobStates DEF CleanupOne, TypeOK
      <3>2. [job[w] EXCEPT !.uploaded = @ \ {<<p, c>>}].op = "cleanup"
        BY <3>1 DEF CleanupState
      <3>3. StillThere
        BY <1>0, <2>1, NothingChanges, DeleteMakesNothing DEF CleanupOne, StillThere, pipeVars, regVars
      <3> QED
        BY <2>1, <3>2, <3>3, OtherJobs DEF CleanupOne
    <2>2. CASE EndCleanup(w)
      <3>1. StillThere
        BY <2>2, NothingChanges, NothingPut DEF EndCleanup, StillThere, pipeVars, regVars
      <3> QED
        BY <2>2, <3>1, OtherJobs DEF EndCleanup, Failed
    <2> QED
      BY <1>3, <2>1, <2>2, StartPutIsTidy, PuttingIsTidy, CommitIsTidy DEF PutStep
  <1>4. ASSUME NEW w \in Worker, RemoveStep(w)
        PROVE  TidyInv'
    BY <1>4, RemovalIsTidy
  <1>5. ASSUME NEW r \in Reader, GetStep(r)
        PROVE  TidyInv'
    <2>1. ASSUME NEW i \in RowId, NEW s \in State, TryEnds(r, i, s)
          PROVE  TidyInv'
      BY <1>0, <1>1, <2>1, SettingKeepsRows, NothingPut DEF TryEnds
    <2>2. CASE UNCHANGED <<regVars, remoteVars, job, used, stray>>
      BY <1>1, <2>2, NothingChanges, NothingPut DEF regVars
    <2> QED
      BY <1>5, <2>1, <2>2 DEF GetStep, StartGet, GetHit, GetMissed, GetExhausted, State
  <1>6. CASE Environment
    <2>1. ASSUME NEW p \in Provider, NEW c \in Chunk, Damage(p, c), UNCHANGED <<regVars, job, pipeVars>>
          PROVE  TidyInv'
      BY <1>0, <1>1, <2>1, NothingChanges, DamageMakesNothing DEF regVars, pipeVars
    <2>2. ASSUME NEW p \in Provider, RemoveProvider(p)
          PROVE  TidyInv'
      <3>1. RowsKept
        BY <2>2 DEF RemoveProvider, DeleteProvider, RowsKept, NoneFilled, Ids
      <3> QED
        BY <1>1, <2>2, <3>1, NothingPut DEF RemoveProvider, DeleteProvider, pipeVars
    <2> QED
      BY <1>6, <2>1, <2>2, StrayIsTidy DEF Environment
  <1>7. CASE UNCHANGED vars
    BY <1>1, <1>7, NothingChanges, NothingPut DEF vars, regVars, pipeVars
  <1> QED
    BY <1>2, <1>3, <1>4, <1>5, <1>6, <1>7, CrashIsTidy DEF Next

\* Removal leaves nothing, with one worker: when remove_file drops a file
\* (pipeline.py:539), no provider that is still there and never fails has an
\* object of it, however many repairs have moved its copies and whatever puts
\* were given up on; where the worker may crash, none that a row names.
THEOREM RemovalsLeaveNothing ==
    ASSUME OneWorker PROVE Spec => RemovalLeavesNothing
  <1>1. Init => TidyInv
    <2> SUFFICES ASSUME Init
                 PROVE  TidyInv
      OBVIOUS
    <2>1. files = {} /\ used = {} /\ stray = {} /\ \A w \in Worker : job[w] = Idle
      BY DEF Init, RegisterInit, PipelineInit, JobsInit
    <2>2. \A p \in Provider, c \in Chunk : remote[p][c] = "never"
      BY DEF Init, RemoteInit
    <2>3. TypeOK
      BY RemoteAssumption
      DEF Init, RegisterInit, RemoteInit, JobsInit, PipelineInit, TypeOK, RegisterTypeOK,
          RemoteTypeOK, PipelineTypeOK, Snapshot, Object, JobState, Outcome
    <2> QED
      BY <2>1, <2>2, <2>3 DEF TidyInv, Begun, Registered, Tidy, Idle
  <1>2. TidyInv /\ UploadInv /\ TypeOK' /\ [Next]_vars => TidyInv'
    BY NextIsTidy
  <1>3. TidyInv /\ [Next]_vars =>
           \A f \in files \ files', p \in provs \ Flaky : \A c \in ChunksOf(f) :
              Exists(p, c) => CrashProne # {} /\ ~HasRow(c, p)
    <2> SUFFICES ASSUME TidyInv, [Next]_vars, NEW f \in files, f \notin files',
                        NEW p \in provs \ Flaky, NEW c \in ChunksOf(f), Exists(p, c)
                 PROVE  CrashProne # {} /\ ~HasRow(c, p)
      OBVIOUS
    <2>1. PICK w \in Worker : EndRemove(w) /\ job[w].file = f
      <3>1. TypeOK /\ f \in files \ files'
        BY DEF TidyInv
      <3> QED
        BY <3>1, OnlyRemovalDropsFiles
    <2>2. Tidy(job[w]) /\ job[w].op = "remove" /\ job[w].todo = {}
      BY <2>1 DEF TidyInv, EndRemove
    <2> QED
      BY <2>1, <2>2 DEF Tidy
  <1> QED
    BY <1>1, <1>2, <1>3, UploadInvHolds, TypeCorrect, PTL DEF Spec, RemovalLeavesNothing, HasRow

================================================================================
