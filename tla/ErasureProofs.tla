------------------------------- MODULE ErasureProofs -------------------------------
(***************************************************************************)
(* Shares of Erasure, for any providers, any K of N, any downloads and     *)
(* losses.  What makes them right: no two rows that count have one         *)
(* provider, because lost rows never count again, and a repair puts a      *)
(* share where its plan says, on a provider that none of the rows had when *)
(* they were fetched.  No two have one index either, but for the rows that *)
(* a repair still has to write off, or was cut short before it had.        *)
(***************************************************************************)
EXTENDS Erasure, FunctionTheorems, FiniteSetTheorems, TLAPS

\* No two rows that count have one provider; and one index only where a repair
\* has a row still to write off, or was cut short.
Distinct ==
    \A i, j \in NonLost(rows) :
        \/ rows[i].prov = rows[j].prov
        \/ rows[i].index = rows[j].index /\ rows[i].index \notin faults.torn
           /\ i \notin Retiring /\ j \notin Retiring
        => i = j

\* Rows are the file's.
NoStrays == stored \/ Ids(rows) = {}

\* A row that the repair has fetched, whatever its state is by now.
Fetched(i) ==
    i \in NonLost(job.seen) /\ job.seen[i].prov = rows[i].prov /\ job.seen[i].index = rows[i].index

\* While its providers are all there, the repair's picture of the rows is true.
PictureTrue ==
    job.handles \subseteq provs =>
        \A i \in Ids(job.seen) :
            /\ rows[i] # NoRow
            /\ rows[i].prov = job.seen[i].prov /\ rows[i].index = job.seen[i].index
            /\ job.seen[i].state = "stored" => rows[i].state # "lost"

\* What is still to be uploaded: shares that were missing, on free providers.
PlanSound ==
    /\ \A a \in job.plan : a[1] \in Missing(job.seen) /\ a[2] \in Free(job.seen)
    /\ \A a, b \in job.plan : a[1] = b[1] \/ a[2] = b[2] => a = b

\* A row that counts was fetched, or is of a share that is done.
OnlyPlanned ==
    \A i \in NonLost(rows) :
        Fetched(i) \/ \A a \in job.plan : a[1] # rows[i].index /\ a[2] # rows[i].prov

\* A share that is neither to be uploaded nor reported has a row that is not to
\* be written off.
MadeGood ==
    ~job.told /\ job.handles \subseteq provs =>
        \A x \in Index :
            \/ \E a \in job.plan : a[1] = x
            \/ \E i \in NonLost(rows) : i \notin InState(job.seen, "suspect") /\ rows[i].index = x

Injective(plan) == \A a, b \in plan : a[1] = b[1] \/ a[2] = b[2] => a = b

JobInv ==
    /\ job # Idle => job.todo \subseteq Ids(job.seen)
    /\ job.at = "put" => /\ ~stored /\ Injective(job.plan)
                         /\ \A x \in Index : \E a \in job.plan : a[1] = x
    /\ job.at \in {"fetch", "upload"} => /\ provs \subseteq job.handles /\ PictureTrue
                                         /\ job.stale \subseteq InState(job.seen, "suspect")
    /\ job.at = "fetch" => ~job.told /\ \A i \in NonLost(rows) : Fetched(i)
    /\ job.at = "upload" => PlanSound /\ OnlyPlanned /\ MadeGood

\* A share that was offered is taken, has failed, or has a row still to look at.
GetInv(r) ==
    get[r] # Idle =>
        /\ get[r].todo \subseteq Ids(get[r].seen)
        /\ get[r].offered \subseteq
              get[r].shares \cup get[r].failed \cup Indices(get[r].seen, get[r].todo)

ErasureInv == TypeOK /\ Distinct /\ NoStrays /\ JobInv /\ \A r \in Reader : GetInv(r)

----------------------------------------------------------------------------
(* Tables, jobs and downloads.                                             *)

\* What the ids of a table are.
LEMMA TableFacts ==
    ASSUME NEW t \in Table
    PROVE  /\ Ids(t) \subseteq RowId /\ NonLost(t) \subseteq Ids(t)
           /\ \A s : InState(t, s) \subseteq Ids(t)
           /\ \A i \in Ids(t) : /\ t[i] \in Row /\ t[i].prov \in Provider /\ t[i].index \in Index
                                /\ t[i].state \in {"stored", "suspect", "lost"}
           /\ \A i \in RowId : [t EXCEPT ![i] = NoRow] \in Table
  <1>1. \A i \in RowId : t[i] \in Row \cup {NoRow}
    BY DEF Table
  <1>2. Ids(t) \subseteq RowId /\ NonLost(t) \subseteq Ids(t) /\ \A s : InState(t, s) \subseteq Ids(t)
    BY DEF Ids, NonLost, InState
  <1>3. \A i \in Ids(t) : t[i] \in Row
    BY <1>1 DEF Ids
  <1>4. \A i \in RowId : [t EXCEPT ![i] = NoRow] \in Table
    BY DEF Table
  <1>5. QED
    BY <1>2, <1>3, <1>4 DEF Row

\* set_replica_state keeps every row its provider and its index, and makes
\* nothing count that did not.
LEMMA SetStateFacts ==
    ASSUME rows \in Table, NEW i \in RowId, NEW s \in {"stored", "suspect", "lost"},
           CanSet(i, s), SetState(i, s)
    PROVE  /\ rows' \in Table /\ Ids(rows') = Ids(rows)
           /\ \A j \in Ids(rows) : rows'[j].prov = rows[j].prov /\ rows'[j].index = rows[j].index
           /\ NonLost(rows') \subseteq NonLost(rows)
           /\ s # "lost" => NonLost(rows') = NonLost(rows)
           /\ s = "lost" => i \notin NonLost(rows')
  <1>1. rows[i] \in Row /\ i \in Ids(rows)
    BY DEF CanSet, Table, Ids
  <1>2. rows' = [rows EXCEPT ![i] = [rows[i] EXCEPT !.state = s]]
    BY DEF SetState
  <1> DEFINE row == [rows[i] EXCEPT !.state = s]
  <1>3. row \in Row /\ row.prov = rows[i].prov /\ row.index = rows[i].index /\ row.state = s
    BY <1>1 DEF Row
  <1>4. row # NoRow
    BY <1>3, NoRowAssumption DEF NoRowAssumption
  <1>5. rows' = [rows EXCEPT ![i] = row]
    BY <1>2
  <1> HIDE DEF row
  <1>6. rows' \in Table
    BY <1>3, <1>5 DEF Table
  <1>7. rows'[i] = row /\ \A j \in RowId : j # i => rows'[j] = rows[j]
    BY <1>5 DEF Table
  <1>8. Ids(rows') = Ids(rows)
    BY <1>1, <1>4, <1>7 DEF Ids
  <1>9. \A j \in Ids(rows) : rows'[j].prov = rows[j].prov /\ rows'[j].index = rows[j].index
    BY <1>3, <1>7 DEF Ids
  <1>10. rows[i].state = "lost" => s = "lost"
    BY DEF CanSet
  <1>11. /\ NonLost(rows') \subseteq NonLost(rows) /\ (s # "lost" => NonLost(rows') = NonLost(rows))
         /\ s = "lost" => i \notin NonLost(rows')
    BY <1>1, <1>3, <1>7, <1>8, <1>10 DEF NonLost, Ids
  <1>12. QED
    BY <1>6, <1>8, <1>9, <1>11

\* A job that is under way is one.
LEMMA JobFacts ==
    ASSUME TypeOK, job.at # "idle"
    PROVE  job \in Job /\ job # Idle
  BY DEF TypeOK, Idle

\* A job as it starts.
LEMMA StartingFacts ==
    ASSUME TypeOK, NEW at \in {"put", "scrub", "fetch", "upload", "remove"}
    PROVE  /\ Starting(at) \in Job
           /\ Starting(at).at = at /\ Starting(at).seen = rows /\ Starting(at).todo = {}
           /\ Starting(at).handles = provs /\ Starting(at).plan = {} /\ Starting(at).told = FALSE
           /\ Starting(at).shares = {} /\ Starting(at).stale = {}
  BY DEF TypeOK, Starting, Job

\* A job that is done with a row.
LEMMA DoneWithFacts ==
    ASSUME TypeOK, job.at # "idle", NEW i \in RowId
    PROVE  /\ DoneWith(i) \in Job
           /\ DoneWith(i).at = job.at /\ DoneWith(i).todo = job.todo \ {i}
           /\ DoneWith(i).seen = [job.seen EXCEPT ![i] = NoRow]
           /\ DoneWith(i).handles = job.handles
  <1>1. job \in Job
    BY JobFacts
  <1>2. job.seen \in Table /\ [job.seen EXCEPT ![i] = NoRow] \in Table /\ job.todo \in SUBSET RowId
    BY <1>1, TableFacts DEF Job
  <1> DEFINE s == [job.seen EXCEPT ![i] = NoRow]
             d == job.todo \ {i}
  <1>3. DoneWith(i) = [job EXCEPT !.todo = d, !.seen = s]
    BY <1>1 DEF DoneWith, Job
  <1>4. d \in SUBSET RowId
    BY <1>2
  <1> HIDE DEF s, d
  <1>5. QED
    BY <1>1, <1>2, <1>3, <1>4 DEF Job, s, d

\* Calls that raise, and losses, are counted.
LEMMA FaultsType ==
    ASSUME TypeOK, Answers \/ CallFails \/ Loss
    PROVE  /\ faults' \in [losses : 0..MaxLosses, failures : 0..MaxFailures, torn : SUBSET Index]
           /\ faults'.torn = faults.torn
  BY ErasureAssumption DEF TypeOK, Answers, CallFails, Loss, ErasureAssumption

\* What a repair that is cut short leaves.
LEMMA CutShortType ==
    ASSUME TypeOK
    PROVE  CutShort \in SUBSET Index /\ faults.torn \in SUBSET Index
  <1>1. faults.torn \in SUBSET Index
    BY DEF TypeOK
  <1>2. \A i \in NonLost(rows) : rows[i].index \in Index
    BY TableFacts DEF TypeOK
  <1>3. Indices(rows, Retiring \cap NonLost(rows)) \in SUBSET Index
    BY <1>2 DEF Indices
  <1>4. QED
    BY <1>1, <1>3 DEF CutShort

\* An object that lands, and one that is damaged or deleted.
LEMMA RemoteType ==
    ASSUME TypeOK, NEW p \in Provider, NEW x \in Index, NEW s \in {"good", "bad", "gone"},
           remote' = [remote EXCEPT ![p][x] = s]
    PROVE  remote' \in [Provider -> [Index -> {"never", "good", "bad", "gone"}]]
  BY DEF TypeOK

\* A new row of the table.
LEMMA NewRowFacts ==
    ASSUME TypeOK, NEW i \in RowId, NEW p \in Provider, NEW x \in Index, rows[i] = NoRow,
           rows' = [rows EXCEPT ![i] = [prov |-> p, index |-> x, state |-> "stored"]]
    PROVE  /\ rows' \in Table /\ Ids(rows') = Ids(rows) \cup {i}
           /\ rows'[i].prov = p /\ rows'[i].index = x
           /\ \A j \in Ids(rows) : rows'[j] = rows[j]
           /\ NonLost(rows') = NonLost(rows) \cup {i}
  <1> DEFINE new == [prov |-> p, index |-> x, state |-> "stored"]
  <1>1. new \in Row /\ new # NoRow /\ new.state = "stored" /\ new.prov = p /\ new.index = x
    BY NoRowAssumption DEF Row, NoRowAssumption
  <1> HIDE DEF new
  <1>2. rows' = [rows EXCEPT ![i] = new]
    BY DEF new
  <1>3. rows' \in Table /\ rows'[i] = new /\ \A j \in RowId : j # i => rows'[j] = rows[j]
    BY <1>1, <1>2 DEF TypeOK, Table
  <1>4. Ids(rows') = Ids(rows) \cup {i}
    BY <1>1, <1>3 DEF Ids
  <1>5. QED
    BY <1>1, <1>3, <1>4 DEF NonLost, Ids

\* A placement gives every share one provider, and no provider two.
LEMMA PlacementFacts ==
    ASSUME NEW X \in SUBSET Index, NEW among \in SUBSET Provider, NEW plan \in Placements(X, among)
    PROVE  /\ plan \in SUBSET (Index \X Provider) /\ Injective(plan)
           /\ \A a \in plan : a[1] \in X /\ a[2] \in among
           /\ \A x \in X : \E a \in plan : a[1] = x
  <1>1. /\ plan \subseteq X \X among /\ {a[1] : a \in plan} = X
        /\ Cardinality(plan) = Cardinality(X)
        /\ \A a, b \in plan : a[2] = b[2] => a = b
    BY DEF Placements
  <1>2. IsFiniteSet(Index)
    BY ErasureAssumption, FS_Interval DEF Index, ErasureAssumption
  <1>3. IsFiniteSet(X) /\ IsFiniteSet(among)
    BY <1>2, ErasureAssumption, FS_Subset DEF ErasureAssumption
  <1>4. IsFiniteSet(X \X among)
    BY <1>3, FS_Product
  <1>5. IsFiniteSet(plan)
    BY <1>1, <1>4, FS_Subset
  <1> DEFINE f == [a \in plan |-> a[1]]
  <1>6. f \in Surjection(plan, X)
    BY <1>1 DEF Surjection
  <1>7. f \in Injection(plan, X)
    BY <1>1, <1>5, <1>6, FS_Surjection
  <1>8. \A a, b \in plan : a[1] = b[1] => a = b
    BY <1>7 DEF Injection, IsInjective
  <1>9. QED
    BY <1>1, <1>8 DEF Injective

\* The rows of an upload: share i - 1 has row i.
LEMMA InsertedFacts ==
    ASSUME NEW plan \in SUBSET (Index \X Provider), \A x \in Index : \E a \in plan : a[1] = x
    PROVE  /\ Inserted(plan) \in Table
           /\ \A i \in Ids(Inserted(plan)) :
                 /\ Inserted(plan)[i].index = i - 1
                 /\ \E a \in plan : a[1] = i - 1 /\ a[2] = Inserted(plan)[i].prov
  <1> DEFINE home(x) == CHOOSE a \in plan : a[1] = x
             row(i) == [prov |-> home(i - 1)[2], index |-> i - 1, state |-> "stored"]
  <1>1. \A x \in Index : home(x) \in plan /\ home(x)[1] = x
    OBVIOUS
  <1>2. \A x \in Index : home(x)[2] \in Provider
    BY <1>1
  <1> HIDE DEF home
  <1>3. \A i \in RowId : i - 1 \in Index => row(i) \in Row
    BY <1>2 DEF Row
  <1>4. Inserted(plan) = [i \in RowId |-> IF i - 1 \in Index THEN row(i) ELSE NoRow]
    BY DEF Inserted, home
  <1>5. Inserted(plan) \in Table
    BY <1>3, <1>4 DEF Table
  <1>6. ASSUME NEW i \in Ids(Inserted(plan))
        PROVE  i - 1 \in Index /\ Inserted(plan)[i] = row(i)
    BY <1>4 DEF Ids
  <1>7. ASSUME NEW i \in Ids(Inserted(plan))
        PROVE  /\ Inserted(plan)[i].index = i - 1
               /\ \E a \in plan : a[1] = i - 1 /\ a[2] = Inserted(plan)[i].prov
    <2>1. row(i).index = i - 1 /\ row(i).prov = home(i - 1)[2]
      OBVIOUS
    <2>2. home(i - 1) \in plan /\ home(i - 1)[1] = i - 1
      BY <1>1, <1>6, <1>7
    <2> HIDE DEF row
    <2>3. QED
      BY <1>6, <1>7, <2>1, <2>2
  <1>8. QED
    BY <1>5, <1>7

----------------------------------------------------------------------------
(* What steps have in common.                                              *)

\* Rows change so that none counts that did not, and none moves.
NothingCountsAnew ==
    \A i \in NonLost(rows') :
        i \in NonLost(rows) /\ rows'[i].prov = rows[i].prov /\ rows'[i].index = rows[i].index

\* Rows change so that each stays as it is but for its state, and counts if it did.
RowsStay ==
    /\ Ids(rows') = Ids(rows) /\ NonLost(rows') = NonLost(rows)
    /\ \A i \in Ids(rows) : rows'[i].prov = rows[i].prov /\ rows'[i].index = rows[i].index

\* Then rows that were apart are apart.
LEMMA StaysDistinct ==
    ASSUME Distinct, NothingCountsAnew, faults.torn \subseteq faults'.torn,
           \A i \in NonLost(rows') : i \in Retiring => i \in Retiring'
    PROVE  Distinct'
  BY DEF Distinct, NothingCountsAnew

\* A step that changes neither table nor history keeps them apart, as long as no
\* row that is still to be written off is forgotten.
LEMMA QuietlyDistinct ==
    ASSUME ErasureInv, UNCHANGED rows, Answers \/ CallFails \/ Loss, Retiring \subseteq Retiring'
    PROVE  Distinct'
  <1>1. faults'.torn = faults.torn
    BY FaultsType DEF ErasureInv
  <1>2. QED
    BY <1>1 DEF ErasureInv, Distinct

\* Rows that stay are rows that do not count anew.
LEMMA StayingIsTame ==
    ASSUME RowsStay
    PROVE  NothingCountsAnew
  BY DEF RowsStay, NothingCountsAnew, NonLost

\* What every row that counts is.
LEMMA CountsMeans ==
    ASSUME rows \in Table, NEW i \in Ids(rows)
    PROVE  i \in NonLost(rows) <=> rows[i].state # "lost"
  BY DEF NonLost

\* A job is not disturbed by what downloads do to the rows, nor, in the end, by
\* the removal of a provider.
LEMMA JobUndisturbed ==
    ASSUME ErasureInv, rows' \in Table, UNCHANGED <<job, stored>>, provs' \subseteq provs,
           \/ RowsStay /\ provs' = provs
           \/ NothingCountsAnew /\ \E p \in provs : p \notin provs'
    PROVE  JobInv'
  <1>1. NothingCountsAnew
    BY StayingIsTame
  <1>2. ASSUME job.at \in {"fetch", "upload"}
        PROVE  PictureTrue'
    <2>1. CASE \E p \in provs : p \notin provs'
      BY <1>2, <2>1 DEF ErasureInv, JobInv, PictureTrue
    <2>2. CASE RowsStay /\ provs' = provs
      <3>1. SUFFICES ASSUME job.handles \subseteq provs, NEW i \in Ids(job.seen)
                     PROVE  /\ rows'[i] # NoRow
                            /\ rows'[i].prov = job.seen[i].prov /\ rows'[i].index = job.seen[i].index
                            /\ job.seen[i].state = "stored" => rows'[i].state # "lost"
        BY <2>2 DEF PictureTrue
      <3>2. /\ rows[i] # NoRow
            /\ rows[i].prov = job.seen[i].prov /\ rows[i].index = job.seen[i].index
            /\ job.seen[i].state = "stored" => rows[i].state # "lost"
        BY <1>2, <3>1 DEF ErasureInv, JobInv, PictureTrue
      <3>3. job.seen \in Table
        BY <1>2, JobFacts DEF ErasureInv, Job
      <3>4. i \in Ids(rows)
        BY <3>2, <3>3, TableFacts DEF Ids
      <3>5. QED
        BY <2>2, <3>2, <3>4 DEF RowsStay, NonLost, Ids
    <2>3. QED
      BY <2>1, <2>2
  <1>3. ASSUME NEW i \in NonLost(rows'), Fetched(i)
        PROVE  Fetched(i)'
    BY <1>1, <1>3 DEF NothingCountsAnew, Fetched
  <1>4. ASSUME job.at = "upload"
        PROVE  MadeGood'
    <2>1. CASE \E p \in provs : p \notin provs'
      BY <1>4, <2>1 DEF ErasureInv, JobInv, MadeGood
    <2>2. CASE RowsStay /\ provs' = provs
      BY <1>4, <2>2 DEF ErasureInv, JobInv, MadeGood, RowsStay, NonLost
    <2>3. QED
      BY <2>1, <2>2
  <1>5. job.at = "upload" => PlanSound' /\ OnlyPlanned'
    <2>1. job.at = "upload" => PlanSound'
      BY DEF ErasureInv, JobInv, PlanSound, Free
    <2>2. job.at = "upload" => OnlyPlanned'
      BY <1>1, <1>3 DEF ErasureInv, JobInv, OnlyPlanned, NothingCountsAnew
    <2>3. QED
      BY <2>1, <2>2
  <1>6. job.at = "fetch" => \A i \in NonLost(rows') : Fetched(i)'
    BY <1>1, <1>3 DEF ErasureInv, JobInv, NothingCountsAnew
  <1>7. job.at \in {"fetch", "upload"} => /\ provs' \subseteq job.handles
                                          /\ job.stale \subseteq InState(job.seen, "suspect")
    BY DEF ErasureInv, JobInv
  <1>8. QED
    BY <1>2, <1>4, <1>5, <1>6, <1>7 DEF ErasureInv, JobInv

\* What a repair that is cut short leaves is on record.
LEMMA CutShortIsDistinct ==
    ASSUME ErasureInv, UNCHANGED rows, faults'.torn = CutShort, job' = Idle
    PROVE  Distinct'
  <1>1. Retiring' = {}
    BY DEF Retiring, Idle
  <1>2. SUFFICES ASSUME NEW i \in NonLost(rows), NEW j \in NonLost(rows),
                        \/ rows[i].prov = rows[j].prov
                        \/ rows[i].index = rows[j].index /\ rows[i].index \notin CutShort
                 PROVE  i = j
    BY DEF Distinct
  <1>3. rows[i].index \notin CutShort => rows[i].index \notin faults.torn /\ i \notin Retiring
    BY DEF CutShort, Indices
  <1>4. rows[i].index = rows[j].index /\ rows[i].index \notin CutShort => j \notin Retiring
    BY DEF CutShort, Indices
  <1>5. QED
    BY <1>2, <1>3, <1>4 DEF ErasureInv, Distinct

\* When a job ends nothing is left to hold.
LEMMA IdleJob ==
    ASSUME job' = Idle
    PROVE  JobInv' /\ job' \in {Idle} \cup Job
  BY DEF JobInv, Idle

\* A download is not disturbed by others.
LEMMA GetUndisturbed ==
    ASSUME NEW r \in Reader, GetInv(r), get'[r] = get[r]
    PROVE  GetInv(r)'
  BY DEF GetInv

\* What a step of the job has to keep.
LEMMA JobStep ==
    ASSUME ErasureInv, UNCHANGED <<get, provs>>, rows' \in Table, stored' \in BOOLEAN,
           remote' \in [Provider -> [Index -> {"never", "good", "bad", "gone"}]],
           Answers \/ CallFails \/ Loss,
           job' \in {Idle} \cup Job, JobInv', Distinct', NoStrays'
    PROVE  ErasureInv'
  <1>1. faults' \in [losses : 0..MaxLosses, failures : 0..MaxFailures, torn : SUBSET Index]
    BY FaultsType DEF ErasureInv
  <1>2. \A r \in Reader : GetInv(r)'
    BY GetUndisturbed DEF ErasureInv
  <1>3. TypeOK'
    BY <1>1 DEF ErasureInv, TypeOK
  <1>4. QED
    BY <1>2, <1>3 DEF ErasureInv

\* The same, when the register is left alone.
LEMMA QuietJobStep ==
    ASSUME ErasureInv, UNCHANGED <<get, registerVars>>,
           remote' \in [Provider -> [Index -> {"never", "good", "bad", "gone"}]],
           Answers \/ CallFails \/ Loss,
           job' \in {Idle} \cup Job, JobInv', Retiring \subseteq Retiring'
    PROVE  ErasureInv'
  <1>1. Distinct' /\ NoStrays'
    BY QuietlyDistinct DEF ErasureInv, registerVars, NoStrays
  <1>2. rows' \in Table /\ stored' \in BOOLEAN /\ UNCHANGED provs
    BY DEF ErasureInv, TypeOK, registerVars
  <1>3. QED
    BY <1>1, <1>2, JobStep

----------------------------------------------------------------------------
(* The steps of a job.                                                     *)

\* A scrub or a removal takes the rows as they are.
LEMMA StartInv ==
    ASSUME ErasureInv, StartRemove \/ \E deep, repair \in BOOLEAN : StartScrub(deep, repair)
    PROVE  ErasureInv'
  <1>1. TypeOK /\ rows \in Table
    BY DEF ErasureInv, TypeOK
  <1>2. NonLost(rows) \in SUBSET RowId /\ Ids(rows) \in SUBSET RowId /\ NonLost(rows) \subseteq Ids(rows)
    BY <1>1, TableFacts
  <1>3. UNCHANGED <<get, registerVars, remote>> /\ Answers
    BY DEF StartRemove, StartScrub, Answers
  <1>4. job' \in Job /\ job'.at \in {"scrub", "remove"} /\ job'.todo \subseteq Ids(job'.seen)
    <2>1. ASSUME NEW deep \in BOOLEAN, NEW repair \in BOOLEAN, StartScrub(deep, repair)
          PROVE  job' \in Job /\ job'.at = "scrub" /\ job'.todo \subseteq Ids(job'.seen)
      <3> DEFINE s == Starting("scrub")
                 n == NonLost(rows)
      <3>1. s \in Job /\ s.at = "scrub" /\ s.seen = rows
        BY <1>1, StartingFacts
      <3>2. job' = [s EXCEPT !.todo = n, !.handles = {}, !.deep = deep, !.repair = repair]
        BY <2>1 DEF StartScrub, Become
      <3> HIDE DEF s, n
      <3>3. n \in SUBSET RowId /\ n \subseteq Ids(rows)
        BY <1>2 DEF n
      <3>4. job' \in Job /\ job'.at = "scrub" /\ job'.todo = n /\ job'.seen = rows
        BY <3>1, <3>2, <3>3 DEF Job
      <3>5. QED
        BY <3>3, <3>4
    <2>2. ASSUME StartRemove
          PROVE  job' \in Job /\ job'.at = "remove" /\ job'.todo \subseteq Ids(job'.seen)
      <3> DEFINE s == Starting("remove")
                 n == Ids(rows)
      <3>1. s \in Job /\ s.at = "remove" /\ s.seen = rows
        BY <1>1, StartingFacts
      <3>2. job' = [s EXCEPT !.todo = n, !.handles = {}]
        BY <2>2 DEF StartRemove, Become
      <3>3. n \in SUBSET RowId
        BY <1>2
      <3> HIDE DEF s, n
      <3>4. job' \in Job /\ job'.at = "remove" /\ job'.todo = n /\ job'.seen = rows
        BY <3>1, <3>2, <3>3 DEF Job
      <3>5. QED
        BY <3>4 DEF n
    <2>3. QED
      BY <2>1, <2>2
  <1>5. JobInv'
    BY <1>4 DEF JobInv
  <1>6. remote' \in [Provider -> [Index -> {"never", "good", "bad", "gone"}]]
    BY <1>1, <1>3 DEF TypeOK
  <1>7. Retiring = {}
    <2>1. job = Idle
      BY DEF StartRemove, StartScrub
    <2>2. QED
      BY <2>1 DEF Idle, Retiring
  <1>8. QED
    BY <1>3, <1>4, <1>5, <1>6, <1>7, QuietJobStep

\* An upload is placed.
LEMMA StartPutInv ==
    ASSUME ErasureInv, StartPut
    PROVE  ErasureInv'
  <1>1. PICK plan \in Placements(Index, provs) : job' = [Starting("put") EXCEPT !.plan = plan]
    BY DEF StartPut, Become
  <1>2. TypeOK /\ provs \in SUBSET Provider
    BY DEF ErasureInv, TypeOK
  <1>3. /\ plan \in SUBSET (Index \X Provider) /\ Injective(plan)
        /\ \A x \in Index : \E a \in plan : a[1] = x
    BY <1>2, PlacementFacts
  <1> DEFINE s == Starting("put")
  <1>4. s \in Job /\ s.at = "put" /\ s.todo = {}
    BY <1>2, StartingFacts
  <1>5. job' = [s EXCEPT !.plan = plan]
    BY <1>1
  <1> HIDE DEF s
  <1>6. job' \in Job /\ job'.at = "put" /\ job'.todo = {} /\ job'.plan = plan
    BY <1>3, <1>4, <1>5 DEF Job
  <1>7. UNCHANGED <<get, registerVars, remote>> /\ Answers /\ ~stored
    BY DEF StartPut, Answers
  <1>8. JobInv'
    BY <1>3, <1>6, <1>7 DEF JobInv, registerVars
  <1>9. remote' \in [Provider -> [Index -> {"never", "good", "bad", "gone"}]]
    BY <1>2, <1>7 DEF TypeOK
  <1>10. Retiring = {}
    BY DEF StartPut, Idle, Retiring
  <1>11. QED
    BY <1>6, <1>7, <1>8, <1>9, <1>10, QuietJobStep

\* Shares land, a put raises, or the rows are inserted.
LEMMA UploadInv ==
    ASSUME ErasureInv, Upload
    PROVE  ErasureInv'
  <1>1. TypeOK /\ job.at = "put" /\ Retiring = {} /\ job \in Job /\ UNCHANGED <<get, provs>> /\ ~stored
        /\ job.plan \in SUBSET (Index \X Provider)
    BY JobFacts DEF Upload, CommitPut, PutLands, PutRaises, StillToPut, registerVars, ErasureInv, Job,
                    JobInv, Retiring
  <1>2. Injective(job.plan) /\ (\A x \in Index : \E a \in job.plan : a[1] = x)
        /\ job.todo \subseteq Ids(job.seen)
    BY <1>1, JobFacts DEF ErasureInv, JobInv
  <1>3. ASSUME NEW a \in Index \X Provider, PutLands(a) \/ PutRaises(a)
        PROVE  remote' \in [Provider -> [Index -> {"never", "good", "bad", "gone"}]]
    BY <1>1, <1>3, RemoteType DEF PutLands, PutRaises, Lands, TypeOK
  <1>4. ASSUME NEW a \in Index \X Provider, PutLands(a)
        PROVE  ErasureInv'
    <2>1. job' = [job EXCEPT !.shares = @ \cup {a[1]}] /\ UNCHANGED <<get, registerVars>> /\ Answers
      BY <1>4 DEF PutLands, Become, Answers
    <2>2. /\ job' \in Job /\ job'.at = "put" /\ job'.plan = job.plan
          /\ job'.todo = job.todo /\ job'.seen = job.seen
      BY <1>1, <2>1 DEF Job
    <2>3. JobInv'
      BY <1>1, <1>2, <2>1, <2>2 DEF JobInv, registerVars
    <2>4. QED
      BY <1>1, <1>3, <1>4, <2>1, <2>2, <2>3, QuietJobStep
  <1>5. ASSUME NEW a \in Index \X Provider, PutRaises(a)
        PROVE  ErasureInv'
    BY <1>1, <1>3, <1>5, IdleJob, QuietJobStep DEF PutRaises, Ends
  <1>6. CASE CommitPut
    <2>1. job' = Idle /\ UNCHANGED <<get, provs, remote>> /\ Answers
      BY <1>6 DEF CommitPut, Ends, Answers
    <2>2. remote' \in [Provider -> [Index -> {"never", "good", "bad", "gone"}]]
      BY <1>1, <2>1 DEF TypeOK
    <2>3. CASE UNCHANGED <<stored, rows>>
      BY <1>1, <2>1, <2>2, <2>3, IdleJob, QuietJobStep DEF registerVars
    <2>4. CASE stored' = TRUE /\ rows' = Inserted(job.plan)
      <3>1. rows' \in Table
        BY <1>1, <1>2, <2>4, InsertedFacts
      <3>2. \A i \in Ids(rows') : /\ rows'[i].index = i - 1
                                  /\ \E a \in job.plan : a[1] = i - 1 /\ a[2] = rows'[i].prov
        BY <1>1, <1>2, <2>4, InsertedFacts
      <3>3. \A i \in Ids(rows') : i \in Nat
        BY <3>1, TableFacts, ErasureAssumption DEF RowId, ErasureAssumption
      <3>4. ASSUME NEW i \in Ids(rows'), NEW j \in Ids(rows'),
                   rows'[i].prov = rows'[j].prov \/ rows'[i].index = rows'[j].index
            PROVE  i = j
        <4>1. CASE rows'[i].index = rows'[j].index
          BY <3>2, <3>3, <3>4, <4>1
        <4>2. CASE rows'[i].prov = rows'[j].prov
          <5>1. PICK a \in job.plan : a[1] = i - 1 /\ a[2] = rows'[i].prov
            BY <3>2, <3>4
          <5>2. PICK b \in job.plan : b[1] = j - 1 /\ b[2] = rows'[j].prov
            BY <3>2, <3>4
          <5>3. a = b
            BY <1>2, <4>2, <5>1, <5>2 DEF Injective
          <5>4. QED
            BY <3>3, <3>4, <5>1, <5>2, <5>3
        <4>3. QED
          BY <3>4, <4>1, <4>2
      <3>5. Distinct' /\ NoStrays'
        BY <2>4, <3>1, <3>4, TableFacts DEF Distinct, NoStrays
      <3>6. QED
        BY <2>1, <2>2, <2>4, <3>1, <3>5, IdleJob, JobStep
    <2>5. QED
      BY <1>6, <2>3, <2>4 DEF CommitPut
  <1>7. QED
    BY <1>4, <1>5, <1>6 DEF Upload

\* A row is looked at, and set.
LEMMA ScrubInv ==
    ASSUME ErasureInv, NEW i \in RowId, Scrub(i)
    PROVE  ErasureInv'
  <1>1. TypeOK /\ job.at = "scrub" /\ Retiring = {} /\ job \in Job /\ rows \in Table
        /\ UNCHANGED <<provs, stored, remote, get>> /\ i \in job.todo
        /\ job.todo \subseteq Ids(job.seen) /\ (Answers \/ CallFails)
    BY JobFacts DEF Scrub, ErasureInv, JobInv, TypeOK, Retiring
  <1>2. remote' \in [Provider -> [Index -> {"never", "good", "bad", "gone"}]] /\ stored' \in BOOLEAN
    BY <1>1 DEF TypeOK
  <1>3. job.seen \in Table /\ i \in Ids(job.seen)
    BY <1>1 DEF Job
  <1>4. DoneWith(i) \in Job /\ DoneWith(i).at = "scrub"
        /\ DoneWith(i).todo \subseteq Ids(DoneWith(i).seen)
    <2>1. /\ DoneWith(i) \in Job /\ DoneWith(i).at = "scrub" /\ DoneWith(i).todo = job.todo \ {i}
          /\ DoneWith(i).seen = [job.seen EXCEPT ![i] = NoRow]
      BY <1>1, DoneWithFacts
    <2>2. \A j \in RowId : j # i => [job.seen EXCEPT ![i] = NoRow][j] = job.seen[j]
      BY <1>3 DEF Table
    <2>3. QED
      BY <1>1, <2>1, <2>2 DEF Ids
  <1>5. job' = DoneWith(i) => JobInv' /\ job' \in {Idle} \cup Job
    BY <1>4 DEF JobInv
  <1>6. ASSUME NEW s \in {"stored", "suspect", "lost"}, Observed(i, s)
        PROVE  ErasureInv'
    <2>1. CASE CanSet(i, s)
      <3>1. SetState(i, s) /\ job' = DoneWith(i)
        BY <1>6, <2>1 DEF Observed, Become
      <3>2. /\ rows' \in Table /\ Ids(rows') = Ids(rows)
            /\ \A j \in Ids(rows) : rows'[j].prov = rows[j].prov /\ rows'[j].index = rows[j].index
            /\ NonLost(rows') \subseteq NonLost(rows)
        BY <1>1, <2>1, <3>1, SetStateFacts
      <3>3. NothingCountsAnew
        BY <1>1, <3>2, TableFacts DEF NothingCountsAnew
      <3>4. Distinct' /\ NoStrays'
        BY <1>1, <3>2, <3>3, FaultsType, StaysDistinct DEF ErasureInv, NoStrays
      <3>5. QED
        BY <1>1, <1>2, <1>5, <3>1, <3>2, <3>4, JobStep
    <2>2. CASE ~CanSet(i, s)
      BY <1>1, <1>2, <1>6, <2>2, IdleJob, QuietJobStep DEF Observed, Ends, registerVars
    <2>3. QED
      BY <2>1, <2>2
  <1>7. \/ Ends /\ UNCHANGED rows
        \/ \E s \in {"stored", "suspect", "lost"} : Observed(i, s)
    <2> DEFINE p == job.seen[i].prov
               x == job.seen[i].index
               Found == IF job.deep THEN Intact(p, x) ELSE Holds(p, x)
               Corrupt == job.deep /\ remote[p][x] = "bad"
               Cleared == IF job.deep \/ job.seen[i].state = "stored" THEN "stored" ELSE rows[i].state
    <2>1. IF p \notin provs THEN Ends /\ UNCHANGED rows
          ELSE \/ Observed(i, Cleared) \/ Observed(i, IF Corrupt THEN "lost" ELSE Demoted(i))
               \/ Observed(i, Demoted(i))
      BY DEF Scrub
    <2>2. Demoted(i) \in {"stored", "suspect", "lost"}
      BY DEF Demoted
    <2>3. CASE Cleared \in {"stored", "suspect", "lost"}
      BY <2>1, <2>2, <2>3
    <2>4. CASE rows[i] = NoRow
      BY <2>1, <2>2, <2>4 DEF Observed, CanSet
    <2>5. rows[i] # NoRow => rows[i].state \in {"stored", "suspect", "lost"}
      BY <1>1, TableFacts DEF Ids
    <2>6. QED
      BY <2>3, <2>4, <2>5
  <1>8. CASE Ends /\ UNCHANGED rows
    BY <1>1, <1>2, <1>8, IdleJob, QuietJobStep DEF Ends, registerVars
  <1>9. QED
    BY <1>6, <1>7, <1>8

\* The repair that follows takes the rows, and the providers, as they are now.
LEMMA EndScrubInv ==
    ASSUME ErasureInv, EndScrub
    PROVE  ErasureInv'
  <1>1. TypeOK /\ rows \in Table
    BY DEF ErasureInv, TypeOK
  <1>2. UNCHANGED <<get, registerVars, remote>> /\ Answers /\ Retiring = {}
    BY DEF EndScrub, Answers, Retiring
  <1>3. remote' \in [Provider -> [Index -> {"never", "good", "bad", "gone"}]]
    BY <1>1, <1>2 DEF TypeOK
  <1>4. CASE Ends
    BY <1>2, <1>3, <1>4, IdleJob, QuietJobStep DEF Ends
  <1>5. CASE job' = [Starting("fetch") EXCEPT !.todo = NonLost(rows)]
    <2> DEFINE s == Starting("fetch")
               n == NonLost(rows)
    <2>1. /\ s \in Job /\ s.at = "fetch" /\ s.seen = rows /\ s.handles = provs
          /\ s.plan = {} /\ s.told = FALSE /\ s.stale = {}
      BY <1>1, StartingFacts
    <2>2. n \in SUBSET RowId /\ n \subseteq Ids(rows)
      BY <1>1, TableFacts
    <2>3. job' = [s EXCEPT !.todo = n]
      BY <1>5
    <2> HIDE DEF s, n
    <2>4. /\ job' \in Job /\ job'.at = "fetch" /\ job'.todo = n /\ job'.seen = rows
          /\ job'.handles = provs /\ job'.told = FALSE /\ job'.stale = {}
      BY <2>1, <2>2, <2>3 DEF Job
    <2>5. UNCHANGED <<rows, provs>>
      BY <1>2 DEF registerVars
    <2>6. PictureTrue'
      BY <2>4, <2>5 DEF PictureTrue, Ids
    <2>7. \A i \in NonLost(rows') : Fetched(i)'
      BY <2>4, <2>5 DEF Fetched
    <2>8. JobInv'
      BY <2>2, <2>4, <2>5, <2>6, <2>7 DEF JobInv
    <2>9. QED
      BY <1>2, <1>3, <2>4, <2>8, QuietJobStep
  <1>6. QED
    BY <1>4, <1>5 DEF EndScrub, Become

\* Shares are fetched.
LEMMA FetchInv ==
    ASSUME ErasureInv, FetchShort \/ \E i \in RowId : FetchShare(i)
    PROVE  ErasureInv'
  <1>1. /\ TypeOK /\ job.at = "fetch" /\ Retiring = {} /\ job \in Job /\ UNCHANGED <<get, registerVars, remote>>
        /\ job.todo \subseteq Ids(job.seen) /\ (Answers \/ CallFails)
        /\ remote' \in [Provider -> [Index -> {"never", "good", "bad", "gone"}]]
    BY JobFacts DEF FetchShort, FetchShare, ErasureInv, JobInv, TypeOK, Answers, Retiring
  <1>2. CASE FetchShort
    BY <1>1, <1>2, IdleJob, QuietJobStep DEF FetchShort, Ends
  <1>3. ASSUME NEW i \in RowId, FetchShare(i)
        PROVE  ErasureInv'
    <2>1. job.seen \in Table /\ i \in Ids(job.seen) /\ job.seen[i].index \in Index
      BY <1>1, <1>3, TableFacts DEF FetchShare, IsHealthiest, Job
    <2>2. PICK taken \in SUBSET Index :
             job' = [job EXCEPT !.todo = @ \ {i}, !.shares = @ \cup taken]
      <3> DEFINE y == {x \in {job.seen[i].index} : Intact(job.seen[i].prov, x)}
      <3>1. y \in SUBSET Index
        BY <2>1
      <3>2. CASE job' = [job EXCEPT !.todo = @ \ {i}, !.shares = @ \cup y]
        BY <3>1, <3>2
      <3>3. CASE job' = [job EXCEPT !.todo = @ \ {i}]
        <4>1. [job EXCEPT !.todo = @ \ {i}, !.shares = @ \cup {}] = [job EXCEPT !.todo = @ \ {i}]
          BY <1>1 DEF Job
        <4>2. QED
          BY <3>3, <4>1
      <3>4. QED
        BY <1>3, <3>2, <3>3 DEF FetchShare
    <2>3. /\ job' \in Job /\ job'.at = "fetch" /\ job'.todo \subseteq job.todo
          /\ job'.seen = job.seen /\ job'.handles = job.handles /\ job'.told = job.told /\ job'.stale = job.stale
      BY <1>1, <2>2 DEF Job
    <2>4. UNCHANGED <<rows, provs, stored>>
      BY <1>1 DEF registerVars
    <2>5. PictureTrue'
      BY <1>1, <2>3, <2>4 DEF ErasureInv, JobInv, PictureTrue
    <2>6. \A j \in NonLost(rows') : Fetched(j)'
      BY <1>1, <2>3, <2>4 DEF ErasureInv, JobInv, Fetched
    <2>7. JobInv'
      BY <1>1, <2>3, <2>4, <2>5, <2>6 DEF ErasureInv, JobInv
    <2>8. QED
      BY <1>1, <2>3, <2>7, QuietJobStep
  <1>4. QED
    BY <1>2, <1>3

\* The missing shares are placed: those that are not missing have a stored row.
LEMMA PlanRepairInv ==
    ASSUME ErasureInv, PlanRepair
    PROVE  ErasureInv'
  <1>1. /\ TypeOK /\ job.at = "fetch" /\ Retiring = {} /\ job \in Job /\ UNCHANGED <<get, registerVars, remote>>
        /\ job.todo \subseteq Ids(job.seen) /\ (Answers \/ CallFails) /\ job.seen \in Table
        /\ provs \subseteq job.handles /\ PictureTrue /\ (\A i \in NonLost(rows) : Fetched(i))
        /\ job.stale \subseteq InState(job.seen, "suspect")
        /\ remote' \in [Provider -> [Index -> {"never", "good", "bad", "gone"}]]
    BY JobFacts DEF PlanRepair, ErasureInv, JobInv, TypeOK, Answers, Job, Retiring
  <1>2. CASE Ends
    BY <1>1, <1>2, IdleJob, QuietJobStep DEF Ends
  <1>3. ASSUME NEW unreachable \in SUBSET Free(job.seen),
               NEW plan \in Placements(Missing(job.seen), Free(job.seen) \ unreachable),
               job' = [job EXCEPT !.at = "upload", !.plan = plan]
        PROVE  ErasureInv'
    <2>1. Missing(job.seen) \in SUBSET Index /\ Free(job.seen) \ unreachable \in SUBSET Provider
      BY <1>1 DEF Missing, Free, Job
    <2>2. /\ plan \in SUBSET (Index \X Provider) /\ Injective(plan)
          /\ \A a \in plan : a[1] \in Missing(job.seen) /\ a[2] \in Free(job.seen)
          /\ \A x \in Missing(job.seen) : \E a \in plan : a[1] = x
      BY <2>1, PlacementFacts
    <2>3. /\ job' \in Job /\ job'.at = "upload" /\ job'.todo = job.todo /\ job'.seen = job.seen
          /\ job'.handles = job.handles /\ job'.plan = plan /\ job'.stale = job.stale
      BY <1>1, <1>3, <2>2 DEF Job
    <2>4. UNCHANGED <<rows, provs, stored>>
      BY <1>1 DEF registerVars
    <2>5. PictureTrue'
      BY <1>1, <2>3, <2>4 DEF PictureTrue
    <2>6. PlanSound'
      BY <2>2, <2>3 DEF PlanSound, Injective, Free
    <2>7. OnlyPlanned'
      BY <1>1, <2>3, <2>4 DEF OnlyPlanned, Fetched
    <2>8. ASSUME job.handles \subseteq provs, NEW x \in Index, x \notin Missing(job.seen)
          PROVE  \E i \in NonLost(rows) : i \notin InState(job.seen, "suspect") /\ rows[i].index = x
      <3>1. PICK i \in InState(job.seen, "stored") : job.seen[i].index = x
        BY <2>8 DEF Missing, Indices
      <3>2. i \in Ids(job.seen) /\ job.seen[i].state = "stored"
        BY DEF InState
      <3>3. rows[i] # NoRow /\ rows[i].index = x /\ rows[i].state # "lost" /\ i \in RowId
        BY <1>1, <2>8, <3>1, <3>2, TableFacts DEF PictureTrue
      <3>4. QED
        BY <3>2, <3>3 DEF NonLost, Ids, InState
    <2>9. MadeGood'
      BY <2>2, <2>3, <2>4, <2>8 DEF MadeGood
    <2>10. JobInv'
      BY <1>1, <2>3, <2>4, <2>5, <2>6, <2>7, <2>9 DEF JobInv
    <2>11. QED
      BY <1>1, <2>3, <2>10, QuietJobStep
  <1>4. QED
    BY <1>2, <1>3 DEF PlanRepair, Become

\* What holds of a repair that has its plan.
LEMMA UploadingFacts ==
    ASSUME ErasureInv, job.at = "upload"
    PROVE  /\ TypeOK /\ job \in Job /\ job.seen \in Table /\ job.todo \subseteq Ids(job.seen)
           /\ job.plan \in SUBSET (Index \X Provider) /\ Retiring = job.stale
           /\ job.stale \subseteq InState(job.seen, "suspect") /\ job.stale \in SUBSET RowId
           /\ provs \subseteq job.handles /\ PictureTrue /\ PlanSound /\ OnlyPlanned /\ MadeGood
  BY JobFacts DEF ErasureInv, JobInv, Job, Retiring

\* A share is crossed off the plan.
LEMMA UploadedFacts ==
    ASSUME job \in Job, NEW a \in job.plan, NEW stale \in SUBSET RowId, NEW told \in BOOLEAN
    PROVE  /\ Uploaded(a, stale, told) \in Job /\ Uploaded(a, stale, told).at = job.at
           /\ Uploaded(a, stale, told).plan = job.plan \ {a}
           /\ Uploaded(a, stale, told).told = (job.told \/ told)
           /\ Uploaded(a, stale, told).seen = job.seen /\ Uploaded(a, stale, told).todo = job.todo
           /\ Uploaded(a, stale, told).handles = job.handles
           /\ Uploaded(a, stale, told).stale = stale
  <1> DEFINE p == job.plan \ {a}
             t == (job.told \/ told)
  <1>1. p \in SUBSET (Index \X Provider)
    BY DEF Job
  <1>2. t \in BOOLEAN
    BY DEF Job
  <1>3. Uploaded(a, stale, told) = [job EXCEPT !.plan = p, !.stale = stale, !.told = t]
    BY DEF Uploaded, Job
  <1> HIDE DEF p, t
  <1>4. /\ Uploaded(a, stale, told) \in Job /\ Uploaded(a, stale, told).at = job.at
        /\ Uploaded(a, stale, told).plan = p /\ Uploaded(a, stale, told).told = t
        /\ Uploaded(a, stale, told).seen = job.seen /\ Uploaded(a, stale, told).todo = job.todo
        /\ Uploaded(a, stale, told).handles = job.handles
           /\ Uploaded(a, stale, told).stale = stale
    BY <1>1, <1>2, <1>3 DEF Job
  <1>5. QED
    BY <1>4 DEF p, t

\* A share that is to be made goes to a provider without a row that counts, and
\* only the rows it supersedes have its index.
LEMMA ShareIsNew ==
    ASSUME ErasureInv, job.at = "upload", NEW a \in job.plan,
           NEW j \in NonLost(rows)
    PROVE  rows[j].prov # a[2] /\ (rows[j].index = a[1] => j \in Stale(a[1]))
  <1>1. a[1] \in Missing(job.seen) /\ a[2] \in Free(job.seen)
    BY UploadingFacts DEF PlanSound
  <1>2. CASE Fetched(j)
    <2>1. rows[j].prov # a[2]
      BY <1>1, <1>2 DEF Free, ProvidersOf, Fetched
    <2>2. ASSUME rows[j].index = a[1]
          PROVE  j \in Stale(a[1])
      <3>1. j \in Ids(job.seen) /\ job.seen[j].state # "lost" /\ job.seen[j].index = a[1]
        BY <1>2, <2>2 DEF Fetched, NonLost
      <3>2. job.seen[j].state # "stored"
        BY <1>1, <3>1 DEF Missing, Indices, InState
      <3>3. job.seen[j].state = "suspect"
        BY <3>1, <3>2, UploadingFacts, TableFacts
      <3>4. QED
        BY <3>1, <3>3 DEF Stale, InState
    <2>3. QED
      BY <2>1, <2>2
  <1>3. CASE ~Fetched(j)
    BY <1>3, UploadingFacts DEF OnlyPlanned
  <1>4. QED
    BY <1>2, <1>3

\* The picture stays true while no row moves, and none that it has as stored is lost.
LEMMA PictureStays ==
    ASSUME PictureTrue, UNCHANGED provs, job.seen \in Table,
           job'.seen = job.seen, job'.handles = job.handles,
           \A j \in Ids(rows) :
              /\ rows'[j] # NoRow
              /\ rows'[j].prov = rows[j].prov /\ rows'[j].index = rows[j].index
              /\ job.seen[j].state = "stored" => rows'[j].state = rows[j].state
    PROVE  PictureTrue'
  <1>1. SUFFICES ASSUME job.handles \subseteq provs, NEW j \in Ids(job.seen)
                 PROVE  /\ rows'[j] # NoRow
                        /\ rows'[j].prov = job.seen[j].prov /\ rows'[j].index = job.seen[j].index
                        /\ job.seen[j].state = "stored" => rows'[j].state # "lost"
    BY DEF PictureTrue
  <1>2. /\ rows[j] # NoRow
        /\ rows[j].prov = job.seen[j].prov /\ rows[j].index = job.seen[j].index
        /\ job.seen[j].state = "stored" => rows[j].state # "lost"
    BY <1>1 DEF PictureTrue
  <1>3. j \in Ids(rows)
    BY <1>1, <1>2, TableFacts DEF Ids
  <1>4. QED
    BY <1>2, <1>3

\* A share is uploaded: its row is added, and the rows it supersedes are to be
\* written off.
LEMMA ShareAdded ==
    ASSUME ErasureInv, job.at = "upload", job.stale = {}, NEW a \in job.plan,
           NEW i \in RowId, rows[i] = NoRow,
           rows' = [rows EXCEPT ![i] = [prov |-> a[2], index |-> a[1], state |-> "stored"]],
           UNCHANGED <<provs, stored, faults>>, stored, job' = Uploaded(a, Stale(a[1]), FALSE)
    PROVE  rows' \in Table /\ Distinct' /\ NoStrays' /\ JobInv' /\ job' \in Job
  <1> DEFINE x == a[1]
             p == a[2]
             stale == Stale(a[1])
  <1>1. x \in Index /\ p \in Provider
    BY UploadingFacts
  <1>2. /\ rows' \in Table /\ Ids(rows') = Ids(rows) \cup {i}
        /\ rows'[i].prov = p /\ rows'[i].index = x
        /\ \A j \in Ids(rows) : rows'[j] = rows[j]
        /\ NonLost(rows') = NonLost(rows) \cup {i}
    BY <1>1, UploadingFacts, NewRowFacts
  <1>3. NonLost(rows) \subseteq Ids(rows) /\ i \notin Ids(rows)
    BY UploadingFacts, TableFacts DEF TypeOK, Ids
  <1>4. \A j \in NonLost(rows) : rows[j].prov # p /\ (rows[j].index = x => j \in stale)
    BY ShareIsNew
  <1>5. stale \subseteq InState(job.seen, "suspect") /\ stale \in SUBSET RowId
    BY UploadingFacts, TableFacts DEF Stale
  <1> HIDE DEF x, p, stale
  <1>6. /\ job' \in Job /\ job'.at = "upload" /\ job'.plan = job.plan \ {a} /\ job'.stale = stale
        /\ job'.seen = job.seen /\ job'.todo = job.todo /\ job'.handles = job.handles
        /\ job'.told = job.told
    <2>1. job.told \in BOOLEAN
      BY UploadingFacts DEF Job
    <2>2. QED
      BY <1>5, <2>1, UploadingFacts, UploadedFacts DEF stale
  <1>7. Distinct'
    <2>1. Retiring = {} /\ Retiring' = stale
      BY <1>6, UploadingFacts DEF Retiring
    <2>2. SUFFICES ASSUME NEW j \in NonLost(rows'), NEW k \in NonLost(rows'),
                          \/ rows'[j].prov = rows'[k].prov
                          \/ rows'[j].index = rows'[k].index /\ rows'[j].index \notin faults.torn
                             /\ j \notin stale /\ k \notin stale
                   PROVE  j = k
      BY <2>1 DEF Distinct
    <2>3. CASE j \in NonLost(rows) /\ k \in NonLost(rows)
      BY <1>2, <1>3, <2>1, <2>2, <2>3 DEF ErasureInv, Distinct
    <2>4. CASE j = i /\ k \in NonLost(rows)
      BY <1>2, <1>3, <1>4, <2>2, <2>4
    <2>5. CASE j \in NonLost(rows) /\ k = i
      BY <1>2, <1>3, <1>4, <2>2, <2>5
    <2>6. QED
      BY <1>2, <2>2, <2>3, <2>4, <2>5
  <1>8. NoStrays'
    BY DEF NoStrays
  <1>9. JobInv'
    <2>1. \A b \in job'.plan : b[1] # x /\ b[2] # p
      BY <1>6, UploadingFacts DEF PlanSound, x, p
    <2>2. PictureTrue'
      <3>1. \A j \in Ids(rows) : rows'[j] = rows[j] /\ rows'[j] # NoRow
        BY <1>2 DEF Ids
      <3>2. QED
        BY <1>6, <3>1, UploadingFacts, PictureStays
    <2>3. PlanSound'
      BY <1>6, UploadingFacts DEF PlanSound, Free
    <2>4. OnlyPlanned'
      <3>1. SUFFICES ASSUME NEW j \in NonLost(rows')
                     PROVE  Fetched(j)' \/ \A b \in job'.plan : b[1] # rows'[j].index /\ b[2] # rows'[j].prov
        BY DEF OnlyPlanned
      <3>2. CASE j = i
        BY <1>2, <2>1, <3>2
      <3>3. CASE j # i
        <4>1. j \in NonLost(rows) /\ rows'[j] = rows[j]
          BY <1>2, <1>3, <3>1, <3>3
        <4>2. Fetched(j) => Fetched(j)'
          BY <1>6, <4>1 DEF Fetched
        <4>3. QED
          BY <1>6, <4>1, <4>2, UploadingFacts DEF OnlyPlanned
      <3>4. QED
        BY <3>2, <3>3
    <2>5. MadeGood'
      <3>1. SUFFICES ASSUME ~job.told, job.handles \subseteq provs, NEW y \in Index
                     PROVE  \/ \E b \in job'.plan : b[1] = y
                            \/ \E j \in NonLost(rows') :
                                  j \notin InState(job.seen, "suspect") /\ rows'[j].index = y
        BY <1>6 DEF MadeGood
      <3>2. i \notin Ids(job.seen)
        BY <1>3, <3>1, UploadingFacts DEF PictureTrue, Ids
      <3>3. CASE y = x
        BY <1>2, <3>2, <3>3 DEF InState
      <3>4. CASE \E b \in job.plan : b[1] = y /\ y # x
        BY <1>6, <3>4 DEF x
      <3>5. CASE \E j \in NonLost(rows) : j \notin InState(job.seen, "suspect") /\ rows[j].index = y
        BY <1>2, <1>3, <3>5
      <3>6. QED
        BY <3>1, <3>3, <3>4, <3>5, UploadingFacts DEF MadeGood
    <2>6. QED
      BY <1>5, <1>6, <2>2, <2>3, <2>4, <2>5, UploadingFacts DEF JobInv
  <1>10. QED
    BY <1>2, <1>6, <1>7, <1>8, <1>9

\* A superseded row is written off, or, having gone, ends the repair.
LEMMA RetireShareInv ==
    ASSUME ErasureInv, NEW i \in RowId, RetireShare(i)
    PROVE  ErasureInv'
  <1>1. job.at = "upload" /\ i \in job.stale /\ UNCHANGED <<provs, stored, remote, get>>
    BY DEF RetireShare, Retiring
  <1>2. TypeOK /\ rows \in Table
    BY DEF ErasureInv, TypeOK
  <1>3. CASE SetState(i, "lost") /\ CanSet(i, "lost") /\ Answers
             /\ job' = [job EXCEPT !.stale = @ \ {i}]
    <2>1. /\ rows' \in Table /\ Ids(rows') = Ids(rows)
          /\ \A j \in Ids(rows) : rows'[j].prov = rows[j].prov /\ rows'[j].index = rows[j].index
          /\ NonLost(rows') \subseteq NonLost(rows) \ {i}
      BY <1>2, <1>3, SetStateFacts
    <2>2. \A j \in RowId : j # i => rows'[j] = rows[j]
      BY <1>2, <1>3 DEF SetState, Table
    <2> DEFINE stale == job.stale \ {i}
    <2>3. job' = [job EXCEPT !.stale = stale] /\ stale \in SUBSET RowId
      BY <1>1, <1>3, UploadingFacts DEF Job
    <2>4. stale \subseteq InState(job.seen, "suspect")
      BY <1>1, UploadingFacts
    <2>5. i \in InState(job.seen, "suspect")
      BY <1>1, UploadingFacts
    <2>6. \A j \in NonLost(rows') : j \in Retiring => j \in stale
      BY <1>1, <2>1, UploadingFacts
    <2> HIDE DEF stale
    <2>7. /\ job' \in Job /\ job'.at = "upload" /\ job'.plan = job.plan /\ job'.stale = stale
          /\ job'.seen = job.seen /\ job'.todo = job.todo /\ job'.handles = job.handles
          /\ job'.told = job.told
      BY <1>1, <2>3, UploadingFacts DEF Job
    <2>8. NothingCountsAnew
      BY <1>2, <2>1, TableFacts DEF NothingCountsAnew
    <2>9. Distinct'
      BY <1>3, <2>6, <2>7, <2>8, StaysDistinct DEF ErasureInv, Retiring, Answers
    <2>10. NoStrays'
      BY <1>1, <2>1 DEF ErasureInv, NoStrays
    <2>11. PictureTrue'
      <3>1. ASSUME NEW j \in Ids(rows)
            PROVE  /\ rows'[j] # NoRow
                   /\ job.seen[j].state = "stored" => rows'[j].state = rows[j].state
        BY <1>2, <2>1, <2>2, <2>5, TableFacts DEF InState, Ids
      <3>2. QED
        BY <1>1, <2>1, <2>7, <3>1, UploadingFacts, PictureStays
    <2>12. PlanSound'
      BY <1>1, <2>7, UploadingFacts DEF PlanSound, Free
    <2>13. OnlyPlanned'
      BY <1>1, <2>7, <2>8, UploadingFacts DEF OnlyPlanned, NothingCountsAnew, Fetched
    <2>14. MadeGood'
      <3>1. SUFFICES ASSUME ~job.told, job.handles \subseteq provs, NEW y \in Index
                     PROVE  \/ \E b \in job.plan : b[1] = y
                            \/ \E j \in NonLost(rows') :
                                  j \notin InState(job.seen, "suspect") /\ rows'[j].index = y
        BY <1>1, <2>7 DEF MadeGood
      <3>2. ASSUME NEW j \in NonLost(rows), j \notin InState(job.seen, "suspect")
            PROVE  j \in NonLost(rows') /\ rows'[j] = rows[j]
        BY <1>2, <2>1, <2>2, <2>5, <3>2, TableFacts DEF NonLost, Ids
      <3>3. QED
        BY <1>1, <3>1, <3>2, UploadingFacts DEF MadeGood
    <2>15. JobInv'
      BY <1>1, <2>4, <2>7, <2>11, <2>12, <2>13, <2>14, UploadingFacts DEF JobInv
    <2>16. QED
      BY <1>1, <1>2, <1>3, <2>1, <2>7, <2>9, <2>10, <2>15, JobStep DEF TypeOK
  <1>4. CASE job' = Idle /\ UNCHANGED rows /\ faults' = [faults EXCEPT !.torn = CutShort]
    <2>1. faults' \in [losses : 0..MaxLosses, failures : 0..MaxFailures, torn : SUBSET Index]
          /\ faults'.torn = CutShort
      BY <1>2, <1>4, CutShortType DEF TypeOK
    <2>2. Distinct'
      BY <1>4, <2>1, CutShortIsDistinct
    <2>3. TypeOK'
      BY <1>1, <1>2, <1>4, <2>1 DEF TypeOK
    <2>4. JobInv' /\ NoStrays' /\ \A r \in Reader : GetInv(r)'
      BY <1>1, <1>4, IdleJob, GetUndisturbed DEF ErasureInv, NoStrays
    <2>5. QED
      BY <2>2, <2>3, <2>4 DEF ErasureInv
  <1>5. QED
    BY <1>3, <1>4 DEF RetireShare, Become, Ends

\* The uploads of a repair.
LEMMA RepairInv ==
    ASSUME ErasureInv, EndRepair \/ \E a \in Index \X Provider : UploadShare(a) \/ UploadRaises(a)
    PROVE  ErasureInv'
  <1>1. TypeOK /\ job.at = "upload"
    BY DEF ErasureInv, EndRepair, UploadShare, UploadRaises, IsNextShare
  <1>2. CASE EndRepair
    BY <1>1, <1>2, IdleJob, QuietJobStep DEF EndRepair, Ends, TypeOK, Answers, Retiring
  <1>3. ASSUME NEW a \in Index \X Provider, UploadShare(a)
        PROVE  ErasureInv'
    <2>1. remote' \in [Provider -> [Index -> {"never", "good", "bad", "gone"}]]
      BY <1>1, <1>3, RemoteType DEF UploadShare, Lands
    <2>2. /\ a \in job.plan /\ job.stale = {} /\ Retiring = {}
          /\ UNCHANGED <<provs, stored, get, faults>>
      BY <1>3 DEF UploadShare, IsNextShare, Retiring
    <2>3. CASE Ends /\ UNCHANGED rows
      BY <2>1, <2>2, <2>3, IdleJob, QuietJobStep DEF Ends, registerVars, Answers
    <2>4. ASSUME stored, NEW i \in RowId, IsNextId(i),
                 rows' = [rows EXCEPT ![i] = [prov |-> a[2], index |-> a[1], state |-> "stored"]],
                 job' = Uploaded(a, Stale(a[1]), FALSE)
          PROVE  ErasureInv'
      <3>1. rows[i] = NoRow
        <4>1. i >= i
          BY ErasureAssumption DEF RowId, ErasureAssumption
        <4>2. QED
          BY <2>4, <4>1 DEF IsNextId
      <3>2. rows' \in Table /\ Distinct' /\ NoStrays' /\ JobInv' /\ job' \in Job
        BY <1>1, <2>2, <2>4, <3>1, ShareAdded
      <3>3. QED
        BY <1>1, <2>1, <2>2, <3>2, JobStep DEF TypeOK, Answers
    <2>5. QED
      BY <1>3, <2>3, <2>4 DEF UploadShare, Become
  <1>4. ASSUME NEW a \in Index \X Provider, UploadRaises(a)
        PROVE  ErasureInv'
    <2>1. remote' \in [Provider -> [Index -> {"never", "good", "bad", "gone"}]]
      BY <1>1, <1>4, RemoteType DEF UploadRaises, Lands, TypeOK
    <2>2. a \in job.plan /\ UNCHANGED <<registerVars, get>> /\ CallFails /\ job' = Uploaded(a, {}, TRUE)
          /\ Retiring = {}
      BY <1>4 DEF UploadRaises, IsNextShare, Become, Retiring
    <2>3. /\ job' \in Job /\ job'.at = "upload" /\ job'.plan = job.plan \ {a} /\ job'.told
          /\ job'.seen = job.seen /\ job'.todo = job.todo /\ job'.handles = job.handles
          /\ job'.stale = {}
      <3>1. job.told \in BOOLEAN
        BY <1>1, UploadingFacts DEF Job
      <3>2. QED
        BY <1>1, <2>2, <3>1, {} \in SUBSET RowId, UploadingFacts, UploadedFacts
    <2>4. UNCHANGED <<rows, provs, stored>>
      BY <2>2 DEF registerVars
    <2>5. PictureTrue' /\ MadeGood'
      BY <1>1, <2>3, <2>4, UploadingFacts DEF PictureTrue, MadeGood
    <2>6. PlanSound'
      BY <1>1, <2>3, UploadingFacts DEF PlanSound, Free
    <2>7. OnlyPlanned'
      BY <1>1, <2>3, <2>4, UploadingFacts DEF OnlyPlanned, Fetched
    <2>8. JobInv'
      BY <1>1, <2>3, <2>4, <2>5, <2>6, <2>7, UploadingFacts DEF JobInv
    <2>9. QED
      BY <2>1, <2>2, <2>3, <2>8, QuietJobStep
  <1>5. QED
    BY <1>2, <1>3, <1>4

\* The removal of the file, share by share, and its rows at the end.
LEMMA RemoveInv ==
    ASSUME ErasureInv, Remove
    PROVE  ErasureInv'
  <1>1. /\ TypeOK /\ job.at = "remove" /\ Retiring = {} /\ job \in Job /\ UNCHANGED <<provs, get>>
        /\ job.todo \subseteq Ids(job.seen) /\ job.seen \in Table
    BY JobFacts DEF Remove, EndRemove, RemoveShare, registerVars, ErasureInv, JobInv, Job, Retiring
  <1>2. CASE EndRemove
    <2>1. rows' \in Table /\ Ids(rows') = {}
      BY <1>2 DEF EndRemove, Table, Ids
    <2>2. Distinct' /\ NoStrays'
      BY <2>1 DEF Distinct, NoStrays, NonLost
    <2>3. QED
      BY <1>1, <1>2, <2>1, <2>2, IdleJob, JobStep DEF EndRemove, Ends, TypeOK, Answers
  <1>3. ASSUME NEW i \in RowId, RemoveShare(i)
        PROVE  ErasureInv'
    <2> DEFINE p == job.seen[i].prov
               d == DoneWith(i)
               h == job.handles \cup {p}
    <2>1. i \in Ids(job.seen) /\ p \in Provider /\ job.seen[i].index \in Index
      BY <1>1, <1>3, TableFacts DEF RemoveShare
    <2>2. remote' \in [Provider -> [Index -> {"never", "good", "bad", "gone"}]]
          /\ (Answers \/ CallFails) /\ UNCHANGED <<get, registerVars>>
      BY <1>1, <1>3, <2>1, RemoteType DEF RemoveShare, TypeOK
    <2>3. CASE Ends
      BY <1>1, <2>2, <2>3, IdleJob, QuietJobStep DEF Ends
    <2>4. CASE job' = [DoneWith(i) EXCEPT !.handles = @ \cup {p}]
      <3>1. /\ d \in Job /\ d.at = "remove" /\ d.todo = job.todo \ {i}
            /\ d.seen = [job.seen EXCEPT ![i] = NoRow] /\ d.handles = job.handles
        BY <1>1, DoneWithFacts
      <3>2. d.todo \subseteq Ids(d.seen)
        BY <1>1, <3>1 DEF Ids, Table
      <3>3. h \in SUBSET Provider
        BY <1>1, <2>1 DEF Job
      <3>4. job' = [d EXCEPT !.handles = h]
        BY <2>4, <3>1 DEF Job
      <3> HIDE DEF d, h
      <3>5. job' \in Job /\ job'.at = "remove" /\ job'.todo = d.todo /\ job'.seen = d.seen
        BY <3>1, <3>3, <3>4 DEF Job
      <3>6. JobInv'
        BY <3>2, <3>5 DEF JobInv
      <3>7. QED
        BY <1>1, <2>2, <3>5, <3>6, QuietJobStep
    <2>5. QED
      BY <1>3, <2>3, <2>4 DEF RemoveShare, Become
  <1>4. QED
    BY <1>2, <1>3 DEF Remove

----------------------------------------------------------------------------
(* Downloads, and what happens to the process and to the providers.        *)

\* A download that goes on, with a share more or without, is one.
LEMMA NotIdle ==
    ASSUME NEW g \in Download, NEW i, NEW x
    PROVE  LET rest == [g EXCEPT !.todo = @ \ {i}, !.seen[i] = NoRow]
           IN  /\ rest # Idle
               /\ [rest EXCEPT !.shares = @ \cup {x}] # Idle
               /\ [rest EXCEPT !.failed = @ \cup {x}] # Idle
  BY DEF Download, Idle

\* What a step of a download has to keep.
LEMMA ReadStep ==
    ASSUME ErasureInv, NEW r \in Reader, UNCHANGED <<provs, stored, remote, job>>,
           rows' \in Table, RowsStay, Answers \/ CallFails,
           NEW g \in {Idle} \cup Download, get' = [get EXCEPT ![r] = g], GetInv(r)'
    PROVE  ErasureInv'
  <1>1. get' \in [Reader -> {Idle} \cup Download] /\ \A q \in Reader : q # r => get'[q] = get[q]
    BY DEF ErasureInv, TypeOK
  <1>2. faults' \in [losses : 0..MaxLosses, failures : 0..MaxFailures, torn : SUBSET Index]
        /\ faults'.torn = faults.torn
    BY FaultsType DEF ErasureInv
  <1>3. TypeOK'
    BY <1>1, <1>2 DEF ErasureInv, TypeOK
  <1>4. Distinct' /\ NoStrays'
    BY <1>2, StayingIsTame, StaysDistinct DEF ErasureInv, NoStrays, RowsStay, Retiring
  <1>5. JobInv'
    BY JobUndisturbed
  <1>6. \A q \in Reader : GetInv(q)'
    BY <1>1, GetUndisturbed DEF ErasureInv
  <1>7. QED
    BY <1>3, <1>4, <1>5, <1>6 DEF ErasureInv

\* A download begins with the rows as they are.
LEMMA StartGetInv ==
    ASSUME ErasureInv, NEW r \in Reader, StartGet(r)
    PROVE  ErasureInv'
  <1> DEFINE n == NonLost(rows)
             o == Indices(rows, n)
             g == [seen |-> rows, todo |-> n, shares |-> {}, failed |-> {}, offered |-> o]
  <1>1. rows \in Table /\ n \in SUBSET RowId /\ n \subseteq Ids(rows) /\ o \in SUBSET Index
    BY TableFacts DEF ErasureInv, TypeOK, Indices
  <1>2. get' = [get EXCEPT ![r] = g] /\ UNCHANGED <<provs, stored, rows, remote, job>> /\ Answers
    BY DEF StartGet, registerVars, Answers
  <1>3. o = Indices(rows, n)
    OBVIOUS
  <1> HIDE DEF n, o
  <1>4. g \in Download /\ g.seen = rows /\ g.todo = n /\ g.offered = o /\ g.shares = {} /\ g.failed = {}
    BY <1>1 DEF Download
  <1> HIDE DEF g
  <1>5. get'[r] = g
    BY <1>2 DEF ErasureInv, TypeOK
  <1>6. GetInv(r)'
    BY <1>1, <1>3, <1>4, <1>5 DEF GetInv
  <1>7. RowsStay /\ rows' \in Table
    BY <1>1, <1>2 DEF RowsStay
  <1>8. QED
    BY <1>2, <1>4, <1>6, <1>7, ReadStep

\* A share is taken, or has failed, or is a second one; its row is stored, or suspect.
LEMMA GetShareInv ==
    ASSUME ErasureInv, NEW r \in Reader, NEW i \in RowId, GetShare(r, i)
    PROVE  ErasureInv'
  <1> DEFINE g == get[r]
             p == g.seen[i].prov
             x == g.seen[i].index
             rest == [g EXCEPT !.todo = @ \ {i}, !.seen[i] = NoRow]
             taken == [rest EXCEPT !.shares = @ \cup {x}]
             failed == [rest EXCEPT !.failed = @ \cup {x}]
  <1>1. /\ g # Idle /\ g \in Download /\ i \in g.todo /\ rows \in Table
        /\ UNCHANGED <<provs, stored, remote, job>> /\ (Answers \/ CallFails)
        /\ GetInv(r)
    BY DEF GetShare, IsHealthiest, ErasureInv, TypeOK
  <1>2. /\ g.seen \in Table /\ i \in Ids(g.seen) /\ x \in Index /\ g.todo \in SUBSET RowId
        /\ g.shares \in SUBSET Index /\ g.failed \in SUBSET Index /\ g.offered \in SUBSET Index
        /\ g.todo \subseteq Ids(g.seen)
        /\ g.offered \subseteq g.shares \cup g.failed \cup Indices(g.seen, g.todo)
    <2>1. g.seen \in Table /\ g.todo \in SUBSET RowId /\ g.shares \in SUBSET Index
          /\ g.failed \in SUBSET Index /\ g.offered \in SUBSET Index
      BY <1>1 DEF Download
    <2>2. g.todo \subseteq Ids(g.seen)
          /\ g.offered \subseteq g.shares \cup g.failed \cup Indices(g.seen, g.todo)
      BY <1>1 DEF GetInv
    <2>3. QED
      BY <1>1, <2>1, <2>2, TableFacts
  <1> DEFINE s == [g.seen EXCEPT ![i] = NoRow]
             d == g.todo \ {i}
  <1>3. s \in Table /\ d \in SUBSET RowId /\ d \subseteq Ids(s)
        /\ \A j \in d : s[j] = g.seen[j]
    BY <1>2, TableFacts DEF Table, Ids
  <1>4. g.offered \subseteq g.shares \cup g.failed \cup {x} \cup Indices(s, d)
    BY <1>2, <1>3 DEF Indices
  <1>5. /\ rest \in Download /\ rest.todo = d /\ rest.seen = s
        /\ rest.shares = g.shares /\ rest.failed = g.failed /\ rest.offered = g.offered
    <2>1. rest = [g EXCEPT !.todo = d, !.seen = s]
      BY <1>1 DEF Download
    <2> HIDE DEF d, s, rest, g
    <2>2. QED
      BY <1>1, <1>3, <2>1 DEF Download
  <1>6. /\ taken \in Download /\ taken.todo = d /\ taken.seen = s /\ taken.shares = g.shares \cup {x}
        /\ taken.failed = g.failed /\ taken.offered = g.offered
        /\ failed \in Download /\ failed.todo = d /\ failed.seen = s /\ failed.shares = g.shares
        /\ failed.failed = g.failed \cup {x} /\ failed.offered = g.offered
    <2> DEFINE sh == rest.shares \cup {x}
               fa == rest.failed \cup {x}
    <2>1. taken = [rest EXCEPT !.shares = sh] /\ failed = [rest EXCEPT !.failed = fa]
      BY <1>5 DEF Download
    <2>2. sh \in SUBSET Index /\ fa \in SUBSET Index /\ sh = g.shares \cup {x} /\ fa = g.failed \cup {x}
      BY <1>2, <1>5
    <2> HIDE DEF d, s, rest, g, taken, failed, sh, fa
    <2>3. QED
      BY <1>5, <2>1, <2>2 DEF Download
  <1>7. ASSUME NEW h \in {Idle, rest, taken, failed}, get' = [get EXCEPT ![r] = h],
               h = rest => x \in g.shares \cup g.failed
        PROVE  h \in {Idle} \cup Download /\ GetInv(r)'
    <2>1. get'[r] = h
      BY <1>7 DEF ErasureInv, TypeOK
    <2>2. h = Idle \/ (h \in {rest, taken, failed} /\ h.todo = d /\ h.seen = s /\ h.offered = g.offered)
      BY <1>5, <1>6, <1>7
    <2>3. h = Idle \/ (g.shares \cup g.failed \cup {x}) \subseteq h.shares \cup h.failed
      BY <1>5, <1>6, <1>7
    <2> HIDE DEF g, x, s, d, rest, taken, failed
    <2>4. h \in {Idle} \cup Download
      BY <1>5, <1>6, <1>7
    <2>5. h = Idle \/ (h.todo \subseteq Ids(h.seen)
                       /\ h.offered \subseteq h.shares \cup h.failed \cup Indices(h.seen, h.todo))
      BY <1>3, <1>4, <2>2, <2>3
    <2>6. QED
      BY <2>1, <2>4, <2>5 DEF GetInv
  <1>8. UNCHANGED rows => RowsStay /\ rows' \in Table
    BY <1>1 DEF RowsStay
  <1>9. ASSUME NEW t \in {"stored", "suspect"}, NEW h \in {taken, failed}, Judged(r, i, t, h)
        PROVE  ErasureInv'
    <2>1. CASE CanSet(i, t)
      <3>1. SetState(i, t) /\ get' = [get EXCEPT ![r] = h]
        BY <1>9, <2>1 DEF Judged
      <3>2. rows' \in Table /\ RowsStay
        BY <1>1, <2>1, <3>1, SetStateFacts DEF RowsStay
      <3>3. h = rest => x \in g.shares \cup g.failed
        BY <1>5, <1>6
      <3>4. h \in {Idle} \cup Download /\ GetInv(r)'
        BY <1>7, <3>1, <3>3
      <3> HIDE DEF g, x, s, d, rest, taken, failed
      <3>5. QED
        BY <1>1, <3>1, <3>2, <3>4, ReadStep
    <2>2. CASE ~CanSet(i, t)
      <3>1. UNCHANGED rows /\ get' = [get EXCEPT ![r] = Idle]
        BY <1>9, <2>2 DEF Judged
      <3>2. GetInv(r)'
        BY <3>1 DEF GetInv, ErasureInv, TypeOK
      <3>3. QED
        BY <1>1, <1>8, <3>1, <3>2, ReadStep
    <2>3. QED
      BY <2>1, <2>2
  <1>10. CASE x \in g.shares /\ get' = [get EXCEPT ![r] = rest] /\ UNCHANGED rows
    <2>1. rest \in {Idle} \cup Download /\ GetInv(r)'
      BY <1>7, <1>10
    <2> HIDE DEF rest
    <2>2. QED
      BY <1>1, <1>8, <1>10, <2>1, ReadStep
  <1>11. CASE get' = [get EXCEPT ![r] = Idle] /\ UNCHANGED rows
    <2>1. GetInv(r)'
      BY <1>11 DEF GetInv, ErasureInv, TypeOK
    <2>2. QED
      BY <1>1, <1>8, <1>11, <2>1, ReadStep
  <1>12. QED
    BY <1>9, <1>10, <1>11 DEF GetShare

\* A download ends.
LEMMA EndGetInv ==
    ASSUME ErasureInv, NEW r \in Reader, EndGet(r)
    PROVE  ErasureInv'
  <1>1. get' = [get EXCEPT ![r] = Idle] /\ UNCHANGED <<provs, stored, rows, remote, job>> /\ Answers
    BY DEF EndGet, registerVars, Answers
  <1>2. GetInv(r)'
    BY <1>1 DEF GetInv, ErasureInv, TypeOK
  <1>3. RowsStay /\ rows' \in Table
    BY <1>1 DEF RowsStay, ErasureInv, TypeOK
  <1>4. QED
    BY <1>1, <1>2, <1>3, ReadStep

\* The process ends, an object is damaged, a provider is removed.
LEMMA WorldInv ==
    ASSUME ErasureInv,
           Crash \/ \E p \in Provider : RemoveProvider(p) \/ \E x \in Index : Damage(p, x)
    PROVE  ErasureInv'
  <1>1. CASE Crash
    <2>1. job' = Idle /\ get' = [r \in Reader |-> Idle] /\ UNCHANGED <<provs, stored, rows, remote>>
      BY <1>1 DEF Crash, Ends, registerVars
    <2>2. faults' \in [losses : 0..MaxLosses, failures : 0..MaxFailures, torn : SUBSET Index]
          /\ faults'.torn = CutShort
      <3> DEFINE c == CutShort
      <3>1. c \in SUBSET Index
        BY CutShortType DEF ErasureInv
      <3>2. /\ faults \in [losses : 0..MaxLosses, failures : 0..MaxFailures, torn : SUBSET Index]
            /\ faults.failures < MaxFailures
            /\ faults' = [faults EXCEPT !.failures = @ + 1, !.torn = c]
        BY <1>1 DEF ErasureInv, Crash, TypeOK
      <3> HIDE DEF c
      <3> DEFINE n == faults.failures + 1
      <3>3. n \in 0..MaxFailures /\ faults' = [faults EXCEPT !.failures = n, !.torn = c]
        BY <3>2, ErasureAssumption DEF ErasureAssumption
      <3> HIDE DEF n
      <3>4. /\ faults' \in [losses : 0..MaxLosses, failures : 0..MaxFailures, torn : SUBSET Index]
            /\ faults'.torn = c
        BY <3>1, <3>2, <3>3
      <3>5. QED
        BY <3>4 DEF c
    <2>3. TypeOK'
      BY <2>1, <2>2 DEF ErasureInv, TypeOK
    <2>4. JobInv' /\ \A r \in Reader : GetInv(r)'
      BY <2>1, IdleJob DEF GetInv
    <2>5. Distinct' /\ NoStrays'
      BY <2>1, <2>2, CutShortIsDistinct DEF ErasureInv, NoStrays
    <2>6. QED
      BY <2>3, <2>4, <2>5 DEF ErasureInv
  <1>2. ASSUME NEW p \in Provider, NEW x \in Index, Damage(p, x)
        PROVE  ErasureInv'
    <2>1. UNCHANGED <<provs, stored, rows, job, get>> /\ Loss
      BY <1>2 DEF Damage, registerVars
    <2>2. remote' \in [Provider -> [Index -> {"never", "good", "bad", "gone"}]]
      BY <1>2, RemoteType DEF Damage, ErasureInv
    <2>3. JobInv'
      BY <2>1, JobUndisturbed DEF ErasureInv, TypeOK, RowsStay
    <2>4. QED
      BY <2>1, <2>2, <2>3, QuietJobStep DEF ErasureInv, TypeOK, registerVars, Retiring
  <1>3. ASSUME NEW p \in Provider, RemoveProvider(p)
        PROVE  ErasureInv'
    <2>1. /\ p \in provs /\ provs' = provs \ {p} /\ UNCHANGED <<stored, remote, job, get>> /\ Loss
          /\ rows' = [i \in RowId |-> IF i \in Ids(rows) /\ rows[i].prov = p THEN NoRow ELSE rows[i]]
      BY <1>3 DEF RemoveProvider
    <2>2. TypeOK
      BY DEF ErasureInv
    <2>3. rows' \in Table /\ \A i \in RowId : rows'[i] # NoRow => rows'[i] = rows[i]
      BY <2>1, <2>2 DEF TypeOK, Table
    <2>4. NothingCountsAnew
      BY <2>3 DEF NothingCountsAnew, NonLost, Ids
    <2>5. Distinct'
      BY <2>1, <2>4, FaultsType, StaysDistinct DEF ErasureInv, Retiring
    <2>6. NoStrays'
      BY <2>1, <2>3 DEF ErasureInv, NoStrays, Ids
    <2>7. JobInv'
      BY <2>1, <2>3, <2>4, JobUndisturbed
    <2>8. faults' \in [losses : 0..MaxLosses, failures : 0..MaxFailures, torn : SUBSET Index]
      BY <2>1, <2>2, FaultsType
    <2>9. TypeOK'
      BY <2>1, <2>2, <2>3, <2>8 DEF TypeOK
    <2>10. \A r \in Reader : GetInv(r)'
      BY <2>1, GetUndisturbed DEF ErasureInv
    <2>11. QED
      BY <2>5, <2>6, <2>7, <2>9, <2>10 DEF ErasureInv
  <1>4. QED
    BY <1>1, <1>2, <1>3

----------------------------------------------------------------------------
(* The theorems.                                                           *)

\* There is nothing at first.
LEMMA InitInv == Init => ErasureInv
  <1> SUFFICES ASSUME Init
               PROVE  ErasureInv
    OBVIOUS
  <1>1. rows \in Table /\ Ids(rows) = {}
    BY DEF Init, Table, Ids
  <1>2. Distinct /\ NoStrays
    BY <1>1 DEF Distinct, NoStrays, NonLost
  <1>3. JobInv /\ \A r \in Reader : GetInv(r)
    BY DEF Init, JobInv, GetInv, Idle
  <1>4. faults \in [losses : 0..MaxLosses, failures : 0..MaxFailures, torn : SUBSET Index]
    BY ErasureAssumption DEF Init, ErasureAssumption
  <1>5. TypeOK
    BY <1>1, <1>4 DEF Init, TypeOK
  <1>6. QED
    BY <1>2, <1>3, <1>5 DEF ErasureInv

\* Every step keeps the invariant.
LEMMA NextInv == ErasureInv /\ [Next]_vars => ErasureInv'
  <1>1. ASSUME ErasureInv, UNCHANGED vars
        PROVE  ErasureInv'
    <2>1. UNCHANGED <<provs, stored, rows, remote, job, get, faults>>
      BY <1>1 DEF vars
    <2>2. JobInv'
      BY <1>1, <2>1, JobUndisturbed DEF ErasureInv, TypeOK, RowsStay
    <2>3. QED
      BY <1>1, <2>1, <2>2, QuietJobStep DEF ErasureInv, TypeOK, registerVars, Answers, Retiring
  <1>2. ASSUME ErasureInv, Next
        PROVE  ErasureInv'
    BY <1>2, StartPutInv, UploadInv, StartInv, ScrubInv, EndScrubInv, FetchInv, PlanRepairInv,
       RepairInv, RetireShareInv, RemoveInv, StartGetInv, GetShareInv, EndGetInv, WorldInv
       DEF Next, ScrubAndRepair, Read
  <1>3. QED
    BY <1>1, <1>2

\* The invariant holds.
LEMMA ErasureInvHolds == Spec => []ErasureInv
  BY InitInv, NextInv, PTL DEF Spec

\* TypeOK, for any providers, K, N, downloads and losses.
THEOREM ErasureTypeCorrect == Spec => []TypeOK
  BY ErasureInvHolds, PTL DEF ErasureInv

\* OneSharePerProvider: whatever scrubs, repairs, downloads and removals do to
\* the rows, no provider has two that count.
THEOREM SharesStayApart == Spec => []OneSharePerProvider
  <1>1. ErasureInv => OneSharePerProvider
    BY DEF ErasureInv, Distinct, OneSharePerProvider
  <1>2. QED
    BY <1>1, ErasureInvHolds, PTL

\* FloorIsWhole: N stored rows are N different shares, so that the count in
\* chunks_below_floor may stand for the shares, unless a repair has a row still
\* to write off, or was cut short before it had.
THEOREM FloorMeansWhole == Spec => []FloorIsWhole
  <1>1. ErasureInv => FloorIsWhole
    <2> SUFFICES ASSUME ErasureInv, stored, ~BelowFloor, Retiring = {}, faults.torn = {}
                 PROVE  Indices(rows, InState(rows, "stored")) = Index
      BY DEF FloorIsWhole
    <2> DEFINE S == InState(rows, "stored")
               f == [i \in S |-> rows[i].index]
    <2>1. rows \in Table /\ S \subseteq NonLost(rows) /\ S \subseteq Ids(rows)
      BY TableFacts DEF ErasureInv, TypeOK, InState, NonLost
    <2>2. \A i \in S : rows[i].index \in Index
      BY <2>1, TableFacts
    <2>3. f \in Injection(S, Index)
      BY <2>1, <2>2 DEF ErasureInv, Distinct, Injection, IsInjective
    <2>4. IsFiniteSet(Index) /\ Cardinality(Index) = N
      BY ErasureAssumption, FS_Interval DEF Index, ErasureAssumption
    <2>5. /\ IsFiniteSet(S) /\ Cardinality(S) <= N
          /\ Cardinality(S) = N <=> f \in Surjection(S, Index)
      BY <2>3, <2>4, FS_Injection
    <2>6. Cardinality(S) \in Nat
      BY <2>5, FS_CardinalityType
    <2>7. Cardinality(S) = N
      BY <2>5, <2>6, ErasureAssumption DEF BelowFloor, ErasureAssumption
    <2>8. \A x \in Index : \E i \in S : f[i] = x
      BY <2>5, <2>7 DEF Surjection
    <2>9. QED
      BY <2>2, <2>8 DEF Indices
  <1>2. QED
    BY <1>1, ErasureInvHolds, PTL

\* RepairTells: a repair that reports nothing and loses no provider leaves no
\* share without a row that is new or was stored when it began.
THEOREM RepairsTell == Spec => RepairTells
  <1>1. ErasureInv /\ EndRepair /\ ~job.told /\ job.handles \subseteq provs
          => Indices(rows, NonLost(rows) \ InState(job.seen, "suspect")) = Index
    <2> SUFFICES ASSUME ErasureInv, EndRepair, ~job.told, job.handles \subseteq provs
                 PROVE  Indices(rows, NonLost(rows) \ InState(job.seen, "suspect")) = Index
      OBVIOUS
    <2>1. job.at = "upload" /\ job.plan = {}
      BY DEF EndRepair
    <2>2. \A x \in Index : \E i \in NonLost(rows) : i \notin InState(job.seen, "suspect") /\ rows[i].index = x
      BY <2>1 DEF ErasureInv, JobInv, MadeGood
    <2>3. \A i \in NonLost(rows) : rows[i].index \in Index
      BY TableFacts DEF ErasureInv, TypeOK
    <2>4. QED
      BY <2>2, <2>3 DEF Indices
  <1>2. ErasureInv => [EndRepair /\ ~job.told /\ job.handles \subseteq provs
                         => Indices(rows, NonLost(rows) \ InState(job.seen, "suspect")) = Index]_vars
    BY <1>1
  <1>3. QED
    BY <1>2, ErasureInvHolds, PTL DEF RepairTells

\* ShortOnlyIfShort: a download that ends, in any way, with fewer than K shares
\* has failed on every other share it was offered, or was at an overtaken row.
THEOREM DownloadsTryEverything == Spec => ShortOnlyIfShort
  <1>1. ASSUME ErasureInv, NEW r \in Reader, EndGet(r), Cardinality(get[r].shares) < K
        PROVE  get[r].offered \ get[r].shares \subseteq get[r].failed
    <2>1. get[r] \in Download /\ get[r] # Idle
      BY <1>1 DEF EndGet, ErasureInv, TypeOK
    <2>2. IsFiniteSet(get[r].shares)
      <3>1. IsFiniteSet(Index)
        BY ErasureAssumption, FS_Interval DEF Index, ErasureAssumption
      <3>2. get[r].shares \subseteq Index
        BY <2>1 DEF Download
      <3>3. QED
        BY <3>1, <3>2, FS_Subset
    <2>3. Cardinality(get[r].shares) \in Nat
      BY <2>2, FS_CardinalityType
    <2>4. get[r].todo = {}
      BY <1>1, <2>3, ErasureAssumption DEF EndGet, ErasureAssumption
    <2>5. QED
      BY <1>1, <2>1, <2>4 DEF ErasureInv, GetInv, Indices
  <1>2. ASSUME ErasureInv, NEW r \in Reader, NEW i \in RowId, GetShare(r, i), get'[r] = Idle
        PROVE  Overtaken(get[r])
    <2> DEFINE g == get[r]
               p == g.seen[i].prov
               x == g.seen[i].index
               rest == [g EXCEPT !.todo = @ \ {i}, !.seen[i] = NoRow]
               taken == [rest EXCEPT !.shares = @ \cup {x}]
               failed == [rest EXCEPT !.failed = @ \cup {x}]
    <2>1. /\ g \in Download /\ IsHealthiest(g.seen, i, g.todo)
          /\ \A h : get' = [get EXCEPT ![r] = h] => get'[r] = h
      BY <1>2 DEF GetShare, ErasureInv, TypeOK
    <2>2. rest # Idle /\ taken # Idle /\ failed # Idle
      BY <2>1, NotIdle
    <2>3. \/ p \notin provs \/ get' = [get EXCEPT ![r] = rest]
          \/ \E s \in {"stored", "suspect"} :
                Judged(r, i, s, taken) \/ Judged(r, i, s, failed)
      BY <1>2 DEF GetShare
    <2>4. ASSUME NEW s \in {"stored", "suspect"}, NEW h, h # Idle, Judged(r, i, s, h)
          PROVE  rows[i] = NoRow \/ rows[i].state = "lost"
      BY <1>2, <2>1, <2>4 DEF Judged, CanSet
    <2>5. p \notin provs \/ rows[i] = NoRow \/ rows[i].state = "lost"
      <3> HIDE DEF p, rest, taken, failed
      <3>1. QED
        BY <1>2, <2>1, <2>2, <2>3, <2>4
    <2>6. QED
      BY <2>1, <2>5 DEF Overtaken
  <1>3. ErasureInv => [\A r \in Reader : GivesUp(r) =>
                         get[r].offered \ get[r].shares \subseteq get[r].failed \/ Overtaken(get[r])]_vars
    BY <1>1, <1>2 DEF GivesUp
  <1>4. QED
    BY <1>3, ErasureInvHolds, PTL DEF ShortOnlyIfShort
====================================================================================
