------------------------------- MODULE Scatterbox -------------------------------
(***************************************************************************)
(* The whole storage core: jobs and downloads over one register and its    *)
(* providers, with damage behind the program's back and crashes between    *)
(* any two steps.  With one worker it is the daemon; with two it is the    *)
(* daemon and the command-line program at work on the same archive.        *)
(***************************************************************************)
EXTENDS Pipeline

CONSTANT CrashProne     \* bound: the workers that may crash

vars == <<regVars, remoteVars, job, pipeVars>>

Init ==
    /\ RegisterInit
    /\ RemoteInit
    /\ JobsInit
    /\ PipelineInit

\* The objects a crashing process may have got through just now: any of a
\* gather, one of repair's uploads in sequence.
InFlight(w) ==
    CASE job[w].op = "put" ->
            SUBSET {o \in Provider \X Chunk : Putting(w, o[2], o[1])}
      [] job[w].op = "upload" /\ job[w].stale = {} ->
            {{}} \cup {{<<p, job[w].chunk>>} : p \in job[w].targets}
      [] OTHER -> {{}}

\* The process dies; what it had not written to the register is forgotten.
Crash(w) ==
    /\ w \in CrashProne /\ ~Free(w)
    /\ \E objs \in InFlight(w) : remote' = WithPut(objs)
    /\ Become(w, Failed)
    /\ UNCHANGED <<regVars, faults, pipeVars>>

Scrub(w) ==
    /\ \/ \E deep, repair \in BOOLEAN, batch \in SUBSET NonLost(rows) :
             StartScrub(w, deep, repair, batch)
       \/ ScanStep(w)
       \/ RepairStep(w)
    /\ UNCHANGED pipeVars

Environment ==
    \/ /\ \E p \in Provider, c \in Chunk : Damage(p, c)
       /\ UNCHANGED <<regVars, job, pipeVars>>
    \/ \E p \in Provider : RemoveProvider(p)
    \/ \E p \in Provider, c \in Chunk : StrayPut(p, c)

Next ==
    \/ \E w \in Worker : Scrub(w) \/ PutStep(w) \/ RemoveStep(w) \/ Crash(w)
    \/ \E r \in Reader : GetStep(r)
    \/ Environment

Spec == Init /\ [][Next]_vars

----------------------------------------------------------------------------
(* Invariants.                                                             *)

TypeOK ==
    /\ RegisterTypeOK
    /\ RemoteTypeOK
    /\ job \in [Worker -> JobState]
    /\ PipelineTypeOK

\* Crash safety of put_file and of repair: the register never names an object
\* that was never uploaded, whatever fails or crashes between an upload and the
\* transaction that records it.
RowsWereUploaded ==
    \A i \in Ids(rows) : remote[rows[i].prov][rows[i].chunk] # "never"

\* The books of an upload in progress: its plan meets the floor in every group,
\* every chunk it is done with is on all providers of its group, and the chunk
\* it is at is where the gather says it has landed.
PutProgress ==
    \A w \in Worker : job[w].op = "put" =>
        /\ \A g \in Group : Cardinality(job[w].plan[g]) >= ReplicaTarget
        /\ job[w].left \subseteq ChunksOf(job[w].file)
        /\ \A c \in ChunksOf(job[w].file) \ job[w].left :
              \A p \in job[w].plan[GroupOf(c)] : remote[p][c] # "never"
        /\ \A c \in job[w].left, p \in job[w].landed :
              IsNextChunk(c, job[w].left) => remote[p][c] # "never"

\* Two uploads to one path, each of which found it free before its first await:
\* only one of them gets into the register.
OneFilePerPath == \A f, g \in files : VPathOf[f] = VPathOf[g] => f = g

\* Anti-colocation in the register: through every repair, no provider holds
\* live rows of more than SpreadCap of a file's shard groups.
SpreadCapHeld ==
    MinSpread > 1 =>
        \A f \in File, p \in Provider : Cardinality(GroupsHeld(rows, f, p)) <= SpreadCap

\* "Never silently skipped": while repair works, every chunk below its floor is
\* still on its list, being handled, or in the report as unrepairable.
RepairAccountsForAll ==
    \A w \in Worker :
        job[w].op \in {"repair", "fetch", "upload"} =>
            ChunksBelowFloor \subseteq
                job[w].work \cup job[w].report
                    \cup (IF job[w].op = "repair" THEN {} ELSE {job[w].chunk})

----------------------------------------------------------------------------
(* Action properties.                                                      *)

SameRow(i) ==
    /\ i \in Ids(rows) /\ i \in Ids(rows)'
    /\ rows'[i].chunk = rows[i].chunk /\ rows'[i].prov = rows[i].prov

\* Suspicion is cleared by seeing the bytes, never by exists() alone.
SuspicionNeedsBytes ==
    [][\A i \in RowId :
        SameRow(i) /\ rows[i].state = "suspect" /\ rows'[i].state = "stored"
            => Intact(rows[i].prov, rows[i].chunk)]_vars

\* Two strikes: a stored row is written off at once only for wrong bytes.
TwoStrikes ==
    [][\A i \in RowId :
        SameRow(i) /\ rows[i].state = "stored" /\ rows'[i].state = "lost"
            => remote[rows[i].prov][rows[i].chunk] = "corrupt"]_vars

\* A provider has a second live row for a chunk: one disk's worth of safety sold
\* as two.  A row that a repair is about to retire does not count.
Doubled(c, p) ==
    LET Retiring == UNION {IF job[w].op = "upload" THEN job[w].stale ELSE {} : w \in Worker}
    IN  \E i, j \in NonLost(rows) \ Retiring :
            /\ i # j
            /\ rows[i].chunk = c /\ rows[i].prov = p
            /\ rows[j].chunk = c /\ rows[j].prov = p

\* Diversity: through uploads, scrubs, repairs, downloads and removals, no
\* provider gets a second live row for a chunk, unless a repair dies, with its
\* process or by an exception, after it has recorded the copy and before it has
\* retired the row the copy supersedes.
NoSecondLiveRow ==
    [][\A c \in Chunk, p \in Provider :
        ~Doubled(c, p) /\ Doubled(c, p)' =>
            \E w \in Worker : /\ job[w].op = "upload" /\ job[w].stale # {}
                             /\ job'[w] = Failed]_vars

\* A row that is lost is never live again: it stays lost until it is deleted.
LostIsFinal ==
    [][\A i \in RowId :
        i \in Ids(rows) /\ rows[i].state = "lost"
            => rows'[i] = NoRow \/ rows'[i].state = "lost"]_vars

\* A file enters the register with all its chunks at their floor, whatever
\* failed, crashed or was removed while they were uploaded.
BornAtFloor ==
    [][\A f \in files' \ files : \A c \in ChunksOf(f) :
        LET homes == {p \in Provider : \E i \in Ids(rows') :
                         rows'[i] = [chunk |-> c, prov |-> p, state |-> "stored"]}
        IN  Cardinality(homes) >= ReplicaTarget]_vars

\* A deletion that succeeds leaves no object of the file on the providers in
\* use, not even one its row had been written off for; a provider whose calls
\* fail may keep some, and where processes crash, an object that no row names.
RemovalLeavesNothing ==
    [][\A f \in files \ files', p \in provs \ Flaky :
        \A c \in ChunksOf(f) :
            Exists(p, c) => CrashProne # {} /\ ~\E i \in Ids(rows) :
                               rows[i].chunk = c /\ rows[i].prov = p]_vars

----------------------------------------------------------------------------
(* Liveness.                                                               *)

\* Every provider call returns or raises in the end (the adapters' HTTP calls
\* have timeouts), so a process that has a step to take takes it.  Nothing is
\* assumed about when a job is started, or about crashes and damage.
Fairness == \A w \in Worker : WF_vars((ScanStep(w) \/ RepairStep(w)) /\ UNCHANGED pipeVars)
FairSpec == Spec /\ Fairness

Reported(c) == \E w \in Worker :
                  /\ job[w].op \in {"repair", "fetch", "upload"}
                  /\ c \in job[w].report

\* Repair heals: a chunk on the work list of a repair gets back to its floor,
\* or is reported as unrepairable, unless the job fails before.  A repair that
\* merely ends has not healed anything.
RepairHeals ==
    \A w \in Worker, c \in Chunk :
        job[w].op = "repair" /\ c \in job[w].work
            ~> Live(c) >= ReplicaTarget \/ Reported(c) \/ job[w] = Failed
=============================================================================
