------------------------------ MODULE SnapshotProofs ------------------------------
(***************************************************************************)
(* Snapshots of the register, for any providers, changes and starts: what  *)
(* vault.json records is there and is as new as was promised, when one     *)
(* copy of the vault is open at a time and no provider that names its      *)
(* objects has its limits changed.  The argument goes by references: under *)
(* a name there is one object, and it always gets newer; elsewhere what a  *)
(* snapshot puts is newer than all that is recorded, and only what is not  *)
(* recorded is pruned.                                                     *)
(***************************************************************************)
EXTENDS Snapshot, WellFoundedInduction, TLAPS

Usual == OneVault /\ Adjustable \subseteq Duplicating

\* Who may have the vault open, and with what.
Apart ==
    /\ job[Daemon].at # "restoring" /\ job[Cli].at \notin {"down", "settling"}
    /\ Busy(Cli) => opened = Closed /\ ~Busy(Daemon)
    /\ job[Cli].at = "restoring" => job[Daemon].at = "down"
    /\ job[Daemon].at = "down" => opened = Closed
    /\ opened # Closed => opened = recorded

\* A provider that names its objects has one, and is always configured alike.
Plain(d) == \A p \in Provider \ Duplicating : d.limits[p] = 0
Named(loc) == loc.ref <= puts /\ (loc.provider \notin Duplicating => loc.limits = 0 /\ loc.ref = Name)
Names ==
    /\ register # NoRegister => Plain(register)
    /\ \A p \in Provider, r \in Ref : remote[p][r] # NoObject =>
          Plain(remote[p][r]) /\ r <= puts /\ (p \notin Duplicating => r = Name)
    /\ \A loc \in recorded : Named(loc)

\* What is there from a reference on is as new as was promised.
Newer(d) == promised \subseteq d.changes
Held ==
    /\ register # NoRegister => Newer(register)
    /\ \A loc \in recorded :
          /\ ObjectAt(loc) # NoObject
          /\ \A r \in Ref : r >= loc.ref /\ remote[loc.provider][r] # NoObject
                               => Newer(remote[loc.provider][r])

\* A snapshot under way.
PuttingInv(w) ==
    job[w].at = "putting" =>
        /\ Plain(job[w].data) /\ Newer(job[w].data) /\ job[w].previous = recorded
        /\ register # NoRegister => job[w].data.changes \subseteq register.changes
        /\ job[w].own <=> opened # Closed
        /\ \A loc \in job[w].found :
              /\ ObjectAt(loc) = job[w].data /\ Named(loc) /\ loc.provider \notin job[w].todo
              /\ \A r \in Ref : r > loc.ref => remote[loc.provider][r] = NoObject
              /\ \A old \in recorded :
                    old.provider = loc.provider /\ old.provider \in Duplicating => old.ref < loc.ref

\* What is pruned is not recorded, what is restored is.
PruningInv(w) ==
    job[w].at = "pruning" =>
        \A old \in job[w].locs, loc \in recorded : old.provider = loc.provider => old.ref # loc.ref
RestoringInv == job[Cli].at = "restoring" => job[Cli].locs \subseteq recorded

UsualInv ==
    /\ Apart /\ Names /\ Held /\ RestoringInv
    /\ \A w \in Program : PuttingInv(w) /\ PruningInv(w)

\* A daemon that is up has a register.
UpInv == job[Daemon].at # "down" => register # NoRegister

SnapshotInv == TypeOK /\ UpInv /\ (Usual => UsualInv)

----------------------------------------------------------------------------
(* Numbers.                                                                *)

\* A set of numbers has a greatest, if it is not empty and has a bound.
LEMMA Greatest ==
    ASSUME NEW N \in Nat, NEW S \in SUBSET (0..N), S # {}
    PROVE  \E m \in S : \A q \in S : q <= m
  <1> DEFINE T == {N - r : r \in S}
             R == OpToRel(<, Nat)
  <1>1. T \subseteq Nat /\ T # {}
    <2>1. \A r \in S : N - r \in Nat
      OBVIOUS
    <2>2. T \subseteq Nat
      BY <2>1
    <2>3. PICK r \in S : TRUE
      OBVIOUS
    <2>4. N - r \in T
      OBVIOUS
    <2>5. QED
      BY <2>2, <2>4
  <1>2. PICK x \in T : \A y \in T : <<y, x>> \notin R
    <2>1. IsWellFoundedOn(R, Nat)
      BY NatLessThanWellFounded
    <2> HIDE DEF R, T
    <2>2. QED
      BY <1>1, <2>1, WFMin
  <1>3. \A y \in T : ~ (y < x)
    BY <1>1, <1>2 DEF OpToRel
  <1>4. PICK m \in S : x = N - m
    BY <1>2
  <1>5. \A q \in S : ~ (N - q < N - m)
    BY <1>3, <1>4
  <1>6. QED
    BY <1>5

\* The next change is one that has not been made.
LEMMA NextChangeFacts ==
    ASSUME TypeOK, register # NoRegister, register.changes # Change
    PROVE  NextChange \in Change
  <1>1. register \in Data /\ register.changes \in SUBSET Change /\ MaxChanges \in Nat
    BY SnapshotAssumption DEF TypeOK, Data, SnapshotAssumption
  <1> DEFINE T == Change \ register.changes
             S == {MaxChanges - c : c \in T}
  <1>2. S \in SUBSET (0..MaxChanges) /\ S # {}
    <2>1. \A c \in T : MaxChanges - c \in 0..MaxChanges
      BY <1>1 DEF Change
    <2>2. PICK c \in T : TRUE
      BY <1>1
    <2>3. MaxChanges - c \in S
      OBVIOUS
    <2>4. QED
      BY <2>1, <2>3
  <1>3. PICK g \in S : \A q \in S : q <= g
    <2> HIDE DEF S
    <2>1. QED
      BY <1>1, <1>2, Greatest
  <1>4. PICK n \in T : g = MaxChanges - n
    BY <1>3
  <1>5. \A c \in T : MaxChanges - c <= MaxChanges - n
    BY <1>3, <1>4
  <1>6. \A m \in 1..(n - 1) : m \in register.changes
    BY <1>1, <1>4, <1>5 DEF Change
  <1>7. \E k \in Change : k \notin register.changes /\ \A m \in 1..(k - 1) : m \in register.changes
    BY <1>4, <1>6
  <1>8. QED
    BY <1>7 DEF NextChange

----------------------------------------------------------------------------
(* Types.                                                                  *)

\* What a program is at.
LEMMA JobFacts ==
    ASSUME TypeOK, NEW w \in Program
    PROVE  /\ job[w].at = "putting" =>
                /\ job[w] \in [at : {"putting"}, data : Data, todo : SUBSET Provider,
                               found : SUBSET Location, previous : SUBSET Location, own : BOOLEAN]
                /\ job[w].data \in Data /\ job[w].todo \in SUBSET Provider
                /\ job[w].found \in SUBSET Location /\ job[w].previous \in SUBSET Location
                /\ job[w].own \in BOOLEAN
           /\ job[w].at \in {"pruning", "restoring"} =>
                /\ job[w] \in [at : {"pruning", "restoring"}, locs : SUBSET Location]
                /\ job[w].locs \in SUBSET Location
           /\ job[w].at \in {"down", "idle", "settling", "putting", "pruning", "restoring"}
  BY DEF TypeOK, JobType, At

\* One program goes on, the other stays where it is.
LEMMA OneMoves ==
    ASSUME TypeOK, NEW w \in Program, NEW j \in JobType, job' = [job EXCEPT ![w] = j]
    PROVE  /\ job' \in [Program -> JobType] /\ job'[w] = j
           /\ \A u \in Program : u # w => job'[u] = job[u]
  BY DEF TypeOK

\* The places a job may be at.
LEMMA PlaceFacts ==
    /\ \A op \in {"down", "idle", "settling"} : At(op) \in JobType /\ At(op).at = op
    /\ \A l \in SUBSET Location :
          /\ Pruning(l) \in JobType /\ Pruning(l).at = "pruning" /\ Pruning(l).locs = l
          /\ Restoring(l) \in JobType /\ Restoring(l).at = "restoring" /\ Restoring(l).locs = l
  BY DEF At, Pruning, Restoring, JobType

\* A snapshot as it starts.
LEMMA PuttingFacts ==
    ASSUME NEW d \in Data, NEW todo \in SUBSET Provider, NEW found \in SUBSET Location,
           NEW prev \in SUBSET Location, NEW own \in BOOLEAN,
           NEW j, j = Putting(d, todo, found, prev, own)
    PROVE  /\ j \in JobType /\ j.at = "putting" /\ j.data = d /\ j.todo = todo
           /\ j.found = found /\ j.previous = prev /\ j.own = own
  BY DEF Putting, JobType

\* The parts of a register and of a location.
LEMMA PartsFacts ==
    /\ \A d \in Data : d.changes \in SUBSET Change /\ d.limits \in [Provider -> Limits]
    /\ \A loc \in Location : loc.provider \in Provider /\ loc.limits \in Limits /\ loc.ref \in Ref
    /\ \A p \in Provider, l \in Limits, r \in Ref :
          LET loc == [provider |-> p, limits |-> l, ref |-> r]
          IN  loc \in Location /\ loc.provider = p /\ loc.limits = l /\ loc.ref = r
    /\ Daemon \in Program /\ Cli \in Program /\ Daemon # Cli
    /\ \A w \in Program : w = Daemon \/ w = Cli
    /\ MaxPuts \in Nat /\ Name \in Ref /\ \A r \in Ref : r \in Nat
  BY SnapshotAssumption DEF SnapshotAssumption, Data, Location, Program, Ref, Name

----------------------------------------------------------------------------
(* Steps that leave the providers and the record alone.                    *)

\* A snapshot that has just begun, and one that goes on.
Begins(w) ==
    /\ job'[w].data = register /\ register # NoRegister /\ register' = register
    /\ job'[w].found = {} /\ job'[w].previous = recorded
GoesOn(w) ==
    /\ job[w].at = "putting" /\ job'[w].data = job[w].data /\ job'[w].found = job[w].found
    /\ job'[w].previous = job[w].previous /\ job'[w].todo \subseteq job[w].todo
    /\ register' # NoRegister => register # NoRegister /\ register.changes \subseteq register'.changes

LEMMA Calm ==
    ASSUME SnapshotInv, Usual, TypeOK', UNCHANGED <<remote, recorded, promised, puts>>,
           register' # NoRegister => Plain(register') /\ promised \subseteq register'.changes,
           \A w \in Program : job'[w].at = "putting" =>
               (Begins(w) \/ GoesOn(w)) /\ (job'[w].own <=> opened' # Closed),
           \A w \in Program : job'[w].at = "pruning" =>
               job[w].at = "pruning" /\ job'[w].locs \subseteq job[w].locs,
           job'[Cli].at = "restoring" => job'[Cli].locs \subseteq recorded,
           Apart'
    PROVE  UsualInv'
  <1>1. UsualInv
    BY DEF SnapshotInv
  <1>2. Names'
    BY <1>1 DEF UsualInv, Names, Plain, Named
  <1>3. Held'
    BY <1>1 DEF UsualInv, Held, Newer, ObjectAt
  <1>4. RestoringInv'
    BY DEF RestoringInv
  <1>5. ASSUME NEW w \in Program
        PROVE  PuttingInv(w)'
    <2>1. CASE job'[w].at # "putting"
      BY <2>1 DEF PuttingInv
    <2>2. CASE job'[w].at = "putting" /\ Begins(w)
      <3>1. Plain(register) /\ Newer(register)
        BY <1>1, <2>2 DEF Begins, UsualInv, Names, Held
      <3>2. job'[w].own <=> opened' # Closed
        BY <2>2
      <3>3. QED
        BY <2>2, <3>1, <3>2 DEF PuttingInv, Begins, Plain, Newer
    <2>3. CASE job'[w].at = "putting" /\ GoesOn(w)
      <3>1. PuttingInv(w) /\ job[w].at = "putting"
        BY <1>1, <2>3 DEF UsualInv, GoesOn
      <3>2. job'[w].own <=> opened' # Closed
        BY <2>3
      <3>3. Plain(job'[w].data) /\ Newer(job[w].data)' /\ job'[w].previous = recorded'
        BY <2>3, <3>1 DEF PuttingInv, GoesOn, Plain, Newer
      <3>4. register' # NoRegister => job'[w].data.changes \subseteq register'.changes
        BY <2>3, <3>1 DEF PuttingInv, GoesOn
      <3>5. ASSUME NEW loc \in job'[w].found
            PROVE  /\ ObjectAt(loc)' = job'[w].data /\ Named(loc)' /\ loc.provider \notin job'[w].todo
                   /\ \A r \in Ref : r > loc.ref => remote'[loc.provider][r] = NoObject
                   /\ \A old \in recorded' :
                         old.provider = loc.provider /\ old.provider \in Duplicating => old.ref < loc.ref
        <4>1. loc \in job[w].found
          BY <2>3, <3>5 DEF GoesOn
        <4>2. QED
          BY <2>3, <3>1, <4>1 DEF PuttingInv, GoesOn, ObjectAt, Named
      <3>6. QED
        BY <3>2, <3>3, <3>4, <3>5 DEF PuttingInv, Plain
    <2>4. QED
      BY <2>1, <2>2, <2>3
  <1>6. ASSUME NEW w \in Program
        PROVE  PruningInv(w)'
    BY <1>1 DEF UsualInv, PruningInv
  <1>7. QED
    BY <1>2, <1>3, <1>4, <1>5, <1>6 DEF UsualInv

----------------------------------------------------------------------------
(* Changes, locks, the daemon's life.                                      *)

\* A register with one more change, or with other limits.
LEMMA RegisterFacts ==
    ASSUME TypeOK, register # NoRegister
    PROVE  /\ register \in Data
           /\ \A c \in Change :
                 /\ [register EXCEPT !.changes = @ \cup {c}] \in Data
                 /\ [register EXCEPT !.changes = @ \cup {c}].changes = register.changes \cup {c}
                 /\ [register EXCEPT !.changes = @ \cup {c}].limits = register.limits
           /\ \A p \in Provider :
                 /\ [register EXCEPT !.limits[p] = 1 - @] \in Data
                 /\ [register EXCEPT !.limits[p] = 1 - @].changes = register.changes
                 /\ \A q \in Provider : q # p =>
                       [register EXCEPT !.limits[p] = 1 - @].limits[q] = register.limits[q]
  BY DEF TypeOK, Data, Limits

LEMMA MutateStep ==
    ASSUME SnapshotInv, NEW w \in Program, Mutate(w)
    PROVE  SnapshotInv'
  <1>1. TypeOK /\ UpInv
    BY DEF SnapshotInv
  <1> DEFINE r == [register EXCEPT !.changes = @ \cup {NextChange}]
  <1>2. register # NoRegister /\ register' = r
    BY DEF Mutate
  <1>3. NextChange \in Change
    BY <1>1, NextChangeFacts DEF Mutate
  <1>4. r \in Data /\ r.changes = register.changes \cup {NextChange} /\ r.limits = register.limits
    BY <1>1, <1>2, <1>3, RegisterFacts
  <1> HIDE DEF r
  <1>5. TypeOK' /\ UpInv'
    BY <1>1, <1>2, <1>4, AbsenceAssumption DEF Mutate, TypeOK, UpInv, AbsenceAssumption
  <1>6. ASSUME Usual
        PROVE  UsualInv'
    <2>1. UsualInv
      BY <1>6 DEF SnapshotInv
    <2>2. Apart'
      BY <2>1 DEF UsualInv, Apart, Mutate, Busy
    <2>3. Plain(register') /\ promised \subseteq register'.changes
      BY <1>2, <1>4, <2>1 DEF UsualInv, Names, Held, Plain, Newer
    <2>4. \A u \in Program : job'[u].at = "putting" =>
              (Begins(u) \/ GoesOn(u)) /\ (job'[u].own <=> opened' # Closed)
      BY <1>2, <1>4, <2>1 DEF Mutate, GoesOn, UsualInv, PuttingInv
    <2>5. UNCHANGED <<job, remote, recorded, promised, puts>>
      BY DEF Mutate
    <2>6. QED
      BY <1>5, <1>6, <2>1, <2>2, <2>3, <2>4, <2>5, Calm DEF UsualInv, RestoringInv
  <1>7. QED
    BY <1>5, <1>6 DEF SnapshotInv, Usual

LEMMA AdjustStep ==
    ASSUME SnapshotInv, NEW p \in Provider, Adjust(p)
    PROVE  SnapshotInv'
  <1>1. TypeOK /\ UpInv
    BY DEF SnapshotInv
  <1> DEFINE r == [register EXCEPT !.limits[p] = 1 - @]
  <1>2. register # NoRegister /\ register' = r
    BY DEF Adjust
  <1>3. r \in Data /\ r.changes = register.changes
        /\ \A q \in Provider : q # p => r.limits[q] = register.limits[q]
    BY <1>1, <1>2, RegisterFacts
  <1> HIDE DEF r
  <1>4. TypeOK' /\ UpInv'
    BY <1>1, <1>2, <1>3, AbsenceAssumption DEF Adjust, TypeOK, UpInv, AbsenceAssumption
  <1>5. ASSUME Usual
        PROVE  UsualInv'
    <2>1. UsualInv
      BY <1>5 DEF SnapshotInv
    <2>2. Apart'
      BY <2>1 DEF UsualInv, Apart, Adjust, Busy
    <2>3. Plain(register') /\ promised \subseteq register'.changes
      BY <1>2, <1>3, <1>5, <2>1 DEF Usual, Adjust, UsualInv, Names, Held, Plain, Newer
    <2>4. \A u \in Program : job'[u].at = "putting" =>
              (Begins(u) \/ GoesOn(u)) /\ (job'[u].own <=> opened' # Closed)
      BY <1>2, <1>3, <2>1 DEF Adjust, GoesOn, UsualInv, PuttingInv
    <2>5. UNCHANGED <<job, remote, recorded, promised, puts>>
      BY DEF Adjust
    <2>6. QED
      BY <1>4, <1>5, <2>1, <2>2, <2>3, <2>4, <2>5, Calm DEF UsualInv, RestoringInv
  <1>6. QED
    BY <1>4, <1>5 DEF SnapshotInv, Usual

LEMMA StartStep ==
    ASSUME SnapshotInv, Start
    PROVE  SnapshotInv'
  <1>1. TypeOK /\ UpInv
    BY DEF SnapshotInv
  <1>2. job' \in [Program -> JobType] /\ job'[Daemon] = At("idle") /\ job'[Cli] = job[Cli]
        /\ At("idle").at = "idle"
    BY <1>1, OneMoves, PlaceFacts, PartsFacts DEF Start, Become
  <1>3. TypeOK' /\ UpInv'
    <2>1. MaxStarts \in Nat
      BY SnapshotAssumption DEF SnapshotAssumption
    <2>2. starts' \in 0..MaxStarts
      BY <1>1, <2>1 DEF Start, TypeOK
    <2>3. QED
      BY <1>1, <1>2, <2>2 DEF Start, TypeOK, UpInv
  <1>4. ASSUME Usual
        PROVE  UsualInv'
    <2>1. UsualInv
      BY <1>4 DEF SnapshotInv
    <2>2. Apart'
      BY <1>2, <2>1 DEF UsualInv, Apart, Start, Busy
    <2>3. register' # NoRegister => Plain(register') /\ promised \subseteq register'.changes
      BY <2>1 DEF Start, UsualInv, Names, Held, Newer
    <2>4. \A u \in Program : job'[u].at \notin {"putting", "pruning"}
      BY <1>2, PartsFacts DEF Start, Busy
    <2>5. job'[Cli].at # "restoring"
      BY <1>2 DEF Start, Busy
    <2>6. UNCHANGED <<remote, recorded, promised, puts>>
      BY DEF Start
    <2>7. QED
      BY <1>3, <1>4, <2>2, <2>3, <2>4, <2>5, <2>6, Calm
  <1>5. QED
    BY <1>3, <1>4 DEF SnapshotInv, Usual

LEMMA StopStep ==
    ASSUME SnapshotInv, Stop
    PROVE  SnapshotInv'
  <1>1. TypeOK /\ UpInv
    BY DEF SnapshotInv
  <1>2. job' \in [Program -> JobType] /\ job'[Daemon] = At("down") /\ job'[Cli] = job[Cli]
        /\ At("down").at = "down"
    <2>1. At("down") \in JobType /\ At("down").at = "down" /\ Daemon \in Program /\ Cli \in Program
      BY PlaceFacts, PartsFacts
    <2>2. QED
      BY <1>1, <2>1, OneMoves, PartsFacts DEF Stop, Become
  <1>3. TypeOK' /\ UpInv'
    BY <1>1, <1>2 DEF Stop, TypeOK, UpInv
  <1>4. ASSUME Usual
        PROVE  UsualInv'
    <2>1. UsualInv
      BY <1>4 DEF SnapshotInv
    <2>2. Apart'
      BY <1>2, <2>1 DEF UsualInv, Apart, Stop, Busy
    <2>3. register' # NoRegister => Plain(register') /\ promised \subseteq register'.changes
      BY <2>1 DEF Stop, UsualInv, Names, Held, Newer
    <2>4. \A u \in Program : job'[u].at = "putting" =>
              (Begins(u) \/ GoesOn(u)) /\ (job'[u].own <=> opened' # Closed)
      <3>1. ASSUME job'[Cli].at = "putting"
            PROVE  GoesOn(Cli)
        BY <1>2, <3>1 DEF GoesOn, Stop
      <3>2. ASSUME job'[Cli].at = "putting"
            PROVE  job'[Cli].own <=> opened' # Closed
        BY <1>2, <2>1, <3>2, PartsFacts DEF UsualInv, PuttingInv, Apart, Busy, Stop
      <3>3. QED
        BY <1>2, <3>1, <3>2, PartsFacts
    <2>5. \A u \in Program : job'[u].at = "pruning" => job'[u] = job[u]
      BY <1>2, PartsFacts
    <2>6. UNCHANGED <<remote, recorded, promised, puts>>
      BY DEF Stop
    <2>7. job'[Cli].at = "restoring" => job'[Cli].locs \subseteq recorded
      BY <1>2, <2>1 DEF UsualInv, RestoringInv
    <2>8. QED
      BY <1>3, <1>4, <2>2, <2>3, <2>4, <2>5, <2>6, <2>7, Calm
  <1>5. QED
    BY <1>3, <1>4 DEF SnapshotInv, Usual

LEMMA UnlockStep ==
    ASSUME SnapshotInv, Unlock
    PROVE  SnapshotInv'
  <1>1. TypeOK /\ UpInv
    BY DEF SnapshotInv
  <1>2. TypeOK' /\ UpInv'
    BY <1>1 DEF Unlock, TypeOK, UpInv
  <1>3. ASSUME Usual
        PROVE  UsualInv'
    <2>1. UsualInv
      BY <1>3 DEF SnapshotInv
    <2>2. ~Busy(Cli) /\ ~Busy(Daemon)
      BY <1>3 DEF Unlock, Usual
    <2>3. Apart'
      BY <2>1, <2>2 DEF UsualInv, Apart, Unlock, Busy
    <2>4. register' # NoRegister => Plain(register') /\ promised \subseteq register'.changes
      BY <2>1 DEF Unlock, UsualInv, Names, Held, Newer
    <2>5. \A u \in Program : job'[u].at \notin {"putting", "pruning", "restoring"}
      BY <2>2, PartsFacts DEF Unlock, Busy
    <2>6. UNCHANGED <<remote, recorded, promised, puts>>
      BY DEF Unlock
    <2>7. QED
      BY <1>2, <1>3, <2>3, <2>4, <2>5, <2>6, PartsFacts, Calm
  <1>4. QED
    BY <1>2, <1>3 DEF SnapshotInv, Usual

LEMMA LockStep ==
    ASSUME SnapshotInv, Lock
    PROVE  SnapshotInv'
  <1>1. TypeOK /\ UpInv
    BY DEF SnapshotInv
  <1> DEFINE j == [job[Daemon] EXCEPT !.own = FALSE]
  <1>2. job[Daemon].at = "putting" =>
            /\ j \in JobType /\ j.at = "putting" /\ j.data = job[Daemon].data /\ j.todo = job[Daemon].todo
            /\ j.found = job[Daemon].found /\ j.previous = job[Daemon].previous /\ ~j.own
    <2> SUFFICES ASSUME job[Daemon].at = "putting"
                 PROVE  /\ j \in JobType /\ j.at = "putting" /\ j.data = job[Daemon].data
                        /\ j.todo = job[Daemon].todo /\ j.found = job[Daemon].found
                        /\ j.previous = job[Daemon].previous /\ ~j.own
      OBVIOUS
    <2>1. job[Daemon] \in [at : {"putting"}, data : Data, todo : SUBSET Provider,
                           found : SUBSET Location, previous : SUBSET Location, own : BOOLEAN]
      BY <1>1, JobFacts, PartsFacts
    <2>2. /\ j \in [at : {"putting"}, data : Data, todo : SUBSET Provider,
                    found : SUBSET Location, previous : SUBSET Location, own : BOOLEAN]
          /\ j.at = "putting" /\ j.data = job[Daemon].data
          /\ j.todo = job[Daemon].todo /\ j.found = job[Daemon].found
          /\ j.previous = job[Daemon].previous
      BY <2>1
    <2>3. j.own = FALSE
      BY <2>1
    <2>4. QED
      BY <2>2, <2>3 DEF JobType
  <1>3. job[Daemon].at = "putting" => job' = [job EXCEPT ![Daemon] = j]
    BY <1>1, PartsFacts DEF Lock, TypeOK
  <1>4. job[Daemon].at # "putting" => job' = job
    BY DEF Lock
  <1> HIDE DEF j
  <1>5. /\ job' \in [Program -> JobType] /\ job'[Cli] = job[Cli] /\ job'[Daemon].at = job[Daemon].at
        /\ job[Daemon].at = "putting" => job'[Daemon] = j
        /\ job[Daemon].at # "putting" => job'[Daemon] = job[Daemon]
    <2>1. CASE job[Daemon].at = "putting"
      BY <1>1, <1>2, <1>3, <2>1, OneMoves, PartsFacts
    <2>2. CASE job[Daemon].at # "putting"
      BY <1>1, <1>4, <2>2 DEF TypeOK
    <2>3. QED
      BY <2>1, <2>2
  <1>6. TypeOK' /\ UpInv'
    BY <1>1, <1>5 DEF Lock, TypeOK, UpInv
  <1>7. ASSUME Usual
        PROVE  UsualInv'
    <2>1. UsualInv
      BY <1>7 DEF SnapshotInv
    <2>2. ~Busy(Cli) /\ job[Daemon].at # "down"
      BY <2>1 DEF UsualInv, Apart, Lock
    <2>3. Apart'
      BY <1>5, <2>1, <2>2 DEF UsualInv, Apart, Lock, Busy
    <2>4. register' # NoRegister => Plain(register') /\ promised \subseteq register'.changes
      BY <2>1 DEF Lock, UsualInv, Names, Held, Newer
    <2>5. ASSUME NEW u \in Program, job'[u].at = "putting"
          PROVE  (Begins(u) \/ GoesOn(u)) /\ (job'[u].own <=> opened' # Closed)
      <3>1. u = Daemon /\ job[Daemon].at = "putting" /\ job'[Daemon] = j
        BY <1>5, <2>2, <2>5, PartsFacts DEF Busy
      <3>2. GoesOn(u) /\ ~job'[u].own
        BY <1>2, <3>1 DEF GoesOn, Lock
      <3>3. QED
        BY <3>2 DEF Lock
    <2>6. \A u \in Program : job'[u].at = "pruning" => job'[u] = job[u]
      BY <1>5, PartsFacts
    <2>7. UNCHANGED <<remote, recorded, promised, puts>>
      BY DEF Lock
    <2>8. job'[Cli].at # "restoring"
      BY <1>5, <2>2 DEF Busy
    <2>9. QED
      BY <1>6, <1>7, <2>3, <2>4, <2>5, <2>6, <2>7, <2>8, Calm
  <1>8. QED
    BY <1>6, <1>7 DEF SnapshotInv, Usual

LEMMA LoseStep ==
    ASSUME SnapshotInv, LoseRegister
    PROVE  SnapshotInv'
  <1>1. TypeOK' /\ UpInv'
    BY DEF SnapshotInv, LoseRegister, TypeOK, UpInv
  <1>2. ASSUME Usual
        PROVE  UsualInv'
    <2>1. UsualInv
      BY <1>2 DEF SnapshotInv
    <2>2. Apart'
      BY <2>1 DEF UsualInv, Apart, LoseRegister, Busy
    <2>3. register' = NoRegister /\ UNCHANGED <<job, remote, recorded, promised, puts>>
      BY DEF LoseRegister
    <2>4. \A u \in Program : job'[u].at \in {"down", "idle"}
      BY PartsFacts DEF LoseRegister
    <2>5. QED
      BY <1>1, <1>2, <2>2, <2>3, <2>4, PartsFacts, Calm
  <1>3. QED
    BY <1>1, <1>2 DEF SnapshotInv, Usual

----------------------------------------------------------------------------
(* A program goes to another place, or begins a snapshot.                  *)

\* Nothing else moves, and the program is where nothing is held to be true.
LEMMA RestStep ==
    ASSUME SnapshotInv, TypeOK', UpInv', NEW w \in Program,
           job'[w].at \notin {"putting", "pruning", "restoring"},
           \A u \in Program : u # w => job'[u] = job[u],
           UNCHANGED <<remote, recorded, promised, puts, opened, register>>,
           Usual => Apart'
    PROVE  SnapshotInv'
  <1>1. ASSUME Usual
        PROVE  UsualInv'
    <2>1. UsualInv
      BY <1>1 DEF SnapshotInv
    <2>2. register' # NoRegister => Plain(register') /\ promised \subseteq register'.changes
      BY <2>1 DEF UsualInv, Names, Held, Newer
    <2>3. ASSUME NEW u \in Program, job'[u].at = "putting"
          PROVE  (Begins(u) \/ GoesOn(u)) /\ (job'[u].own <=> opened' # Closed)
      <3>1. u # w /\ job'[u] = job[u] /\ job[u].at = "putting"
        BY <2>3
      <3>2. GoesOn(u)
        BY <3>1 DEF GoesOn
      <3>3. job'[u].own <=> opened' # Closed
        BY <2>1, <3>1 DEF UsualInv, PuttingInv
      <3>4. QED
        BY <3>2, <3>3
    <2>4. \A u \in Program : job'[u].at = "pruning" => job'[u] = job[u]
      OBVIOUS
    <2>5. job'[Cli].at = "restoring" => job'[Cli].locs \subseteq recorded
      BY <2>1, PartsFacts DEF UsualInv, RestoringInv
    <2>6. QED
      BY <1>1, <2>2, <2>3, <2>4, <2>5, Calm
  <1>2. QED
    BY <1>1 DEF SnapshotInv, Usual

\* The register is copied, and nothing has been put yet.
LEMMA BeginStep ==
    ASSUME SnapshotInv, NEW w \in Program, NEW copy \in SUBSET Location, NEW own \in BOOLEAN,
           register # NoRegister, StartSnapshot(w, copy, own), dirty' \in BOOLEAN,
           UNCHANGED <<register, remote, recorded, opened, puts, starts, promised>>,
           Usual => /\ copy = recorded /\ (own <=> opened # Closed)
                    /\ \A u \in Program : u # w => ~Busy(u)
                    /\ job[w].at # "down" /\ (w = Cli => opened = Closed)
    PROVE  SnapshotInv'
  <1>1. TypeOK /\ UpInv /\ register \in Data
    BY DEF SnapshotInv, TypeOK
  <1> DEFINE j == Putting(register, Provider, {}, copy, own)
  <1>2. /\ j \in JobType /\ j.at = "putting" /\ j.data = register
        /\ j.found = {} /\ j.previous = copy /\ j.own = own
    BY <1>1, PuttingFacts
  <1>3. job' = [job EXCEPT ![w] = j]
    BY DEF StartSnapshot, Become
  <1> HIDE DEF j
  <1>4. /\ job' \in [Program -> JobType] /\ job'[w] = j
        /\ \A u \in Program : u # w => job'[u] = job[u]
    BY <1>1, <1>2, <1>3, OneMoves
  <1>5. TypeOK' /\ UpInv'
    BY <1>1, <1>4 DEF TypeOK, UpInv
  <1>6. ASSUME Usual
        PROVE  UsualInv'
    <2>1. UsualInv
      BY <1>6 DEF SnapshotInv
    <2>2. Apart'
      <3>1. CASE w = Daemon
        BY <1>2, <1>4, <1>6, <2>1, <3>1, PartsFacts DEF UsualInv, Apart, Busy
      <3>2. CASE w = Cli
        BY <1>2, <1>4, <1>6, <2>1, <3>2, PartsFacts DEF UsualInv, Apart, Busy
      <3>3. QED
        BY <3>1, <3>2, PartsFacts
    <2>3. register' # NoRegister => Plain(register') /\ promised \subseteq register'.changes
      BY <2>1 DEF UsualInv, Names, Held, Newer
    <2>4. \A u \in Program : u # w => job'[u].at \notin {"putting", "pruning", "restoring"}
      BY <1>4, <1>6 DEF Busy
    <2>5. Begins(w)
      BY <1>2, <1>4, <1>6 DEF Begins
    <2>6. job'[w].own <=> opened' # Closed
      BY <1>2, <1>4, <1>6
    <2>7. job'[w].at = "putting"
      BY <1>2, <1>4
    <2>8. \A u \in Program : job'[u].at = "putting" =>
              (Begins(u) \/ GoesOn(u)) /\ (job'[u].own <=> opened' # Closed)
      BY <2>4, <2>5, <2>6
    <2>9. QED
      BY <1>5, <1>6, <2>2, <2>3, <2>4, <2>7, <2>8, PartsFacts, Calm
  <1>7. QED
    BY <1>5, <1>6 DEF SnapshotInv, Usual

LEMMA CliSnapshotStep ==
    ASSUME SnapshotInv, CliSnapshot
    PROVE  SnapshotInv'
  <1>1. Usual => UsualInv
    BY DEF SnapshotInv
  <1>2. recorded \in SUBSET Location /\ dirty' \in BOOLEAN
    BY DEF SnapshotInv, TypeOK, CliSnapshot, Rest
  <1>3. Usual => opened = Closed /\ ~Busy(Daemon) /\ job[Cli].at # "down"
    BY DEF CliSnapshot, Usual
  <1>4. \A u \in Program : u # Cli => u = Daemon
    BY PartsFacts
  <1> DEFINE own == FALSE
  <1>5. own \in BOOLEAN /\ ~own
    OBVIOUS
  <1>6. StartSnapshot(Cli, recorded, own) /\ register # NoRegister
        /\ UNCHANGED <<register, remote, recorded, opened, puts, starts, promised>>
    BY DEF CliSnapshot, Rest
  <1> HIDE DEF own
  <1>7. QED
    BY <1>2, <1>3, <1>4, <1>5, <1>6, PartsFacts, BeginStep

LEMMA WakeStep ==
    ASSUME SnapshotInv, Wake
    PROVE  SnapshotInv'
  <1>1. TypeOK /\ UpInv
    BY DEF SnapshotInv
  <1>2. At("settling") \in JobType /\ At("settling").at = "settling" /\ Daemon \in Program
        /\ Cli \in Program
    BY PlaceFacts, PartsFacts
  <1>3. /\ job' \in [Program -> JobType] /\ job'[Daemon].at = "settling"
        /\ \A u \in Program : u # Daemon => job'[u] = job[u]
    BY <1>1, <1>2, OneMoves DEF Wake, Become
  <1>4. TypeOK' /\ UpInv'
    BY <1>1, <1>3 DEF Wake, Rest, TypeOK, UpInv
  <1>5. Usual => Apart'
    BY <1>2, <1>3, PartsFacts DEF SnapshotInv, UsualInv, Apart, Busy, Wake, Rest
  <1>6. UNCHANGED <<remote, recorded, promised, puts, opened, register>>
    BY DEF Wake, Rest
  <1>7. QED
    BY <1>2, <1>3, <1>4, <1>5, <1>6, RestStep

LEMMA SettleStep ==
    ASSUME SnapshotInv, Settle
    PROVE  SnapshotInv'
  <1>1. TypeOK /\ UpInv
    BY DEF SnapshotInv
  <1>2. /\ At("idle") \in JobType /\ At("idle").at = "idle" /\ Daemon \in Program
        /\ Cli \in Program
    BY PlaceFacts, PartsFacts
  <1>3. /\ dirty' \in BOOLEAN
        /\ UNCHANGED <<register, remote, recorded, opened, puts, starts, promised>>
    BY DEF Settle
  <1>4. CASE opened = Closed
    <2>1. /\ job' \in [Program -> JobType] /\ job'[Daemon].at = "idle"
          /\ \A u \in Program : u # Daemon => job'[u] = job[u]
      BY <1>1, <1>2, <1>4, OneMoves DEF Settle, Become
    <2>2. TypeOK' /\ UpInv'
      BY <1>1, <1>3, <2>1 DEF Settle, TypeOK, UpInv
    <2>3. Usual => Apart'
      BY <1>2, <1>3, <2>1, PartsFacts DEF SnapshotInv, UsualInv, Apart, Busy, Settle
    <2>4. QED
      BY <1>2, <1>3, <2>1, <2>2, <2>3, RestStep
  <1>5. CASE opened # Closed
    <2>1. opened \in SUBSET Location /\ register # NoRegister
      BY <1>1, <1>5 DEF TypeOK, UpInv, Settle
    <2>2. Usual => opened = recorded /\ job[Daemon].at # "down" /\ ~Busy(Cli)
      BY <1>5 DEF SnapshotInv, UsualInv, Apart, Settle
    <2>3. \A u \in Program : u # Daemon => u = Cli
      BY PartsFacts
    <2> DEFINE own == TRUE
    <2>4. own \in BOOLEAN /\ own
      OBVIOUS
    <2>5. StartSnapshot(Daemon, opened, own)
      BY <1>5 DEF Settle
    <2> HIDE DEF own
    <2>6. Usual => /\ opened = recorded /\ (own <=> opened # Closed)
                   /\ \A u \in Program : u # Daemon => ~Busy(u)
                   /\ job[Daemon].at # "down" /\ (Daemon = Cli => opened = Closed)
      BY <1>5, <2>2, <2>3, <2>4, PartsFacts
    <2>7. QED
      BY <1>2, <1>3, <2>1, <2>4, <2>5, <2>6, BeginStep
  <1>6. QED
    BY <1>4, <1>5

\* A program whose snapshot is over.
LEMMA OverStep ==
    ASSUME SnapshotInv, NEW w \in Program, SnapshotFails(w) \/ EndSnapshot(w)
    PROVE  SnapshotInv'
  <1>1. TypeOK /\ UpInv
    BY DEF SnapshotInv
  <1>2. job[w].at \in {"putting", "pruning"} /\ Become(w, At("idle"))
        /\ UNCHANGED <<Rest, remote, recorded, opened, puts, promised>>
    BY DEF SnapshotFails, EndSnapshot, PutsDone
  <1>3. At("idle") \in JobType /\ At("idle").at = "idle"
    BY PlaceFacts
  <1>4. /\ job' \in [Program -> JobType] /\ job'[w].at = "idle"
        /\ \A u \in Program : u # w => job'[u] = job[u]
    BY <1>1, <1>2, <1>3, OneMoves DEF Become
  <1>5. TypeOK' /\ UpInv'
    <2>1. TypeOK'
      BY <1>1, <1>2, <1>4 DEF Rest, TypeOK
    <2>2. UpInv'
      BY <1>1, <1>2, <1>4, PartsFacts DEF Rest, UpInv
    <2>3. QED
      BY <2>1, <2>2
  <1>6. Usual => Apart'
    <2>1. CASE w = Daemon
      BY <1>2, <1>4, <2>1, PartsFacts DEF SnapshotInv, UsualInv, Apart, Busy, Rest
    <2>2. CASE w = Cli
      BY <1>2, <1>4, <2>2, PartsFacts DEF SnapshotInv, UsualInv, Apart, Busy, Rest
    <2>3. QED
      BY <2>1, <2>2, PartsFacts
  <1>7. UNCHANGED <<remote, recorded, promised, puts, opened, register>>
    BY <1>2 DEF Rest
  <1>8. QED
    BY <1>4, <1>5, <1>6, <1>7, RestStep

----------------------------------------------------------------------------
(* The restore.                                                            *)

\* The locations to try come from the record.
LEMMA TryStep ==
    ASSUME SnapshotInv, NEW locs \in SUBSET Location,
           Become(Cli, Restoring(locs)),
           UNCHANGED <<Rest, remote, recorded, opened, puts, promised>>,
           Usual => job[Daemon].at = "down" /\ locs \subseteq recorded
    PROVE  SnapshotInv'
  <1>1. TypeOK /\ UpInv
    BY DEF SnapshotInv
  <1>2. Restoring(locs) \in JobType /\ Restoring(locs).at = "restoring" /\ Restoring(locs).locs = locs
        /\ Cli \in Program /\ Daemon \in Program /\ Cli # Daemon
    BY PlaceFacts, PartsFacts
  <1>3. /\ job' \in [Program -> JobType] /\ job'[Cli] = Restoring(locs)
        /\ job'[Daemon] = job[Daemon]
    BY <1>1, <1>2, OneMoves DEF Become
  <1>4. TypeOK' /\ UpInv'
    BY <1>1, <1>3 DEF Rest, TypeOK, UpInv
  <1>5. ASSUME Usual
        PROVE  UsualInv'
    <2>1. UsualInv
      BY <1>5 DEF SnapshotInv
    <2>2. Apart'
      BY <1>2, <1>3, <1>5, <2>1 DEF UsualInv, Apart, Busy, Rest
    <2>3. register' # NoRegister => Plain(register') /\ promised \subseteq register'.changes
      BY <2>1 DEF UsualInv, Names, Held, Newer, Rest
    <2>4. \A u \in Program : job'[u].at \notin {"putting", "pruning"}
      BY <1>2, <1>3, <1>5, PartsFacts
    <2>5. job'[Cli].locs \subseteq recorded
      BY <1>2, <1>3, <1>5
    <2>6. UNCHANGED <<remote, recorded, promised, puts>>
      OBVIOUS
    <2>7. QED
      BY <1>4, <1>5, <2>2, <2>3, <2>4, <2>5, <2>6, Calm
  <1>6. QED
    BY <1>4, <1>5 DEF SnapshotInv, Usual

LEMMA StartRestoreStep ==
    ASSUME SnapshotInv, StartRestore
    PROVE  SnapshotInv'
  <1>1. recorded \in SUBSET Location
    BY DEF SnapshotInv, TypeOK
  <1>2. QED
    BY <1>1, TryStep DEF StartRestore

LEMMA RestoreMissesStep ==
    ASSUME SnapshotInv, NEW loc \in Location, RestoreMisses(loc)
    PROVE  SnapshotInv'
  <1>1. TypeOK
    BY DEF SnapshotInv
  <1>2. job[Cli] \in [at : {"pruning", "restoring"}, locs : SUBSET Location]
        /\ job[Cli].at = "restoring" /\ job[Cli].locs \in SUBSET Location
    BY <1>1, JobFacts, PartsFacts DEF RestoreMisses
  <1> DEFINE rest == job[Cli].locs \ {loc}
  <1>3. rest \in SUBSET Location
    BY <1>2
  <1>4. job' = [job EXCEPT ![Cli] = [job[Cli] EXCEPT !.locs = rest]]
    BY <1>1, PartsFacts DEF RestoreMisses, TypeOK
  <1>5. [job[Cli] EXCEPT !.locs = rest] = Restoring(rest)
    BY <1>2 DEF Restoring
  <1>6. Become(Cli, Restoring(rest))
    BY <1>4, <1>5 DEF Become
  <1>7. Usual => job[Daemon].at = "down" /\ rest \subseteq recorded
    BY <1>2 DEF SnapshotInv, UsualInv, Apart, RestoringInv
  <1>8. UNCHANGED <<Rest, remote, recorded, opened, puts, promised>>
    BY DEF RestoreMisses
  <1> HIDE DEF rest
  <1>9. QED
    BY <1>3, <1>6, <1>7, <1>8, TryStep

LEMMA RestoreFailsStep ==
    ASSUME SnapshotInv, RestoreFails
    PROVE  SnapshotInv'
  <1>1. TypeOK /\ UpInv
    BY DEF SnapshotInv
  <1>2. job[Cli].at = "restoring" /\ Become(Cli, At("idle"))
        /\ UNCHANGED <<Rest, remote, recorded, opened, puts, promised>>
    BY DEF RestoreFails
  <1>3. At("idle") \in JobType /\ At("idle").at = "idle" /\ Cli \in Program
    BY PlaceFacts, PartsFacts
  <1>4. /\ job' \in [Program -> JobType] /\ job'[Cli].at = "idle"
        /\ \A u \in Program : u # Cli => job'[u] = job[u]
    BY <1>1, <1>2, <1>3, OneMoves DEF Become
  <1>5. TypeOK'
    BY <1>1, <1>2, <1>4 DEF Rest, TypeOK
  <1>6. UpInv'
    BY <1>1, <1>2, <1>4, PartsFacts DEF Rest, UpInv
  <1>7. Usual => Apart'
    BY <1>2, <1>4, PartsFacts DEF SnapshotInv, UsualInv, Apart, Busy, Rest
  <1>8. UNCHANGED <<remote, recorded, promised, puts, opened, register>>
    BY <1>2 DEF Rest
  <1>9. QED
    BY <1>3, <1>4, <1>5, <1>6, <1>7, <1>8, RestStep

LEMMA RestoreFromStep ==
    ASSUME SnapshotInv, NEW loc \in Location, RestoreFrom(loc)
    PROVE  SnapshotInv'
  <1>1. TypeOK /\ UpInv
    BY DEF SnapshotInv
  <1>2. job[Cli].at = "restoring" /\ loc \in job[Cli].locs /\ Become(Cli, At("idle"))
        /\ register' = ObjectAt(loc) /\ ObjectAt(loc) # NoObject
        /\ UNCHANGED <<remote, recorded, opened, dirty, puts, starts, promised>>
    BY DEF RestoreFrom
  <1>3. At("idle") \in JobType /\ At("idle").at = "idle" /\ Cli \in Program
    BY PlaceFacts, PartsFacts
  <1>4. /\ job' \in [Program -> JobType] /\ job'[Cli].at = "idle"
        /\ \A u \in Program : u # Cli => job'[u] = job[u]
    BY <1>1, <1>2, <1>3, OneMoves DEF Become
  <1>5. loc.provider \in Provider /\ loc.ref \in Ref /\ loc.ref >= loc.ref
    BY PartsFacts
  <1>6. ObjectAt(loc) \in Data
    BY <1>1, <1>2, <1>5 DEF TypeOK, ObjectAt
  <1>7. TypeOK' /\ UpInv'
    BY <1>1, <1>2, <1>4, <1>6, AbsenceAssumption DEF TypeOK, UpInv, AbsenceAssumption
  <1>8. ASSUME Usual
        PROVE  UsualInv'
    <2>1. UsualInv
      BY <1>8 DEF SnapshotInv
    <2>2. Apart'
      BY <1>2, <1>4, <2>1, PartsFacts DEF UsualInv, Apart, Busy
    <2>3. loc \in recorded /\ job[Daemon].at = "down"
      BY <1>2, <2>1 DEF UsualInv, RestoringInv, Apart
    <2>4. Plain(register') /\ promised \subseteq register'.changes
      BY <1>2, <1>5, <2>1, <2>3 DEF UsualInv, Names, Held, Newer, ObjectAt
    <2>5. \A u \in Program : job'[u].at \in {"down", "idle"}
      BY <1>4, <2>3, PartsFacts
    <2>6. UNCHANGED <<remote, recorded, promised, puts>>
      BY <1>2
    <2>7. QED
      BY <1>3, <1>7, <1>8, <2>2, <2>4, <2>5, <2>6, Calm
  <1>9. QED
    BY <1>7, <1>8 DEF SnapshotInv, Usual

----------------------------------------------------------------------------
(* Steps at the providers.                                                 *)

\* The reference that a put makes.
LEMMA RefFacts ==
    ASSUME TypeOK, NEW w \in Program, NEW p \in Provider, job[w].at = "putting", Lands(w, p)
    PROVE  /\ RefOf(p) \in Ref /\ puts' \in 0..MaxPuts /\ puts <= puts' /\ RefOf(p) <= puts'
           /\ p \in Duplicating => RefOf(p) = puts + 1
           /\ p \notin Duplicating => RefOf(p) = Name
           /\ remote'[p][RefOf(p)] = job[w].data
           /\ \A q \in Provider, r \in Ref : q # p \/ r # RefOf(p) => remote'[q][r] = remote[q][r]
           /\ remote' \in [Provider -> [Ref -> Data \cup {NoObject}]]
           /\ job[w].data # NoObject
  <1>1. job[w].data \in Data /\ job[w].data # NoObject
    BY JobFacts, AbsenceAssumption DEF AbsenceAssumption
  <1>2. RefOf(p) \in Ref /\ MaxPuts \in Nat /\ puts \in 0..MaxPuts
    BY PartsFacts DEF Lands, TypeOK
  <1>3. /\ p \in Duplicating => RefOf(p) = puts + 1 /\ puts' = puts + 1
        /\ p \notin Duplicating => RefOf(p) = Name /\ puts' = puts
    BY DEF RefOf, Lands
  <1>4. puts' \in 0..MaxPuts /\ puts <= puts' /\ RefOf(p) <= puts'
    BY <1>2, <1>3 DEF Ref, Name
  <1>5. remote' = [remote EXCEPT ![p] = [remote[p] EXCEPT ![RefOf(p)] = job[w].data]]
    BY DEF Lands, TypeOK
  <1>6. remote[p] \in [Ref -> Data \cup {NoObject}]
    BY DEF TypeOK
  <1> DEFINE c == [remote[p] EXCEPT ![RefOf(p)] = job[w].data]
  <1>7. c \in [Ref -> Data \cup {NoObject}] /\ c[RefOf(p)] = job[w].data
        /\ \A r \in Ref : r # RefOf(p) => c[r] = remote[p][r]
    BY <1>1, <1>2, <1>6
  <1> HIDE DEF c
  <1>8. /\ remote' \in [Provider -> [Ref -> Data \cup {NoObject}]] /\ remote'[p] = c
        /\ \A q \in Provider : q # p => remote'[q] = remote[q]
    BY <1>5, <1>7 DEF TypeOK, c
  <1>9. QED
    BY <1>1, <1>2, <1>3, <1>4, <1>7, <1>8

\* Where a put that has been answered has put the snapshot.
Fresh(w, p) == [provider |-> p, limits |-> job[w].data.limits[p], ref |-> RefOf(p)]

LEMMA LandedStep ==
    ASSUME SnapshotInv, NEW w \in Program, NEW p \in Provider, Trying(w, p), Lands(w, p),
           NEW found \in SUBSET Location, found \subseteq job[w].found \cup {Fresh(w, p)},
           NEW j \in JobType, j.at = "putting", j.data = job[w].data, j.todo = job[w].todo \ {p},
           j.found = found, j.previous = job[w].previous, j.own = job[w].own,
           job' = [job EXCEPT ![w] = j],
           UNCHANGED <<Rest, recorded, opened, promised>>
    PROVE  SnapshotInv'
  <1>1. TypeOK /\ UpInv /\ job[w].at = "putting" /\ p \in job[w].todo
    BY DEF SnapshotInv, Trying
  <1>2. job[w].data \in Data /\ job[w].todo \in SUBSET Provider /\ job[w].found \in SUBSET Location
        /\ job[w].todo \ {p} \in SUBSET Provider
    BY <1>1, JobFacts
  <1>3. /\ job' \in [Program -> JobType] /\ job'[w] = j
        /\ \A u \in Program : u # w => job'[u] = job[u]
    BY <1>1, OneMoves
  <1> DEFINE q == RefOf(p)
             d == job[w].data
  <1>4. /\ q \in Ref /\ puts' \in 0..MaxPuts /\ puts <= puts' /\ q <= puts'
        /\ p \in Duplicating => q = puts + 1
        /\ p \notin Duplicating => q = Name
        /\ remote'[p][q] = d
        /\ \A s \in Provider, r \in Ref : s # p \/ r # q => remote'[s][r] = remote[s][r]
        /\ remote' \in [Provider -> [Ref -> Data \cup {NoObject}]]
        /\ d # NoObject
    BY <1>1, RefFacts
  <1>5. puts \in Nat /\ puts' \in Nat /\ \A r \in Ref : r \in Nat
    BY <1>1, <1>4, PartsFacts DEF TypeOK
  <1>6. TypeOK'
    BY <1>1, <1>3, <1>4 DEF Rest, TypeOK
  <1>7. UpInv'
    BY <1>1, <1>3 DEF UpInv, Rest
  <1>8. ASSUME Usual
         PROVE  UsualInv'
    <2>1. UsualInv /\ PuttingInv(w)
      BY <1>8 DEF SnapshotInv, UsualInv
    <2>2. Plain(d) /\ Newer(d) /\ job[w].previous = recorded
          /\ (register # NoRegister => d.changes \subseteq register.changes)
          /\ (job[w].own <=> opened # Closed)
      BY <1>1, <2>1 DEF PuttingInv
    <2>3. Apart'
      <3>1. CASE w = Daemon
        BY <1>1, <1>3, <2>1, <3>1, PartsFacts DEF UsualInv, Apart, Busy
      <3>2. CASE w = Cli
        BY <1>1, <1>3, <2>1, <3>2, PartsFacts DEF UsualInv, Apart, Busy
      <3>3. QED
        BY <3>1, <3>2, PartsFacts
    <2>4. \A u \in Program : u # w => job'[u].at \notin {"putting", "pruning", "restoring"}
      BY <1>1, <1>3, <2>1, PartsFacts DEF UsualInv, Apart, Busy
    <2>5. p \in Duplicating => remote[p][q] = NoObject
      <3>1. ASSUME p \in Duplicating
            PROVE  ~ (q <= puts)
        BY <1>4, <1>5, <3>1
      <3>2. QED
        BY <1>4, <2>1, <3>1 DEF UsualInv, Names
    <2>6. Names'
      <3>1. register' # NoRegister => Plain(register')
        BY <2>1 DEF UsualInv, Names, Rest
      <3>2. ASSUME NEW s \in Provider, NEW r \in Ref, remote'[s][r] # NoObject
            PROVE  Plain(remote'[s][r]) /\ r <= puts' /\ (s \notin Duplicating => r = Name)
        <4>1. CASE s = p /\ r = q
          BY <1>4, <2>2, <4>1
        <4>2. CASE s # p \/ r # q
          <5>1. remote'[s][r] = remote[s][r]
            BY <1>4, <4>2
          <5>2. Plain(remote[s][r]) /\ r <= puts /\ (s \notin Duplicating => r = Name)
            BY <2>1, <3>2, <5>1 DEF UsualInv, Names
          <5>3. QED
            BY <1>4, <1>5, <5>1, <5>2
        <4>3. QED
          BY <4>1, <4>2
      <3>3. ASSUME NEW loc \in recorded'
            PROVE  Named(loc)'
        <4>1. Named(loc) /\ loc.ref \in Nat
          BY <1>1, <1>5, <2>1, <3>3, PartsFacts DEF UsualInv, Names, TypeOK
        <4>2. QED
          BY <1>4, <1>5, <4>1 DEF Named
      <3>4. QED
        BY <3>1, <3>2, <3>3 DEF Names, Plain
    <2>7. Held'
      <3>1. register' # NoRegister => Newer(register)'
        BY <2>1 DEF UsualInv, Held, Rest, Newer
      <3>2. ASSUME NEW loc \in recorded'
            PROVE  /\ ObjectAt(loc)' # NoObject
                   /\ \A r \in Ref : r >= loc.ref /\ remote'[loc.provider][r] # NoObject
                          => promised \subseteq remote'[loc.provider][r].changes
        <4>1. loc \in recorded /\ loc.provider \in Provider /\ loc.ref \in Ref
          BY <1>1, PartsFacts DEF TypeOK
        <4>2. ObjectAt(loc) # NoObject
              /\ \A r \in Ref : r >= loc.ref /\ remote[loc.provider][r] # NoObject
                     => promised \subseteq remote[loc.provider][r].changes
          BY <2>1, <4>1 DEF UsualInv, Held, Newer
        <4>3. ObjectAt(loc)' # NoObject
          BY <1>4, <4>1, <4>2 DEF ObjectAt
        <4>4. promised \subseteq d.changes
          BY <2>2 DEF Newer
        <4>5. QED
          BY <1>4, <4>1, <4>2, <4>3, <4>4
      <3>3. QED
        BY <3>1, <3>2 DEF Held, Newer
    <2>8. RestoringInv'
      BY <1>3, <2>4, PartsFacts DEF RestoringInv
    <2>9. PuttingInv(w)'
      <3>1. job'[w] = j /\ job'[w].data = d /\ job'[w].previous = recorded'
            /\ Plain(job'[w].data) /\ Newer(job[w].data)'
        BY <1>3, <2>2 DEF Newer
      <3>2. (register' # NoRegister => d.changes \subseteq register'.changes)
            /\ (job'[w].own <=> opened' # Closed)
        BY <1>3, <2>2 DEF Rest
      <3>3. ASSUME NEW loc \in found
            PROVE  /\ ObjectAt(loc)' = d /\ Named(loc)' /\ loc.provider \notin j.todo
                   /\ \A r \in Ref : r > loc.ref => remote'[loc.provider][r] = NoObject
                   /\ \A old \in recorded :
                         old.provider = loc.provider /\ old.provider \in Duplicating => old.ref < loc.ref
        <4>1. CASE loc \in job[w].found
          <5>1. /\ ObjectAt(loc) = d /\ Named(loc) /\ loc.provider \notin job[w].todo
                /\ \A r \in Ref : r > loc.ref => remote[loc.provider][r] = NoObject
                /\ \A old \in recorded :
                      old.provider = loc.provider /\ old.provider \in Duplicating => old.ref < loc.ref
            BY <1>1, <2>1, <4>1 DEF PuttingInv
          <5>2. loc.provider \in Provider /\ loc.ref \in Ref /\ loc.provider # p
            BY <1>1, <5>1, PartsFacts
          <5>3. ObjectAt(loc)' = d /\ \A r \in Ref : r > loc.ref => remote'[loc.provider][r] = NoObject
            BY <1>4, <5>1, <5>2 DEF ObjectAt
          <5>4. Named(loc)'
            BY <1>4, <1>5, <5>1, <5>2 DEF Named
          <5>5. QED
            BY <5>1, <5>3, <5>4
        <4>2. CASE loc = Fresh(w, p)
          <5>1. loc.provider = p /\ loc.limits = d.limits[p] /\ loc.ref = q
            BY <4>2 DEF Fresh
          <5>2. ObjectAt(loc)' = d /\ loc.provider \notin j.todo
            BY <1>4, <5>1 DEF ObjectAt
          <5>3. Named(loc)'
            BY <1>4, <2>2, <5>1 DEF Named, Plain
          <5>4. ASSUME NEW r \in Ref, r > q
                PROVE  remote'[p][r] = NoObject
            <6>1. r # q /\ remote'[p][r] = remote[p][r]
              BY <1>4, <1>5, <5>4
            <6>2. ~ (r <= puts) \/ (p \notin Duplicating /\ r # Name)
              BY <1>4, <1>5, <5>4, <6>1
            <6>3. QED
              BY <2>1, <6>1, <6>2 DEF UsualInv, Names
          <5>5. ASSUME NEW old \in recorded, p \in Duplicating
                PROVE  old.ref < q
            BY <1>1, <1>4, <1>5, <2>1, <5>5, PartsFacts DEF UsualInv, Names, Named, TypeOK
          <5>6. QED
            BY <5>1, <5>2, <5>3, <5>4, <5>5
        <4>3. QED
          BY <4>1, <4>2
      <3>4. QED
        BY <3>1, <3>2, <3>3 DEF PuttingInv
    <2>10. ASSUME NEW u \in Program
           PROVE  PuttingInv(u)' /\ PruningInv(u)'
      <3>1. job'[w].at = "putting"
        BY <1>3
      <3>2. CASE u = w
        BY <2>9, <3>1, <3>2 DEF PruningInv
      <3>3. CASE u # w
        BY <2>4, <3>3 DEF PuttingInv, PruningInv
      <3>4. QED
        BY <3>2, <3>3
    <2>11. QED
      BY <2>3, <2>6, <2>7, <2>8, <2>10 DEF UsualInv
  <1>9. QED
    BY <1>6, <1>7, <1>8 DEF SnapshotInv, Usual

LEMMA PutLandsStep ==
    ASSUME SnapshotInv, NEW w \in Program, NEW p \in Provider, PutLands(w, p)
    PROVE  SnapshotInv'
  <1>1. TypeOK /\ job[w].at = "putting"
    BY DEF SnapshotInv, PutLands, Trying
  <1>2. job[w].data \in Data /\ job[w].found \in SUBSET Location /\ RefOf(p) \in Ref
        /\ job[w] \in [at : {"putting"}, data : Data, todo : SUBSET Provider,
                       found : SUBSET Location, previous : SUBSET Location, own : BOOLEAN]
    BY <1>1, JobFacts, RefFacts DEF PutLands
  <1>3. Fresh(w, p) \in Location
    BY <1>2, PartsFacts DEF Fresh
  <1> DEFINE found == job[w].found \cup {Fresh(w, p)}
             j == [job[w] EXCEPT !.todo = job[w].todo \ {p}, !.found = found]
  <1>4. found \in SUBSET Location
    BY <1>2, <1>3
  <1>5. job' = [job EXCEPT ![w] = j]
    BY <1>1, <1>2 DEF PutLands, TypeOK, Fresh
  <1>6. /\ j \in JobType /\ j.at = "putting" /\ j.data = job[w].data /\ j.todo = job[w].todo \ {p}
        /\ j.found = found /\ j.previous = job[w].previous /\ j.own = job[w].own
    BY <1>2, <1>4 DEF JobType
  <1>7. found \subseteq job[w].found \cup {Fresh(w, p)}
    OBVIOUS
  <1>8. Trying(w, p) /\ Lands(w, p) /\ UNCHANGED <<Rest, recorded, opened, promised>>
    BY DEF PutLands
  <1> HIDE DEF j, found
  <1>9. QED
    BY <1>4, <1>5, <1>6, <1>7, <1>8, LandedStep

LEMMA PutRaisesStep ==
    ASSUME SnapshotInv, NEW w \in Program, NEW p \in Provider, PutRaises(w, p)
    PROVE  SnapshotInv'
  <1>1. TypeOK /\ UpInv /\ job[w].at = "putting"
    BY DEF SnapshotInv, PutRaises, Trying
  <1>2. job[w].data \in Data /\ job[w].found \in SUBSET Location
        /\ job[w] \in [at : {"putting"}, data : Data, todo : SUBSET Provider,
                       found : SUBSET Location, previous : SUBSET Location, own : BOOLEAN]
    BY <1>1, JobFacts
  <1> DEFINE j == [job[w] EXCEPT !.todo = job[w].todo \ {p}, !.found = job[w].found]
  <1>3. job' = [job EXCEPT ![w] = j]
    BY <1>1, <1>2 DEF PutRaises, TypeOK
  <1>4. /\ j \in JobType /\ j.at = "putting" /\ j.data = job[w].data /\ j.todo = job[w].todo \ {p}
        /\ j.found = job[w].found /\ j.previous = job[w].previous /\ j.own = job[w].own
    BY <1>2 DEF JobType
  <1>5. Trying(w, p) /\ UNCHANGED <<Rest, recorded, opened, promised>>
        /\ (Lands(w, p) \/ UNCHANGED <<remote, puts>>)
    BY DEF PutRaises
  <1> HIDE DEF j
  <1>6. CASE Lands(w, p)
    BY <1>2, <1>3, <1>4, <1>5, <1>6, LandedStep
  <1>7. CASE UNCHANGED <<remote, puts>>
    <2>1. j.todo \subseteq job[w].todo
      BY <1>4
    <2>2. /\ job' \in [Program -> JobType] /\ job'[w] = j
          /\ \A u \in Program : u # w => job'[u] = job[u]
      BY <1>1, <1>3, <1>4, OneMoves
    <2>3. UNCHANGED <<remote, puts, register, dirty, starts, recorded, opened, promised>>
      BY <1>5, <1>7 DEF Rest
    <2>4. TypeOK' /\ UpInv'
      <3>1. TypeOK'
        BY <1>1, <2>2, <2>3 DEF TypeOK
      <3>2. UpInv'
        BY <1>1, <1>4, <2>2, <2>3, PartsFacts DEF UpInv
      <3>3. QED
        BY <3>1, <3>2
    <2>5. ASSUME Usual
          PROVE  UsualInv'
      <3>1. UsualInv
        BY <2>5 DEF SnapshotInv
      <3>2. \A u \in Program : job'[u].at = job[u].at
        BY <1>1, <1>4, <2>1, <2>2
      <3>3. Apart'
        BY <2>3, <3>1, <3>2, PartsFacts DEF UsualInv, Apart, Busy
      <3>4. register' # NoRegister => Plain(register') /\ promised \subseteq register'.changes
        BY <2>3, <3>1 DEF UsualInv, Names, Held, Newer
      <3>5. ASSUME NEW u \in Program, job'[u].at = "putting"
            PROVE  (Begins(u) \/ GoesOn(u)) /\ (job'[u].own <=> opened' # Closed)
        <4>1. job[u].at = "putting" /\ job'[u].own = job[u].own
          BY <1>4, <2>1, <2>2, <3>2, <3>5
        <4>2. job'[u].own <=> opened' # Closed
          BY <2>3, <3>1, <4>1 DEF UsualInv, PuttingInv
        <4>3. GoesOn(u)
          BY <1>4, <2>1, <2>2, <2>3, <4>1 DEF GoesOn
        <4>4. QED
          BY <4>2, <4>3
      <3>6. \A u \in Program : job'[u].at = "pruning" => job[u].at = "pruning" /\ job'[u].locs \subseteq job[u].locs
        BY <1>4, <2>1, <2>2
      <3>7. job'[Cli].at = "restoring" => job'[Cli].locs \subseteq recorded
        BY <1>4, <2>1, <2>2, <3>1, PartsFacts DEF UsualInv, RestoringInv
      <3>8. QED
        BY <2>3, <2>4, <2>5, <3>3, <3>4, <3>5, <3>6, <3>7, Calm
    <2>6. QED
      BY <2>4, <2>5 DEF SnapshotInv, Usual
  <1>8. QED
    BY <1>5, <1>6, <1>7

\* What the vault records is what has just been put, and what it recorded before
\* is pruned: an object under a name is the same one, any other is older.
LEMMA RecordStep ==
    ASSUME SnapshotInv, NEW w \in Program, Record(w)
    PROVE  SnapshotInv'
  <1>1. TypeOK /\ UpInv /\ job[w].at = "putting"
    BY DEF SnapshotInv, Record, PutsDone
  <1>2. job[w].data \in Data /\ job[w].found \in SUBSET Location
        /\ job[w].previous \in SUBSET Location /\ job[w].own \in BOOLEAN
    BY <1>1, JobFacts
  <1> DEFINE locs == job[w].previous \ job[w].found
             d == job[w].data
  <1>3. locs \in SUBSET Location
    BY <1>2
  <1>4. Pruning(locs) \in JobType /\ Pruning(locs).at = "pruning" /\ Pruning(locs).locs = locs
    BY <1>3, PlaceFacts
  <1>5. job' = [job EXCEPT ![w] = Pruning(locs)]
    BY DEF Record, Become, Stale
  <1>6. recorded' = job[w].found /\ promised' = d.changes
        /\ UNCHANGED <<register, dirty, starts, remote, puts>>
        /\ opened' = IF job[w].own THEN job[w].found ELSE opened
    BY DEF Record, Rest
  <1> HIDE DEF locs
  <1>7. /\ job' \in [Program -> JobType] /\ job'[w] = Pruning(locs)
        /\ \A u \in Program : u # w => job'[u] = job[u]
    BY <1>1, <1>4, <1>5, OneMoves
  <1>8. opened' = Closed \/ opened' \in SUBSET Location
    BY <1>1, <1>2, <1>6 DEF TypeOK
  <1>9. TypeOK'
    BY <1>1, <1>2, <1>6, <1>7, <1>8, PartsFacts DEF TypeOK
  <1>10. UpInv'
    BY <1>1, <1>6, <1>7, PartsFacts DEF UpInv
  <1>11. ASSUME Usual
         PROVE  UsualInv'
    <2>1. UsualInv /\ PuttingInv(w)
      BY <1>11 DEF SnapshotInv, UsualInv
    <2>2. Plain(d) /\ job[w].previous = recorded
          /\ (register # NoRegister => d.changes \subseteq register.changes)
          /\ (job[w].own <=> opened # Closed)
      BY <1>1, <2>1 DEF PuttingInv
    <2>3. ASSUME NEW loc \in job[w].found
          PROVE  /\ ObjectAt(loc) = d /\ Named(loc) /\ loc \in Location
                 /\ loc.provider \in Provider /\ loc.ref \in Ref
                 /\ \A r \in Ref : r > loc.ref => remote[loc.provider][r] = NoObject
                 /\ \A old \in recorded :
                       old.provider = loc.provider /\ old.provider \in Duplicating => old.ref < loc.ref
      BY <1>1, <1>2, <2>1, <2>3, PartsFacts DEF PuttingInv
    <2>4. opened # Closed => opened' = recorded'
      BY <1>6, <2>2
    <2>5. opened = Closed => opened' = opened
      BY <1>6, <2>2
    <2>6. Apart'
      <3>1. CASE w = Daemon
        BY <1>1, <1>4, <1>7, <2>1, <2>4, <2>5, <3>1, PartsFacts DEF UsualInv, Apart, Busy
      <3>2. CASE w = Cli
        BY <1>1, <1>4, <1>7, <2>1, <2>4, <2>5, <3>2, PartsFacts DEF UsualInv, Apart, Busy
      <3>3. QED
        BY <3>1, <3>2, PartsFacts
    <2>7. \A u \in Program : u # w => job'[u].at \notin {"putting", "pruning", "restoring"}
      BY <1>1, <1>7, <2>1, PartsFacts DEF UsualInv, Apart, Busy
    <2>8. Names'
      BY <1>6, <2>1, <2>3 DEF UsualInv, Names, Named, Plain
    <2>9. Held'
      <3>1. register' # NoRegister => Newer(register)'
        BY <1>6, <2>2 DEF Newer
      <3>2. ASSUME NEW loc \in recorded'
            PROVE  /\ ObjectAt(loc)' # NoObject
                   /\ \A r \in Ref : r >= loc.ref /\ remote'[loc.provider][r] # NoObject
                          => Newer(remote[loc.provider][r])'
        <4>1. loc \in job[w].found
          BY <1>6
        <4>2. ObjectAt(loc)' = d /\ d # NoObject
          BY <1>2, <1>6, <2>3, <4>1, AbsenceAssumption DEF AbsenceAssumption, ObjectAt
        <4>3. ASSUME NEW r \in Ref, r >= loc.ref, remote'[loc.provider][r] # NoObject
              PROVE  promised' \subseteq remote'[loc.provider][r].changes
          <5>1. r = loc.ref
            BY <1>6, <2>3, <4>1, <4>3, PartsFacts
          <5>2. QED
            BY <1>6, <4>2, <5>1 DEF ObjectAt
        <4>4. QED
          BY <4>2, <4>3 DEF Newer
      <3>3. QED
        BY <3>1, <3>2 DEF Held
    <2>10. RestoringInv'
      BY <1>4, <1>7, <2>7, PartsFacts DEF RestoringInv
    <2>11. ASSUME NEW old \in locs, NEW loc \in recorded', old.provider = loc.provider
           PROVE  old.ref # loc.ref
      <3>1. old \in recorded /\ old \notin job[w].found /\ loc \in job[w].found
        BY <1>6, <2>2 DEF locs
      <3>2. old \in Location /\ loc \in Location /\ Named(old) /\ Named(loc)
        BY <1>1, <2>1, <2>3, <3>1 DEF UsualInv, Names, TypeOK
      <3>3. CASE old.provider \in Duplicating
        <4>1. old.ref < loc.ref /\ old.ref \in Nat /\ loc.ref \in Nat
          BY <2>3, <2>11, <3>1, <3>2, <3>3, PartsFacts
        <4>2. QED
          BY <4>1
      <3>4. CASE old.provider \notin Duplicating
        <4>1. old.limits = loc.limits /\ old.ref = loc.ref
          BY <2>11, <3>2, <3>4 DEF Named
        <4>2. old = loc
          BY <2>11, <3>2, <4>1 DEF Location
        <4>3. QED
          BY <3>1, <4>2
      <3>5. QED
        BY <3>3, <3>4
    <2>12. ASSUME NEW u \in Program
           PROVE  PuttingInv(u)' /\ PruningInv(u)'
      <3>1. CASE u = w
        BY <1>4, <1>7, <2>11, <3>1 DEF PuttingInv, PruningInv
      <3>2. CASE u # w
        BY <2>7, <3>2 DEF PuttingInv, PruningInv
      <3>3. QED
        BY <3>1, <3>2
    <2>13. QED
      BY <2>6, <2>8, <2>9, <2>10, <2>12 DEF UsualInv
  <1>12. QED
    BY <1>9, <1>10, <1>11 DEF SnapshotInv, Usual

\* What is pruned is not what the vault records.
LEMMA PruneStep ==
    ASSUME SnapshotInv, NEW w \in Program, NEW loc \in Location, Prune(w, loc)
    PROVE  SnapshotInv'
  <1>1. TypeOK /\ UpInv /\ job[w].at = "pruning" /\ loc \in job[w].locs
    BY DEF SnapshotInv, Prune
  <1>2. job[w] \in [at : {"pruning", "restoring"}, locs : SUBSET Location]
        /\ job[w].locs \in SUBSET Location
    BY <1>1, JobFacts
  <1> DEFINE rest == job[w].locs \ {loc}
  <1>3. rest \in SUBSET Location /\ rest \subseteq job[w].locs
    BY <1>2
  <1>4. job' = [job EXCEPT ![w] = [job[w] EXCEPT !.locs = rest]]
    BY <1>1 DEF Prune, TypeOK
  <1>5. [job[w] EXCEPT !.locs = rest] = Pruning(rest)
    BY <1>1, <1>2 DEF Pruning
  <1>6. Pruning(rest) \in JobType /\ Pruning(rest).at = "pruning" /\ Pruning(rest).locs = rest
    BY <1>3, PlaceFacts
  <1> HIDE DEF rest
  <1>7. /\ job' \in [Program -> JobType] /\ job'[w] = Pruning(rest)
        /\ \A u \in Program : u # w => job'[u] = job[u]
    BY <1>1, <1>4, <1>5, <1>6, OneMoves
  <1>8. loc.provider \in Provider /\ loc.ref \in Ref
    BY PartsFacts
  <1>9. /\ remote' \in [Provider -> [Ref -> Data \cup {NoObject}]]
        /\ \A p \in Provider, r \in Ref : remote'[p][r] \in {remote[p][r], NoObject}
        /\ \A p \in Provider, r \in Ref :
              p # loc.provider \/ r # loc.ref => remote'[p][r] = remote[p][r]
    <2>1. CASE UNCHANGED remote
      BY <1>1, <2>1 DEF TypeOK
    <2>2. CASE remote' = [remote EXCEPT ![loc.provider][loc.ref] = NoObject]
      <3> DEFINE c == [remote[loc.provider] EXCEPT ![loc.ref] = NoObject]
      <3>1. remote[loc.provider] \in [Ref -> Data \cup {NoObject}]
        BY <1>1, <1>8 DEF TypeOK
      <3>2. c \in [Ref -> Data \cup {NoObject}] /\ c[loc.ref] = NoObject
            /\ \A r \in Ref : r # loc.ref => c[r] = remote[loc.provider][r]
        BY <1>8, <3>1
      <3>3. remote' = [remote EXCEPT ![loc.provider] = c]
        BY <1>1, <2>2 DEF TypeOK
      <3> HIDE DEF c
      <3>4. /\ remote' \in [Provider -> [Ref -> Data \cup {NoObject}]] /\ remote'[loc.provider] = c
            /\ \A p \in Provider : p # loc.provider => remote'[p] = remote[p]
        BY <1>1, <1>8, <3>2, <3>3 DEF TypeOK
      <3>5. QED
        BY <3>2, <3>4
    <2>3. QED
      BY <2>1, <2>2 DEF Prune
  <1>10. UNCHANGED <<register, dirty, starts, recorded, opened, puts, promised>>
    BY DEF Prune, Rest
  <1>11. TypeOK'
    BY <1>1, <1>7, <1>9, <1>10 DEF TypeOK
  <1>12. UpInv'
    BY <1>1, <1>7, <1>10, PartsFacts DEF UpInv
  <1>13. ASSUME Usual
         PROVE  UsualInv'
    <2>1. UsualInv /\ PruningInv(w)
      BY <1>13 DEF SnapshotInv, UsualInv
    <2>2. \A u \in Program : job'[u].at = job[u].at
      BY <1>1, <1>6, <1>7
    <2>3. Apart'
      BY <1>10, <2>1, <2>2, PartsFacts DEF UsualInv, Apart, Busy
    <2>4. \A u \in Program : u # w => job'[u].at \notin {"putting", "pruning", "restoring"}
      BY <1>1, <1>7, <2>1, PartsFacts DEF UsualInv, Apart, Busy
    <2>5. Names'
      BY <1>9, <1>10, <2>1 DEF UsualInv, Names, Named, Plain
    <2>6. Held'
      <3>1. register' # NoRegister => Newer(register)'
        BY <1>10, <2>1 DEF UsualInv, Held, Newer
      <3>2. ASSUME NEW known \in recorded'
            PROVE  /\ ObjectAt(known)' # NoObject
                   /\ \A r \in Ref : r >= known.ref /\ remote'[known.provider][r] # NoObject
                          => Newer(remote[known.provider][r])'
        <4>1. known \in recorded /\ known.provider \in Provider /\ known.ref \in Ref
          BY <1>1, <1>10, PartsFacts DEF TypeOK
        <4>2. known.provider # loc.provider \/ known.ref # loc.ref
          BY <1>1, <2>1, <4>1 DEF PruningInv
        <4>3. ObjectAt(known)' = ObjectAt(known)
          BY <1>9, <4>1, <4>2 DEF ObjectAt
        <4>4. QED
          BY <1>9, <1>10, <2>1, <4>1, <4>3 DEF UsualInv, Held, Newer
      <3>3. QED
        BY <3>1, <3>2 DEF Held
    <2>7. RestoringInv'
      BY <1>1, <1>6, <1>7, <2>4, PartsFacts DEF RestoringInv
    <2>8. ASSUME NEW u \in Program
          PROVE  PuttingInv(u)' /\ PruningInv(u)'
      <3>1. CASE u = w
        <4>1. job'[u].at = "pruning" /\ job'[u].locs \subseteq job[u].locs
          BY <1>3, <1>6, <1>7, <3>1
        <4>2. QED
          BY <1>1, <1>10, <2>1, <3>1, <4>1 DEF PuttingInv, PruningInv
      <3>2. CASE u # w
        BY <2>4, <3>2 DEF PuttingInv, PruningInv
      <3>3. QED
        BY <3>1, <3>2
    <2>9. QED
      BY <2>3, <2>5, <2>6, <2>7, <2>8 DEF UsualInv
  <1>14. QED
    BY <1>11, <1>12, <1>13 DEF SnapshotInv, Usual

----------------------------------------------------------------------------
(* The invariant.                                                          *)

LEMMA SnapshotInit == Init => SnapshotInv
  <1> SUFFICES ASSUME Init
               PROVE  SnapshotInv
    OBVIOUS
  <1>1. MaxPuts \in Nat /\ MaxStarts \in Nat
    BY SnapshotAssumption DEF SnapshotAssumption
  <1>2. register \in Data /\ register.changes = {}
        /\ \A p \in Provider : register.limits[p] = 0
    BY DEF Init, Data, Limits
  <1>3. \A w \in Program : job[w] = At(IF w = Daemon THEN "down" ELSE "idle")
    BY DEF Init
  <1>4. /\ job[Daemon] = At("down") /\ job[Cli] = At("idle")
        /\ job[Daemon].at = "down" /\ job[Cli].at = "idle"
        /\ At("down") \in JobType /\ At("idle") \in JobType
    BY <1>3, PartsFacts, PlaceFacts
  <1>5. job \in [Program -> JobType]
    BY <1>4, PartsFacts DEF Init
  <1>6. remote \in [Provider -> [Ref -> Data \cup {NoObject}]]
        /\ \A p \in Provider, r \in Ref : remote[p][r] = NoObject
    BY DEF Init
  <1>7. TypeOK
    <2>1. puts \in 0..MaxPuts /\ starts \in 0..MaxStarts
      BY <1>1 DEF Init
    <2>2. dirty \in BOOLEAN /\ recorded \in SUBSET Location /\ opened = Closed /\ promised \in SUBSET Change
      BY DEF Init
    <2>3. QED
      BY <1>2, <1>5, <1>6, <2>1, <2>2 DEF TypeOK
  <1>8. UpInv
    BY <1>4 DEF UpInv
  <1>9. Apart
    BY <1>4 DEF Apart, Busy, Init
  <1>10. Names
    BY <1>2, <1>6 DEF Names, Plain, Init
  <1>11. Held
    BY <1>2 DEF Held, Newer, Init
  <1>12. \A w \in Program : job[w].at \notin {"putting", "pruning", "restoring"}
    BY <1>4, PartsFacts
  <1>13. RestoringInv /\ \A w \in Program : PuttingInv(w) /\ PruningInv(w)
    BY <1>12, PartsFacts DEF RestoringInv, PuttingInv, PruningInv
  <1>14. QED
    BY <1>7, <1>8, <1>9, <1>10, <1>11, <1>13 DEF SnapshotInv, UsualInv

LEMMA SnapshotNext == SnapshotInv /\ [Next]_vars => SnapshotInv'
  <1> SUFFICES ASSUME SnapshotInv, [Next]_vars
               PROVE  SnapshotInv'
    OBVIOUS
  <1>1. TypeOK
    BY DEF SnapshotInv
  <1>2. CASE UNCHANGED vars
    BY <1>2 DEF vars, SnapshotInv, TypeOK, UpInv, Usual, UsualInv, Apart, Busy, Names, Plain, Named,
                Held, Newer, ObjectAt, RestoringInv, PuttingInv, PruningInv
  <1>3. CASE \E w \in Program : Mutate(w)
    BY <1>3, MutateStep
  <1>4. CASE \E w \in Program : SnapshotStep(w)
    <2>1. PICK w \in Program : SnapshotStep(w)
      BY <1>4
    <2>2. CASE Record(w)
      BY <2>2, RecordStep
    <2>3. CASE SnapshotFails(w) \/ EndSnapshot(w)
      BY <2>3, OverStep
    <2>4. CASE \E p \in Provider : PutLands(w, p) \/ PutRaises(w, p)
      BY <2>4, PutLandsStep, PutRaisesStep
    <2>5. CASE job[w].at = "pruning" /\ \E loc \in job[w].locs : Prune(w, loc)
      <3>1. job[w].locs \in SUBSET Location
        BY <1>1, <2>5, JobFacts
      <3>2. QED
        BY <2>5, <3>1, PruneStep
    <2>6. QED
      BY <2>1, <2>2, <2>3, <2>4, <2>5 DEF SnapshotStep
  <1>5. CASE \E p \in Provider : Adjust(p)
    BY <1>5, AdjustStep
  <1>6. CASE Start \/ Stop \/ Unlock \/ Lock \/ LoseRegister
    BY <1>6, StartStep, StopStep, UnlockStep, LockStep, LoseStep
  <1>7. CASE CliSnapshot \/ Wake \/ Settle
    BY <1>7, CliSnapshotStep, WakeStep, SettleStep
  <1>8. CASE Restore
    <2>1. CASE StartRestore \/ RestoreFails
      BY <2>1, StartRestoreStep, RestoreFailsStep
    <2>2. CASE job[Cli].at = "restoring" /\ \E loc \in job[Cli].locs : RestoreFrom(loc) \/ RestoreMisses(loc)
      <3>1. job[Cli].locs \in SUBSET Location
        BY <1>1, <2>2, JobFacts, PartsFacts
      <3>2. QED
        BY <2>2, <3>1, RestoreFromStep, RestoreMissesStep
    <2>3. QED
      BY <1>8, <2>1, <2>2 DEF Restore
  <1>9. QED
    BY <1>2, <1>3, <1>4, <1>5, <1>6, <1>7, <1>8 DEF Next

LEMMA SnapshotInvHolds == Spec => []SnapshotInv
  <1>1. Init => SnapshotInv
    BY SnapshotInit
  <1>2. SnapshotInv /\ [Next]_vars => SnapshotInv'
    BY SnapshotNext
  <1>3. QED
    BY <1>1, <1>2, PTL DEF Spec

----------------------------------------------------------------------------
(* What it is for.                                                         *)

\* What is there at a location, and what the newest there is, are as promised.
LEMMA RecordedIsHeld == SnapshotInv /\ Usual => RecordedHolds
  <1> SUFFICES ASSUME SnapshotInv, Usual, NEW loc \in recorded
               PROVE  HoldsPromise(ObjectAt(loc)) /\ HoldsPromise(Found(loc.provider))
    BY DEF RecordedHolds
  <1> DEFINE p == loc.provider
             T == There(p)
             g == CHOOSE r \in T : \A q \in T : q <= r
  <1>1. TypeOK /\ Held
    BY DEF SnapshotInv, UsualInv
  <1>2. p \in Provider /\ loc.ref \in Ref /\ MaxPuts \in Nat
    BY <1>1, PartsFacts DEF TypeOK
  <1>3. loc.ref \in T
    BY <1>1, <1>2 DEF Held, ObjectAt, There
  <1>4. T \in SUBSET (0..MaxPuts) /\ T # {}
    BY <1>3 DEF There, Ref, Name
  <1>5. \E m \in T : \A q \in T : q <= m
    <2> HIDE DEF T
    <2>1. QED
      BY <1>2, <1>4, Greatest
  <1>6. g \in T /\ \A q \in T : q <= g
    <2> HIDE DEF T
    <2>1. QED
      BY <1>5
  <1>7. g \in Ref /\ remote[p][g] # NoObject /\ loc.ref <= g
    BY <1>3, <1>6 DEF There
  <1>8. g >= loc.ref
    BY <1>2, <1>7, PartsFacts
  <1>9. Found(p) = remote[p][g]
    BY <1>3 DEF Found
  <1> HIDE DEF g, T
  <1>10. HoldsPromise(Found(p))
    BY <1>1, <1>7, <1>8, <1>9 DEF Held, Newer, HoldsPromise
  <1>11. HoldsPromise(ObjectAt(loc))
    <2>1. loc.ref >= loc.ref
      BY <1>2, PartsFacts
    <2>2. QED
      BY <1>1, <1>2, <2>1 DEF Held, Newer, HoldsPromise, ObjectAt
  <1>12. QED
    BY <1>10, <1>11

\* Every variable keeps its type, whoever opens a second copy of the vault and
\* whatever limits are changed.
THEOREM SnapshotTypeCorrect == Spec => []TypeOK
  BY SnapshotInvHolds, PTL DEF SnapshotInv

\* What vault.json records is at its provider, at least as new as the snapshot
\* recorded last, and so is the newest object there, whatever fails or stops
\* between the puts, the record and the pruning: when no second copy of the
\* vault is opened beside the first, and no provider that names its objects has
\* its limits changed (the locations carry them, and would look stale).
THEOREM RecordedSnapshotHolds ==
    ASSUME OneVault, Adjustable \subseteq Duplicating
    PROVE  Spec => []RecordedHolds
  <1>1. Usual
    BY DEF Usual
  <1>2. SnapshotInv => RecordedHolds
    BY <1>1, RecordedIsHeld
  <1>3. QED
    BY <1>2, SnapshotInvHolds, PTL

===================================================================================
