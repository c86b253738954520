----------------------------- MODULE ArchiveProofs -----------------------------
(***************************************************************************)
(* Proofs about Archive, and about the placement engine beneath it.        *)
(*                                                                         *)
(* The inductive invariant says that ids are given out once and that every *)
(* file, stored or on its way, has the groups that its policy asks for.    *)
(* Of the tree it gives what moves and removals may do to a file; of the   *)
(* placement it leaves the pure question of what Groups can be, answered   *)
(* by induction over the groups dealt.                                     *)
(***************************************************************************)
EXTENDS Archive, SequenceTheorems, FiniteSetTheorems, FunctionTheorems, WellFoundedInduction, TLAPS

----------------------------------------------------------------------------
(* Numbers.                                                                *)

\* Induction over the numbers, as a fact about sets.
LEMMA NatsByInduction ==
    ASSUME NEW S \in SUBSET Nat, 0 \in S, \A n \in S : n + 1 \in S
    PROVE  S = Nat
  <1>1. SUFFICES ASSUME Nat \ S # {}
                 PROVE  FALSE
    OBVIOUS
  <1> DEFINE R == OpToRel(<, Nat)
             T == Nat \ S
  <1>2. PICK x \in T : \A y \in T : <<y, x>> \notin R
    <2>1. IsWellFoundedOn(R, Nat)
      BY NatLessThanWellFounded
    <2>2. T \subseteq Nat /\ T # {}
      BY <1>1
    <2> HIDE DEF R, T
    <2>3. QED
      BY <2>1, <2>2, WFMin
  <1>3. \A y \in T : ~ (y < x)
    BY <1>2 DEF OpToRel
  <1>4. x \in Nat /\ x # 0
    OBVIOUS
  <1>5. x - 1 \in Nat /\ x - 1 < x
    BY <1>4
  <1>6. x - 1 \in S
    BY <1>3, <1>5
  <1>7. QED
    BY <1>4, <1>6

\* A bounded set of numbers has a greatest.
LEMMA Greatest ==
    ASSUME NEW N \in Nat, NEW S \in SUBSET (0..N), S # {}
    PROVE  \E m \in S : \A q \in S : q <= m
  <1> DEFINE G == {n \in Nat : (\E q \in S : n <= q) \/ \E m \in S : \A q \in S : q <= m}
  <1>1. SUFFICES ASSUME ~ \E m \in S : \A q \in S : q <= m
                 PROVE  FALSE
    OBVIOUS
  <1>2. 0 \in G
    <2>1. PICK q \in S : TRUE
      OBVIOUS
    <2>2. 0 <= q
      OBVIOUS
    <2>3. QED
      BY <2>2
  <1>3. ASSUME NEW n \in G
        PROVE  n + 1 \in G
    <2>1. PICK q \in S : n <= q
      BY <1>1, <1>3
    <2>2. PICK r \in S : ~ (r <= q)
      BY <1>1
    <2>3. n + 1 <= r /\ n + 1 \in Nat
      BY <2>1, <2>2
    <2>4. QED
      BY <2>3
  <1>4. G = Nat
    <2>1. G \in SUBSET Nat
      OBVIOUS
    <2> HIDE DEF G
    <2>2. QED
      BY <1>2, <1>3, <2>1, NatsByInduction
  <1>5. N + 1 \in G
    <2> HIDE DEF G
    <2>1. QED
      BY <1>4
  <1>6. QED
    BY <1>1, <1>5

----------------------------------------------------------------------------
(* Policies.                                                               *)

Given == {fp[2] : fp \in FolderPolicy}

LEMMA PolicyFacts ==
    /\ \A policy \in Policy : Full(Sparse(policy)) = policy
    /\ Given \subseteq Policy
    /\ \A options \in Override, base \in {Default} \cup Given : Over(options, base) \in Asked
    /\ Asked \subseteq Policy
  <1>1. ASSUME NEW policy \in Policy
        PROVE  Full(Sparse(policy)) = policy
    <2> DEFINE F == {"replicas", "tiers", "pinned", "excluded", "minSpread", "mode", "cap",
                     "scheme", "k", "n"}
               G == {g \in F : policy[g] # Default[g]}
    <2>1. policy = [f \in F |-> policy[f]]
      BY DEF Policy
    <2>2. DOMAIN Default = F
      BY DEF Default
    <2>3. Sparse(policy) = [f \in G |-> policy[f]]
      BY <2>2 DEF Sparse
    <2>4. DOMAIN Sparse(policy) = G /\ \A f \in G : Sparse(policy)[f] = policy[f]
      BY <2>3
    <2>5. Full(Sparse(policy)) = [f \in F |-> IF f \in G THEN Sparse(policy)[f] ELSE Default[f]]
      BY <2>2, <2>4 DEF Full, Over
    <2>6. \A f \in F : (IF f \in G THEN Sparse(policy)[f] ELSE Default[f]) = policy[f]
      BY <2>4
    <2> HIDE DEF F, G
    <2>7. QED
      BY <2>1, <2>5, <2>6
  <1>2. ASSUME NEW fp \in FolderPolicy
        PROVE  fp[2] \in Policy
    BY ArchiveAssumption DEF ArchiveAssumption
  <1>3. ASSUME NEW options \in Override, NEW base \in {Default} \cup Given
        PROVE  Over(options, base) \in Asked
    BY DEF Asked, Given
  <1>4. QED
    BY <1>1, <1>2, <1>3, ArchiveAssumption DEF ArchiveAssumption, Given

LEMMA PlanFacts ==
    ASSUME NEW f \in Fleet, NEW policy \in Asked
    PROVE  Plan[f][policy] = Groups(f, policy, 1) /\ Plan[f][policy] \in Placing
  BY DEF Plan, Placing

----------------------------------------------------------------------------
(* Paths.                                                                  *)

\* A path is a sequence of names, and the root is none.
LEMMA PathFacts ==
    /\ \A path \in Path : path \in Seq(Name) /\ Len(path) \in 1..MaxDepth
    /\ \A path \in Seq(Name) : Len(path) \in 1..MaxDepth => path \in Path
    /\ Root \in Seq(Name) /\ Len(Root) = 0 /\ Root \notin Path
    /\ \A folder \in Folder : folder \in Seq(Name) /\ Len(folder) \in 0..MaxDepth
    /\ MaxDepth \in Nat
  <1>1. MaxDepth \in Nat
    BY ArchiveAssumption DEF ArchiveAssumption
  <1>2. \A path \in Path : path \in Seq(Name) /\ Len(path) \in 1..MaxDepth
    <2>1. SUFFICES ASSUME NEW d \in 1..MaxDepth, NEW path \in [1..d -> Name]
                   PROVE  path \in Seq(Name) /\ Len(path) = d
      BY <1>1 DEF Path
    <2>2. QED
      BY <1>1
  <1>3. \A path \in Seq(Name) : Len(path) \in 1..MaxDepth => path \in Path
    BY LenProperties DEF Path
  <1>4. Root \in Seq(Name) /\ Len(Root) = 0
    BY DEF Root
  <1>5. Root \notin Path
    <2>1. SUFFICES ASSUME Root \in Path
                   PROVE  FALSE
      OBVIOUS
    <2>2. Len(Root) \in 1..MaxDepth
      BY <1>2, <2>1
    <2>3. QED
      BY <1>1, <1>4, <2>2
  <1>6. \A folder \in Folder : folder \in Seq(Name) /\ Len(folder) \in 0..MaxDepth
    <2>1. Root \in Seq(Name) /\ Len(Root) \in 0..MaxDepth
      BY <1>1, <1>4
    <2>2. \A path \in Path : path \in Seq(Name) /\ Len(path) \in 0..MaxDepth
      BY <1>1, <1>2
    <2>3. QED
      BY <2>1, <2>2 DEF Folder
  <1>7. QED
    BY <1>1, <1>2, <1>3, <1>4, <1>5, <1>6

\* A path that is renamed comes back when it is renamed the other way.
LEMMA RenamedBack ==
    ASSUME NEW src \in Path, NEW target \in Path, NEW path \in Path, IsUnder(src, path)
    PROVE  Renamed(Renamed(path, src, target), target, src) = path
  <1> DEFINE m == Len(src)
             n == Len(path)
             t == Len(target)
             rest == SubSeq(path, m + 1, n)
  <1>1. /\ src \in Seq(Name) /\ target \in Seq(Name) /\ path \in Seq(Name)
        /\ m \in Nat /\ n \in Nat /\ t \in Nat /\ 1 <= m /\ m < n /\ 1 <= t
        /\ SubSeq(path, 1, m) = src
    BY PathFacts DEF IsUnder
  <1>2. rest \in Seq(Name) /\ Len(rest) = n - m
    <2>1. \A i \in m + 1..n : path[i] \in Name
      BY <1>1, ElementOfSeq
    <2>2. QED
      BY <1>1, <2>1, SubSeqProperties
  <1>3. /\ target \o rest \in Seq(Name) /\ Len(target \o rest) = t + (n - m)
    BY <1>1, <1>2, ConcatProperties
  <1>4. SubSeq(target \o rest, t + 1, t + (n - m)) = SubSeq(rest, 1, n - m)
    <2>1. /\ t + 1 \in Len(target) + 1..Len(target) + Len(rest)
          /\ t + (n - m) \in Len(target) + 1..Len(target) + Len(rest)
      BY <1>1, <1>2
    <2>2. SubSeq(target \o rest, t + 1, t + (n - m))
              = SubSeq(rest, t + 1 - Len(target), t + (n - m) - Len(target))
      <3> HIDE DEF rest
      <3>1. QED
        BY <1>1, <1>2, <2>1, SubSeqOfConcat2
    <2>3. t + 1 - t = 1 /\ t + (n - m) - t = n - m
      BY <1>1
    <2>4. QED
      BY <2>2, <2>3
  <1>5. SubSeq(rest, 1, n - m) = rest
    BY <1>2, SubSeqFull
  <1>6. src \o rest = path
    <2>1. SubSeq(path, 1, m) \o SubSeq(path, m + 1, n) = SubSeq(path, 1, n)
      <3>1. 1 \in 1..Len(path) + 1 /\ m \in 1 - 1..Len(path) /\ n \in m..Len(path)
        BY <1>1
      <3>2. QED
        BY <1>1, <3>1, ConcatAdjacentSubSeq
    <2>2. SubSeq(path, 1, n) = path
      BY <1>1, SubSeqFull
    <2>3. QED
      BY <1>1, <2>1, <2>2
  <1>7. QED
    BY <1>3, <1>4, <1>5, <1>6 DEF Renamed

----------------------------------------------------------------------------
(* Types.                                                                  *)

\* The policy of an upload is one that can be asked for.
LEMMA ResolvedFacts ==
    ASSUME TypeOK, NEW path \in Path, NEW options \in Override
    PROVE  Over(options, ResolvePolicy(path)) \in Asked
  <1> DEFINE governing == {f \in Folder : policies[f] # NoPolicy /\ Governs(f, path)}
  <1>1. FolderPolicyFor(path) = NoPolicy \/ \E fp \in FolderPolicy : FolderPolicyFor(path) = Sparse(fp[2])
    <2>1. CASE governing = {}
      BY <2>1 DEF FolderPolicyFor
    <2>2. CASE governing # {}
      <3> DEFINE S == {Len(f) : f \in governing}
                 Deepest(f) == \A g \in governing : Len(f) >= Len(g)
      <3>1. S \in SUBSET (0..MaxDepth) /\ S # {} /\ MaxDepth \in Nat
        BY <2>2, PathFacts
      <3>2. PICK m \in S : \A q \in S : q <= m
        <4> HIDE DEF S
        <4>1. QED
          BY <3>1, Greatest
      <3>3. \E f \in governing : Deepest(f)
        BY <3>1, <3>2
      <3>4. PICK f \in governing : FolderPolicyFor(path) = policies[f]
        <4> DEFINE f == CHOOSE f \in governing : Deepest(f)
        <4>1. FolderPolicyFor(path) = policies[f]
          BY <2>2 DEF FolderPolicyFor
        <4>2. f \in governing
          <5> HIDE DEF governing, Deepest
          <5>1. QED
            BY <3>3
        <4>3. QED
          BY <4>1, <4>2
      <3>5. f \in Folder /\ policies[f] # NoPolicy
        OBVIOUS
      <3>6. QED
        BY <3>4, <3>5 DEF TypeOK
    <2>3. QED
      BY <2>1, <2>2
  <1>2. ResolvePolicy(path) \in {Default} \cup Given
    <2>1. CASE FolderPolicyFor(path) = NoPolicy
      BY <2>1 DEF ResolvePolicy
    <2>2. CASE FolderPolicyFor(path) # NoPolicy
      <3>1. PICK fp \in FolderPolicy : FolderPolicyFor(path) = Sparse(fp[2])
        BY <1>1, <2>2
      <3>2. fp[2] \in Given
        BY DEF Given
      <3>3. ResolvePolicy(path) = fp[2]
        BY <2>2, <3>1, <3>2, PolicyFacts DEF ResolvePolicy
      <3>4. QED
        BY <3>2, <3>3
    <2>3. QED
      BY <2>1, <2>2
  <1>3. QED
    BY <1>2, PolicyFacts

\* The next id is one that no file has.
LEMMA NextIdFacts ==
    ASSUME TypeOK
    PROVE  NextId \in Nat \ {0} /\ NextId \notin Ids
  <1>1. Ids \in SUBSET (0..MaxFiles) /\ MaxFiles \in Nat
    <2>1. ASSUME NEW path \in Present
          PROVE  IdOf(path) \in 1..MaxFiles
      <3>1. tree[path] \in File
        BY DEF Present, TypeOK
      <3>2. QED
        BY <3>1 DEF File, IdOf
    <2>2. QED
      BY <2>1, ArchiveAssumption DEF Ids, ArchiveAssumption
  <1>2. CASE Ids = {}
    BY <1>2 DEF NextId
  <1>3. CASE Ids # {}
    <2>1. \E i \in Ids : \A j \in Ids : i >= j
      <3>1. PICK m \in Ids : \A q \in Ids : q <= m
        BY <1>1, <1>3, Greatest
      <3>2. QED
        BY <1>1, <3>1
    <2>2. PICK i \in Ids : NextId = 1 + i /\ \A j \in Ids : i >= j
      <3> DEFINE i == CHOOSE i \in Ids : \A j \in Ids : i >= j
      <3>1. i \in Ids /\ \A j \in Ids : i >= j
        BY <2>1
      <3>2. NextId = 1 + i
        BY <1>3 DEF NextId
      <3>3. QED
        BY <3>1, <3>2
    <2>3. i \in 0..MaxFiles
      BY <1>1
    <2>4. ~ (i >= NextId)
      BY <1>1, <2>2, <2>3
    <2>5. QED
      BY <1>1, <2>2, <2>3, <2>4
  <1>4. QED
    BY <1>2, <1>3

\* No two files have one id, and each is placed as its policy asks for.
IdsApart == \A p, q \in Present : IdOf(p) = IdOf(q) => p = q
Planned(r) == r.groups = Plan[fleet][r.policy] /\ r.groups # Failed
ArchiveInv ==
    /\ TypeOK /\ IdsApart
    /\ \A path \in Present : Planned(tree[path])
    /\ \A a \in DOMAIN op : op[a].at = "put" => Planned(op[a])

\* What an operation is.
LEMMA OperationFacts ==
    ASSUME TypeOK, NEW a \in Putter \cup Mover
    PROVE  /\ op[a] \in Operation
           /\ op[a].at = "put" => op[a] \in [at : {"put"}, path : Path, policy : Asked, groups : Placing]
           /\ op[a].at = "remove" => op[a] \in [at : {"remove"}, id : 1..MaxFiles]
           /\ op[a].at = "move file" => op[a] \in [at : {"move file"}, id : 1..MaxFiles, target : Path]
           /\ op[a].at = "move tree" => op[a] \in [at : {"move tree"}, src : Path, target : Path]
           /\ op[a] = Idle => op[a].at = "idle"
  <1>1. op[a] \in Operation
    BY DEF TypeOK
  <1>2. Idle.at = "idle"
    BY DEF Idle
  <1>3. QED
    BY <1>1, <1>2 DEF Operation

\* A step of one actor.
LEMMA OpSteps ==
    ASSUME TypeOK, NEW a \in Putter \cup Mover, NEW o \in Operation, op' = [op EXCEPT ![a] = o]
    PROVE  /\ op' \in [Putter \cup Mover -> Operation]
           /\ op'[a] = o
           /\ \A b \in Putter \cup Mover : b # a => op'[b] = op[b]
  BY DEF TypeOK

LEMMA EndSteps ==
    ASSUME TypeOK, NEW a \in Putter \cup Mover, Ends(a)
    PROVE  /\ op' \in [Putter \cup Mover -> Operation]
           /\ op'[a] = Idle
           /\ \A b \in Putter \cup Mover : b # a => op'[b] = op[b]
  BY DEF TypeOK, Ends, Operation

\* What a move of a file does, if it does anything.
LEMMA MoveFileFacts ==
    ASSUME TypeOK, NEW a \in Mover, MoveFile(a), tree' # tree
    PROVE  \E p \in Present, q \in Path \ Present :
              tree' = [path \in Path |-> IF path = p THEN NoFile
                                         ELSE IF path = q THEN tree[p] ELSE tree[path]]
  <1>1. op[a].at = "move file" /\ op[a].target \in Path
    BY OperationFacts DEF MoveFile
  <1>2. op[a].id \in Ids /\ tree[op[a].target] = NoFile
    BY DEF MoveFile
  <1>3. \E path \in Present : IdOf(path) = op[a].id
    BY <1>2 DEF Ids
  <1>4. PathOf(op[a].id) \in Present
    BY <1>3 DEF PathOf
  <1> DEFINE p == PathOf(op[a].id)
             q == op[a].target
  <1>5. tree' = [tree EXCEPT ![q] = tree[p], ![p] = NoFile]
    BY <1>2 DEF MoveFile
  <1>6. q \in Path \ Present /\ p \in Present
    BY <1>1, <1>2, <1>4 DEF Present
  <1>7. tree' = [path \in Path |-> IF path = p THEN NoFile ELSE IF path = q THEN tree[p] ELSE tree[path]]
    <2>1. tree \in [Path -> File \cup {NoFile}]
      BY DEF TypeOK
    <2>2. p \in Path /\ q \in Path
      BY <1>6 DEF Present
    <2> HIDE DEF p, q
    <2>3. QED
      BY <1>5, <2>1, <2>2
  <1>8. QED
    BY <1>6, <1>7

\* What a move of a directory does, if it does anything.
LEMMA MoveTreeFacts ==
    ASSUME TypeOK, NEW a \in Mover, MoveTree(a), tree' # tree
    PROVE  LET src == op[a].src  target == op[a].target IN
           /\ src \in Path /\ target \in Path
           /\ \A path \in Under(src) :
                 Renamed(path, src, target) \in Path
                 /\ tree'[Renamed(path, src, target)] = tree[path]
           /\ \A path \in Present \ Under(src) : tree'[path] = tree[path]
           /\ tree' \in [Path -> File \cup {NoFile}]
           /\ \A path \in Present' :
                 \/ \E q \in Under(src) : path = Renamed(q, src, target)
                 \/ path \in Present \ Under(src) /\ tree'[path] = tree[path]
  <1> DEFINE src == op[a].src
             target == op[a].target
             below == Under(src)
             new == {Renamed(path, src, target) : path \in below}
  <1>1. src \in Path /\ target \in Path
    BY OperationFacts DEF MoveTree
  <1>2. /\ new \subseteq Path /\ new \cap Present \subseteq below
        /\ tree' = [path \in Path |-> IF path \in new THEN tree[Renamed(path, target, src)]
                                     ELSE IF path \in below THEN NoFile ELSE tree[path]]
    BY DEF MoveTree
  <1>3. ASSUME NEW path \in below
        PROVE  /\ path \in Present
               /\ Renamed(path, src, target) \in new
               /\ Renamed(path, src, target) \in Path
               /\ tree'[Renamed(path, src, target)] = tree[path]
    <2>1. path \in Path /\ IsUnder(src, path) /\ path \in Present
      BY DEF Under, Present
    <2>2. Renamed(Renamed(path, src, target), target, src) = path
      BY <1>1, <2>1, RenamedBack
    <2>3. Renamed(path, src, target) \in new
      OBVIOUS
    <2> HIDE DEF new, below
    <2>4. QED
      BY <1>2, <2>1, <2>2, <2>3
  <1>4. ASSUME NEW path \in Present \ below
        PROVE  tree'[path] = tree[path]
    <2>1. path \in Path /\ path \notin new
      BY <1>2 DEF Present
    <2> HIDE DEF new, below
    <2>2. QED
      BY <1>2, <2>1
  <1>5. tree \in [Path -> File \cup {NoFile}]
    BY DEF TypeOK
  <1>6. \A path \in Path : tree'[path] \in File \cup {NoFile}
    <2>1. \A path \in new : \E q \in below : path = Renamed(q, src, target)
      OBVIOUS
    <2>2. \A q \in below : tree[q] \in File \cup {NoFile}
      BY <1>3, <1>5 DEF Present
    <2>3. \A path \in new : tree'[path] \in File \cup {NoFile}
      BY <1>3, <2>1, <2>2
    <2> HIDE DEF new, below
    <2>4. QED
      BY <1>2, <1>5, <2>3
  <1>7. tree' \in [Path -> File \cup {NoFile}]
    <2> HIDE DEF new, below
    <2>1. QED
      BY <1>2, <1>6
  <1>8. ASSUME NEW path \in Present', path \notin new
        PROVE  path \in Present \ below
    <2>1. path \in Path /\ tree'[path] # NoFile
      BY DEF Present
    <2> HIDE DEF new, below
    <2>2. path \notin below /\ tree[path] # NoFile
      BY <1>2, <1>8, <2>1
    <2>3. QED
      BY <2>1, <2>2 DEF Present
  <1>9. QED
    BY <1>1, <1>3, <1>4, <1>7, <1>8

\* Where the tree stays, and an operation begins or ends.
LEMMA Elsewhere ==
    ASSUME ArchiveInv, UNCHANGED <<tree, fleet>>,
           policies' \in [Folder -> {Sparse(fp[2]) : fp \in FolderPolicy} \cup {NoPolicy}],
           op' \in [Putter \cup Mover -> Operation],
           \A a \in Putter \cup Mover : op'[a] = op[a] \/ (op'[a].at = "put" => Planned(op'[a]))
    PROVE  ArchiveInv'
  <1>1. TypeOK'
    BY DEF ArchiveInv, TypeOK
  <1>2. IdsApart' /\ \A path \in Present' : Planned(tree[path])'
    BY DEF ArchiveInv, IdsApart, IdOf, Present, Planned
  <1>3. ASSUME NEW a \in DOMAIN op', op'[a].at = "put"
        PROVE  Planned(op[a])'
    <2>1. a \in Putter \cup Mover /\ a \in DOMAIN op
      BY DEF ArchiveInv, TypeOK
    <2>2. QED
      BY <1>3, <2>1 DEF ArchiveInv, Planned
  <1>4. QED
    BY <1>1, <1>2, <1>3 DEF ArchiveInv

\* Where an operation ends and the tree is another.
LEMMA TreeChanges ==
    ASSUME ArchiveInv, UNCHANGED <<policies, fleet>>, NEW a \in Putter \cup Mover, Ends(a),
           tree' \in [Path -> File \cup {NoFile}], IdsApart',
           \A path \in Present' : Planned(tree'[path])
    PROVE  ArchiveInv'
  <1>1. TypeOK'
    BY EndSteps DEF ArchiveInv, TypeOK
  <1>2. \A path \in Present' : Planned(tree[path])'
    BY DEF Planned
  <1>3. ASSUME NEW b \in DOMAIN op', op'[b].at = "put"
        PROVE  Planned(op[b])'
    <2>1. b \in Putter \cup Mover /\ b \in DOMAIN op /\ b # a
      BY <1>3, EndSteps DEF ArchiveInv, TypeOK, Idle
    <2>2. op'[b] = op[b]
      BY <2>1, EndSteps DEF ArchiveInv
    <2>3. QED
      BY <1>3, <2>1, <2>2 DEF ArchiveInv, Planned
  <1>4. QED
    BY <1>1, <1>2, <1>3 DEF ArchiveInv

LEMMA EndsHere ==
    ASSUME ArchiveInv, UNCHANGED <<tree, policies, fleet>>, NEW a \in Putter \cup Mover, Ends(a)
    PROVE  ArchiveInv'
  <1>1. TypeOK
    BY DEF ArchiveInv
  <1>2. /\ op' \in [Putter \cup Mover -> Operation]
        /\ \A b \in Putter \cup Mover : op'[b] = op[b] \/ op'[b].at # "put"
    BY <1>1, EndSteps DEF Idle
  <1>3. policies' \in [Folder -> {Sparse(fp[2]) : fp \in FolderPolicy} \cup {NoPolicy}]
    BY <1>1 DEF TypeOK
  <1>4. QED
    BY <1>2, <1>3, Elsewhere

LEMMA PutStartsKeepInv ==
    ASSUME ArchiveInv, NEW a \in Putter, NEW path \in PutPath, NEW options \in Override,
           StartPut(a, path, options)
    PROVE  ArchiveInv'
  <1>0. TypeOK /\ a \in Putter \cup Mover
    BY DEF ArchiveInv
  <1> DEFINE policy == Over(options, ResolvePolicy(path))
             groups == Plan[fleet][policy]
             o == [at |-> "put", path |-> path, policy |-> policy, groups |-> groups]
  <1>1. op' = [op EXCEPT ![a] = o] /\ groups # Failed /\ UNCHANGED <<tree, policies, fleet>>
    BY DEF StartPut, Begins
  <1>2. path \in Path
    BY ArchiveAssumption DEF ArchiveAssumption
  <1>3. policy \in Asked /\ groups \in Placing
    BY <1>0, <1>2, ResolvedFacts, PlanFacts DEF TypeOK
  <1>4. o \in Operation /\ Planned(o)
    BY <1>1, <1>2, <1>3 DEF Operation, Planned
  <1> HIDE DEF o, groups, policy
  <1>5. /\ op' \in [Putter \cup Mover -> Operation] /\ op'[a] = o
        /\ \A b \in Putter \cup Mover : b # a => op'[b] = op[b]
    BY <1>0, <1>1, <1>4, OpSteps
  <1>6. policies' \in [Folder -> {Sparse(fp[2]) : fp \in FolderPolicy} \cup {NoPolicy}]
    BY <1>0, <1>1 DEF TypeOK
  <1>7. QED
    BY <1>1, <1>4, <1>5, <1>6, Elsewhere

LEMMA PutEndsKeepInv ==
    ASSUME ArchiveInv, NEW a \in Putter, EndPut(a)
    PROVE  ArchiveInv'
  <1>0. TypeOK /\ a \in Putter \cup Mover
    BY DEF ArchiveInv
  <1> DEFINE r == [id |-> NextId, policy |-> op[a].policy, groups |-> op[a].groups]
             q == op[a].path
  <1>1. CASE tree[q] = NoFile
    <2>1. op[a] \in [at : {"put"}, path : Path, policy : Asked, groups : Placing] /\ Planned(op[a])
      BY <1>0, OperationFacts DEF EndPut, ArchiveInv, TypeOK
    <2>2. NextId \in 1..MaxFiles /\ NextId \notin Ids
      BY <1>0, NextIdFacts, ArchiveAssumption DEF EndPut, ArchiveAssumption
    <2>3. r \in File /\ Planned(r) /\ r.id = NextId /\ q \in Path
      BY <2>1, <2>2 DEF File, Planned
    <2>4. tree' = [tree EXCEPT ![q] = r] /\ UNCHANGED <<policies, fleet>> /\ Ends(a)
      BY <1>1 DEF EndPut
    <2> HIDE DEF r, q
    <2>5. /\ tree' \in [Path -> File \cup {NoFile}] /\ tree'[q] = r
          /\ \A p \in Path : p # q => tree'[p] = tree[p]
      BY <1>0, <2>3, <2>4 DEF TypeOK
    <2>6. \A p \in Present' : p = q \/ p \in Present
      BY <2>5 DEF Present
    <2>7. \A p \in Present : IdOf(p) # NextId
      BY <2>2 DEF Ids
    <2>8. \A p \in Present' : IF p = q THEN IdOf(p)' = NextId ELSE IdOf(p)' = IdOf(p) /\ p \in Present
      BY <2>3, <2>5, <2>6 DEF IdOf, Present
    <2>9. IdsApart'
      BY <2>7, <2>8 DEF IdsApart, ArchiveInv
    <2>10. \A p \in Present' : Planned(tree'[p])
      BY <2>3, <2>5, <2>6 DEF ArchiveInv, Present
    <2>11. QED
      BY <1>0, <2>4, <2>5, <2>9, <2>10, TreeChanges
  <1>2. CASE tree[q] # NoFile
    BY <1>0, <1>2, EndsHere DEF EndPut
  <1>3. QED
    BY <1>1, <1>2

LEMMA RemovalStartsKeepInv ==
    ASSUME ArchiveInv, NEW a \in Putter, NEW path \in Path, StartRemove(a, path)
    PROVE  ArchiveInv'
  <1>0. TypeOK /\ a \in Putter \cup Mover
    BY DEF ArchiveInv
  <1> DEFINE o == [at |-> "remove", id |-> IdOf(path)]
  <1>1. op' = [op EXCEPT ![a] = o] /\ UNCHANGED <<tree, policies, fleet>> /\ tree[path] \in File
    BY <1>0 DEF StartRemove, Begins, TypeOK
  <1>2. o \in Operation /\ o.at # "put"
    BY <1>1 DEF Operation, File, IdOf
  <1> HIDE DEF o
  <1>3. /\ op' \in [Putter \cup Mover -> Operation] /\ op'[a] = o
        /\ \A b \in Putter \cup Mover : b # a => op'[b] = op[b]
    BY <1>0, <1>1, <1>2, OpSteps
  <1>4. policies' \in [Folder -> {Sparse(fp[2]) : fp \in FolderPolicy} \cup {NoPolicy}]
    BY <1>0, <1>1 DEF TypeOK
  <1>5. QED
    BY <1>1, <1>2, <1>3, <1>4, Elsewhere

LEMMA RemovalEndsKeepInv ==
    ASSUME ArchiveInv, NEW a \in Putter, EndRemove(a)
    PROVE  ArchiveInv'
  <1>0. TypeOK /\ a \in Putter \cup Mover
    BY DEF ArchiveInv
  <1>1. /\ tree' = [p \in Path |-> IF p \in Present /\ IdOf(p) = op[a].id THEN NoFile ELSE tree[p]]
        /\ UNCHANGED <<policies, fleet>> /\ Ends(a)
    BY DEF EndRemove
  <1>2. tree' \in [Path -> File \cup {NoFile}]
    BY <1>0, <1>1 DEF TypeOK
  <1>3. \A p \in Present' : p \in Present /\ tree'[p] = tree[p]
    BY <1>1 DEF Present
  <1>4. IdsApart' /\ \A p \in Present' : Planned(tree'[p])
    BY <1>3 DEF IdsApart, IdOf, ArchiveInv
  <1>5. QED
    BY <1>0, <1>1, <1>2, <1>4, TreeChanges

LEMMA MoveStartsKeepInv ==
    ASSUME ArchiveInv, NEW a \in Mover, NEW src \in Source, NEW dst \in Destination,
           NEW into \in BOOLEAN, StartMove(a, src, dst, into)
    PROVE  ArchiveInv'
  <1>0. TypeOK /\ a \in Putter \cup Mover
    BY DEF ArchiveInv
  <1> DEFINE target == Target(src, dst, into)
  <1>1. src \in Path /\ target \in Path /\ UNCHANGED <<tree, policies, fleet>>
    BY ArchiveAssumption DEF ArchiveAssumption, StartMove
  <1>2. PICK o \in Operation : op' = [op EXCEPT ![a] = o] /\ o.at # "put"
    <2>1. CASE tree[src] # NoFile
      <3> DEFINE o == [at |-> "move file", id |-> IdOf(src), target |-> target]
      <3>1. op' = [op EXCEPT ![a] = o]
        BY <2>1 DEF StartMove, Begins
      <3>2. IdOf(src) \in 1..MaxFiles
        BY <1>0, <1>1, <2>1 DEF TypeOK, File, IdOf
      <3>3. o \in Operation /\ o.at # "put"
        <4> HIDE DEF target
        <4>1. QED
          BY <1>1, <3>2 DEF Operation
      <3>4. QED
        BY <3>1, <3>3
    <2>2. CASE tree[src] = NoFile
      <3> DEFINE o == [at |-> "move tree", src |-> src, target |-> target]
      <3>1. op' = [op EXCEPT ![a] = o]
        BY <2>2 DEF StartMove, Begins
      <3>2. o \in Operation /\ o.at # "put"
        <4> HIDE DEF target
        <4>1. QED
          BY <1>1 DEF Operation
      <3>3. QED
        BY <3>1, <3>2
    <2>3. QED
      BY <2>1, <2>2
  <1>3. /\ op' \in [Putter \cup Mover -> Operation] /\ op'[a] = o
        /\ \A b \in Putter \cup Mover : b # a => op'[b] = op[b]
    BY <1>0, <1>2, OpSteps
  <1>4. policies' \in [Folder -> {Sparse(fp[2]) : fp \in FolderPolicy} \cup {NoPolicy}]
    BY <1>0, <1>1 DEF TypeOK
  <1>5. QED
    BY <1>1, <1>2, <1>3, <1>4, Elsewhere

LEMMA MoveKeepsInv ==
    ASSUME ArchiveInv, NEW a \in Mover, MoveFile(a) \/ MoveTree(a)
    PROVE  ArchiveInv'
  <1>1. TypeOK /\ a \in Putter \cup Mover
    BY DEF ArchiveInv
  <1>3. CASE MoveFile(a) /\ tree' # tree
    <2>1. PICK p \in Present, q \in Path \ Present :
              tree' = [x \in Path |-> IF x = p THEN NoFile ELSE IF x = q THEN tree[p] ELSE tree[x]]
      BY <1>1, <1>3, MoveFileFacts
    <2>2. tree' \in [Path -> File \cup {NoFile}]
      BY <1>1, <2>1 DEF TypeOK, Present
    <2>3. \A x \in Present' : \/ x = q /\ tree'[x] = tree[p]
                              \/ x \in Present \ {p} /\ tree'[x] = tree[x]
      BY <2>1 DEF Present
    <2>4. IdsApart' /\ \A x \in Present' : Planned(tree'[x])
      BY <2>1, <2>3 DEF IdsApart, IdOf, ArchiveInv
    <2>5. UNCHANGED <<policies, fleet>> /\ Ends(a)
      BY <1>3 DEF MoveFile
    <2>6. QED
      BY <1>1, <2>2, <2>4, <2>5, TreeChanges
  <1>4. CASE MoveTree(a) /\ tree' # tree
    <2> DEFINE from == op[a].src
               target == op[a].target
    <2>1. /\ \A path \in Under(from) : tree'[Renamed(path, from, target)] = tree[path]
          /\ tree' \in [Path -> File \cup {NoFile}]
          /\ \A path \in Present' :
                \/ \E q \in Under(from) : path = Renamed(q, from, target)
                \/ path \in Present \ Under(from) /\ tree'[path] = tree[path]
      BY <1>1, <1>4, MoveTreeFacts
    <2>2. Under(from) \subseteq Present
      BY DEF Under
    <2> HIDE DEF from, target
    <2>3. IdsApart' /\ \A path \in Present' : Planned(tree'[path])
      BY <2>1, <2>2 DEF IdsApart, IdOf, ArchiveInv
    <2>4. UNCHANGED <<policies, fleet>> /\ Ends(a)
      BY <1>4 DEF MoveTree
    <2>5. QED
      BY <1>1, <2>1, <2>3, <2>4, TreeChanges
  <1>5. CASE (MoveFile(a) \/ MoveTree(a)) /\ tree' = tree
    <2>1. UNCHANGED <<tree, policies, fleet>> /\ Ends(a)
      BY <1>5 DEF MoveFile, MoveTree
    <2>2. QED
      BY <1>1, <2>1, EndsHere
  <1>6. QED
    BY <1>3, <1>4, <1>5

LEMMA PoliciesKeepInv ==
    ASSUME ArchiveInv, NEW fp \in FolderPolicy, SetPolicy(fp[1], fp[2]) \/ UnsetPolicy(fp[1])
    PROVE  ArchiveInv'
  <1>1. TypeOK
    BY DEF ArchiveInv
  <1>2. PICK v \in {Sparse(fq[2]) : fq \in FolderPolicy} \cup {NoPolicy} :
            policies' = [policies EXCEPT ![fp[1]] = v]
    <2>1. Sparse(fp[2]) \in {Sparse(fq[2]) : fq \in FolderPolicy}
      OBVIOUS
    <2>2. QED
      BY <2>1 DEF SetPolicy, UnsetPolicy
  <1>3. policies' \in [Folder -> {Sparse(fq[2]) : fq \in FolderPolicy} \cup {NoPolicy}]
    BY <1>1, <1>2 DEF TypeOK
  <1>4. UNCHANGED <<tree, fleet, op>>
    BY DEF SetPolicy, UnsetPolicy
  <1>5. op' \in [Putter \cup Mover -> Operation]
    BY <1>1, <1>4 DEF TypeOK
  <1>6. QED
    BY <1>3, <1>4, <1>5, Elsewhere

LEMMA ArchiveInvHolds == Spec => []ArchiveInv
  <1>1. Init => ArchiveInv
    <2> SUFFICES ASSUME Init
                 PROVE  ArchiveInv
      OBVIOUS
    <2>1. TypeOK
      BY DEF Init, TypeOK, Operation
    <2>2. Present = {}
      BY DEF Init, Present
    <2>3. \A a \in DOMAIN op : op[a].at # "put"
      BY DEF Init, Idle
    <2>4. QED
      BY <2>1, <2>2, <2>3 DEF ArchiveInv, IdsApart
  <1>2. ArchiveInv /\ [Next]_vars => ArchiveInv'
    <2> SUFFICES ASSUME ArchiveInv, [Next]_vars
                 PROVE  ArchiveInv'
      OBVIOUS
    <2>1. ASSUME NEW a \in Putter, NEW path \in PutPath, NEW options \in Override,
                 StartPut(a, path, options)
          PROVE  ArchiveInv'
      BY <2>1, PutStartsKeepInv
    <2>2. ASSUME NEW a \in Putter, EndPut(a)
          PROVE  ArchiveInv'
      BY <2>2, PutEndsKeepInv
    <2>3. ASSUME NEW a \in Putter, NEW path \in Path, StartRemove(a, path)
          PROVE  ArchiveInv'
      BY <2>3, RemovalStartsKeepInv
    <2>4. ASSUME NEW a \in Putter, EndRemove(a)
          PROVE  ArchiveInv'
      BY <2>4, RemovalEndsKeepInv
    <2>5. ASSUME NEW a \in Mover, NEW src \in Source, NEW dst \in Destination, NEW into \in BOOLEAN,
                 StartMove(a, src, dst, into)
          PROVE  ArchiveInv'
      BY <2>5, MoveStartsKeepInv
    <2>6. ASSUME NEW a \in Mover, MoveFile(a) \/ MoveTree(a)
          PROVE  ArchiveInv'
      BY <2>6, MoveKeepsInv
    <2>7. ASSUME NEW fp \in FolderPolicy, SetPolicy(fp[1], fp[2]) \/ UnsetPolicy(fp[1])
          PROVE  ArchiveInv'
      BY <2>7, PoliciesKeepInv
    <2>8. ASSUME NEW a \in Putter \cup Mover, Aborts(a)
          PROVE  ArchiveInv'
      BY <2>8, EndsHere DEF Aborts
    <2>9. CASE UNCHANGED vars
      <3>1. TypeOK
        BY DEF ArchiveInv
      <3>2. QED
        BY <2>9, <3>1, Elsewhere DEF vars, TypeOK
    <2>10. QED
      BY <2>1, <2>2, <2>3, <2>4, <2>5, <2>6, <2>7, <2>8, <2>9 DEF Next
  <1>3. QED
    BY <1>1, <1>2, PTL DEF Spec

----------------------------------------------------------------------------
(* The tree.                                                               *)

\* What each step does to the tree.
LEMMA TreeSteps ==
    ASSUME ArchiveInv, Next, tree' # tree
    PROVE  \/ \E a \in Putter : EndPut(a) \/ EndRemove(a)
           \/ \E a \in Mover : MoveFile(a) \/ MoveTree(a)
  BY DEF Next, StartPut, StartRemove, StartMove, SetPolicy, UnsetPolicy, Aborts

\* register.move_file, move_tree and the inserts overwrite nothing: a file leaves
\* the register only by its own removal.
THEOREM NothingIsOverwritten == Spec => FilesStay
  <1> DEFINE Stays(path) ==
                \/ \E q \in Path : tree'[q] = tree[path]
                \/ \E a \in Putter : op[a].at = "remove" /\ op[a].id = IdOf(path) /\ op'[a] = Idle
  <1>1. ASSUME ArchiveInv, [Next]_vars, tree' # tree, NEW path \in Present
        PROVE  Stays(path)
    <2>1. TypeOK /\ path \in Path
      BY <1>1 DEF ArchiveInv, Present
    <2>2. Next
      BY <1>1 DEF vars
    <2>3. ASSUME NEW a \in Putter, EndPut(a)
          PROVE  Stays(path)
      <3>1. tree' = [tree EXCEPT ![op[a].path] = tree'[op[a].path]] /\ tree[op[a].path] = NoFile
        BY <1>1, <2>1, <2>3, OperationFacts DEF EndPut, TypeOK
      <3>2. path # op[a].path
        BY <3>1 DEF Present
      <3>3. tree'[path] = tree[path]
        BY <2>1, <3>1, <3>2 DEF TypeOK
      <3>4. QED
        BY <2>1, <3>3
    <2>4. ASSUME NEW a \in Putter, EndRemove(a)
          PROVE  Stays(path)
      <3>1. CASE IdOf(path) = op[a].id
        <4>1. op[a].at = "remove" /\ op'[a] = Idle
          BY <2>1, <2>4, EndSteps DEF EndRemove
        <4>2. QED
          BY <3>1, <4>1
      <3>2. CASE IdOf(path) # op[a].id
        <4>1. tree'[path] = tree[path]
          BY <2>1, <2>4, <3>2 DEF EndRemove
        <4>2. QED
          BY <2>1, <4>1
      <3>3. QED
        BY <3>1, <3>2
    <2>5. ASSUME NEW a \in Mover, MoveFile(a)
          PROVE  Stays(path)
      <3>1. PICK p \in Present, q \in Path \ Present :
              tree' = [x \in Path |-> IF x = p THEN NoFile ELSE IF x = q THEN tree[p] ELSE tree[x]]
        BY <1>1, <2>1, <2>5, MoveFileFacts
      <3>2. p # q /\ p \in Path /\ q \in Path /\ path # q
        BY DEF Present
      <3>3. tree'[q] = tree[p] /\ (path # p => tree'[path] = tree[path])
        BY <2>1, <3>1, <3>2
      <3>4. QED
        BY <2>1, <3>2, <3>3
    <2>6. ASSUME NEW a \in Mover, MoveTree(a)
          PROVE  Stays(path)
      <3> DEFINE src == op[a].src
                 target == op[a].target
      <3>1. /\ \A x \in Under(src) :
                  Renamed(x, src, target) \in Path /\ tree'[Renamed(x, src, target)] = tree[x]
            /\ \A x \in Present \ Under(src) : tree'[x] = tree[x]
        BY <1>1, <2>1, <2>6, MoveTreeFacts
      <3> HIDE DEF src, target
      <3>2. QED
        BY <2>1, <3>1
    <2>7. QED
      BY <1>1, <2>2, <2>3, <2>4, <2>5, <2>6, TreeSteps
  <1>2. ArchiveInv /\ [Next]_vars => [tree' # tree => \A path \in Present : Stays(path)]_vars
    BY <1>1
  <1>3. QED
    BY <1>2, ArchiveInvHolds, PTL DEF Spec, FilesStay

\* register.move_tree is one UPDATE: a directory moves as a whole or not at all.
THEOREM DirectoriesMoveWhole == Spec => MovesWhole
  <1> DEFINE Whole(a) ==
                op[a].at = "move tree" /\ op'[a] = Idle /\ tree' # tree
                  => \A path \in Under(op[a].src) :
                        tree'[Renamed(path, op[a].src, op[a].target)] = tree[path]
  <1>1. ASSUME ArchiveInv, [Next]_vars, NEW a \in Mover, op[a].at = "move tree", op'[a] = Idle,
               tree' # tree, NEW path \in Under(op[a].src)
        PROVE  tree'[Renamed(path, op[a].src, op[a].target)] = tree[path]
    <2>1. TypeOK /\ Next
      BY <1>1 DEF ArchiveInv, vars
    <2>2. ASSUME NEW b \in Putter \cup Mover, Ends(b)
          PROVE  b = a
      <3>1. Idle.at = "idle"
        BY DEF Idle
      <3>2. op[a] # Idle
        BY <1>1, <3>1
      <3>3. QED
        BY <1>1, <2>1, <2>2, <3>2, EndSteps
    <2>3. MoveTree(a)
      <3>1. ASSUME NEW b \in Putter, EndPut(b) \/ EndRemove(b)
            PROVE  FALSE
        <4>1. Ends(b) /\ op[b].at \in {"put", "remove"}
          BY <3>1 DEF EndPut, EndRemove
        <4>2. QED
          BY <1>1, <2>2, <4>1
      <3>2. ASSUME NEW b \in Mover, MoveFile(b)
            PROVE  FALSE
        <4>1. Ends(b) /\ op[b].at = "move file"
          BY <3>2 DEF MoveFile
        <4>2. QED
          BY <1>1, <2>2, <4>1
      <3>3. ASSUME NEW b \in Mover, MoveTree(b)
            PROVE  MoveTree(a)
        <4>1. Ends(b)
          BY <3>3 DEF MoveTree
        <4>2. QED
          BY <2>2, <3>3, <4>1
      <3>4. QED
        BY <1>1, <2>1, <3>1, <3>2, <3>3, TreeSteps
    <2>4. QED
      BY <1>1, <2>1, <2>3, MoveTreeFacts
  <1>2. ArchiveInv /\ [Next]_vars => [\A a \in Mover : Whole(a)]_vars
    BY <1>1
  <1>3. QED
    BY <1>2, ArchiveInvHolds, PTL DEF Spec, MovesWhole

----------------------------------------------------------------------------
(* Browsing.                                                               *)

\* One listing further down.
Deeper(S) == S \cup UNION {{Append(f, x) : x \in ChildDirs(f)} : f \in S}
IsWalk(found, n) ==
    found = [d \in 0..n |-> IF d = 0 THEN {Root} ELSE Deeper(found[d - 1])]

\* Walk is what its recursion says.
LEMMA WalkFacts ==
    \E found : IsWalk(found, MaxDepth) /\ Walk = found[MaxDepth]
  <1> DEFINE S == {n \in Nat : \E found : IsWalk(found, n)}
  <1>1. 0 \in S
    <2> DEFINE found == [d \in 0..0 |-> {Root}]
    <2>1. found = [d \in 0..0 |-> IF d = 0 THEN {Root} ELSE Deeper(found[d - 1])]
      OBVIOUS
    <2>2. IsWalk(found, 0)
      BY <2>1 DEF IsWalk
    <2>3. QED
      BY <2>2
  <1>2. ASSUME NEW n \in S
        PROVE  n + 1 \in S
    <2>1. PICK g : IsWalk(g, n)
      OBVIOUS
    <2>2. n \in Nat /\ DOMAIN g = 0..n /\ \A d \in 0..n : g[d] = IF d = 0 THEN {Root} ELSE Deeper(g[d - 1])
      BY <2>1 DEF IsWalk
    <2> DEFINE h == [d \in 0..n + 1 |-> IF d = n + 1 THEN Deeper(g[n]) ELSE g[d]]
    <2>3. ASSUME NEW d \in 0..n + 1
          PROVE  h[d] = IF d = 0 THEN {Root} ELSE Deeper(h[d - 1])
      <3>1. CASE d = n + 1
        <4>1. d # 0 /\ d - 1 = n /\ n # n + 1 /\ n \in 0..n + 1
          BY <2>2, <3>1
        <4>2. h[d - 1] = g[n]
          BY <4>1
        <4>3. h[d] = Deeper(g[n])
          BY <3>1
        <4> HIDE DEF h
        <4>4. QED
          BY <4>1, <4>2, <4>3
      <3>2. CASE d # n + 1
        <4>1. d \in 0..n /\ h[d] = g[d]
          BY <2>2, <3>2
        <4>2. d # 0 => d - 1 \in 0..n + 1 /\ d - 1 # n + 1 /\ h[d - 1] = g[d - 1]
          BY <2>2, <4>1
        <4> HIDE DEF h
        <4>3. QED
          BY <2>2, <4>1, <4>2
      <3>3. QED
        BY <3>1, <3>2
    <2>4. h = [d \in 0..n + 1 |-> h[d]]
      OBVIOUS
    <2> HIDE DEF h
    <2>5. IsWalk(h, n + 1)
      BY <2>3, <2>4 DEF IsWalk
    <2>6. n + 1 \in Nat
      BY <2>2
    <2>7. QED
      BY <2>5, <2>6
  <1>3. S = Nat
    <2>1. S \in SUBSET Nat
      OBVIOUS
    <2> HIDE DEF S
    <2>2. QED
      BY <1>1, <1>2, <2>1, NatsByInduction
  <1>4. \E found : IsWalk(found, MaxDepth)
    BY <1>3, PathFacts
  <1> DEFINE found == CHOOSE found : IsWalk(found, MaxDepth)
  <1>5. IsWalk(found, MaxDepth)
    BY <1>4
  <1>6. Walk = found[MaxDepth]
    BY DEF Walk, IsWalk, Deeper
  <1>7. QED
    BY <1>5, <1>6

\* The directories above a path.
LEMMA PrefixFacts ==
    ASSUME NEW path \in Seq(Name), NEW k \in 0..Len(path)
    PROVE  LET above == SubSeq(path, 1, k) IN
           /\ above \in Seq(Name) /\ Len(above) = k
           /\ k = 0 => above = Root
           /\ k < Len(path) =>
                 /\ IsUnder(above, path)
                 /\ SubSeq(path, 1, k + 1) = Append(above, path[k + 1])
  <1> DEFINE above == SubSeq(path, 1, k)
  <1>1. Len(path) \in Nat /\ \A i \in 1..Len(path) : path[i] \in Name
    BY LenProperties, ElementOfSeq
  <1>2. /\ above \in Seq(Name) /\ Len(above) = k /\ \A i \in 1..k : above[i] = path[i]
    <2>1. \A i \in 1..k : path[i] \in Name
      BY <1>1
    <2>2. /\ above \in Seq(Name) /\ Len(above) = IF 1 <= k THEN k - 1 + 1 ELSE 0
          /\ \A i \in 1..k - 1 + 1 : above[i] = path[1 + i - 1]
      BY <1>1, <2>1, SubSeqProperties
    <2>3. QED
      BY <1>1, <2>2
  <1>3. k = 0 => above = Root
    BY <1>2, EmptySeq DEF Root
  <1>4. ASSUME k < Len(path)
        PROVE  IsUnder(above, path)
    BY <1>2, <1>4 DEF IsUnder
  <1>5. ASSUME k < Len(path)
        PROVE  SubSeq(path, 1, k + 1) = Append(above, path[k + 1])
    <2> DEFINE next == SubSeq(path, 1, k + 1)
               x == path[k + 1]
    <2>1. x \in Name
      BY <1>1, <1>5
    <2>2. \A i \in 1..k + 1 : path[i] \in Name
      BY <1>1, <1>5
    <2>3. /\ next \in Seq(Name) /\ Len(next) = k + 1
          /\ \A i \in 1..k + 1 : next[i] = path[i]
      <3>1. /\ next \in Seq(Name) /\ Len(next) = IF 1 <= k + 1 THEN k + 1 - 1 + 1 ELSE 0
            /\ \A i \in 1..k + 1 - 1 + 1 : next[i] = path[1 + i - 1]
        BY <1>1, <2>2, SubSeqProperties
      <3>2. QED
        BY <1>1, <3>1
    <2> HIDE DEF above, next, x
    <2>4. /\ Append(above, x) \in Seq(Name) /\ Len(Append(above, x)) = k + 1
          /\ \A i \in 1..k : Append(above, x)[i] = above[i]
          /\ Append(above, x)[k + 1] = x
      BY <1>2, <2>1, AppendProperties
    <2>5. \A i \in 1..k + 1 : next[i] = Append(above, x)[i]
      <3>1. next[k + 1] = x
        BY <1>1, <2>3 DEF x
      <3>2. QED
        BY <1>1, <1>2, <2>3, <2>4, <3>1
    <2>6. next = Append(above, x)
      BY <2>3, <2>4, <2>5, SeqEqual
    <2>7. QED
      BY <2>6 DEF next, x, above
  <1>6. QED
    BY <1>2, <1>3, <1>4, <1>5

\* Browsing down the listings of register.list_children from the root finds every
\* file, whatever has been put, moved and removed, and though a file may have
\* files below it.
THEOREM BrowsingFindsAll == Spec => []EveryFileListed
  <1>1. ASSUME TypeOK
        PROVE  EveryFileListed
    <2>1. \A folder : ChildFiles(folder) \subseteq Present
      BY DEF ChildFiles, Under
    <2>2. ASSUME NEW path \in Present
          PROVE  \E folder \in Walk : path \in ChildFiles(folder)
      <3>1. PICK found : IsWalk(found, MaxDepth) /\ Walk = found[MaxDepth]
        BY WalkFacts
      <3> DEFINE n == Len(path)
                 Above(k) == SubSeq(path, 1, k)
                 T == {d \in Nat : d <= MaxDepth =>
                                      \A k \in 0..n - 1 : k <= d => Above(k) \in found[d]}
      <3>2. path \in Seq(Name) /\ n \in 1..MaxDepth /\ MaxDepth \in Nat
        BY PathFacts DEF Present
      <3>3. \A d \in 0..MaxDepth : found[d] = IF d = 0 THEN {Root} ELSE Deeper(found[d - 1])
        BY <3>1 DEF IsWalk
      <3>4. 0 \in T
        <4>1. Above(0) = Root
          BY <3>2, PrefixFacts
        <4>2. found[0] = {Root}
          BY <3>2, <3>3
        <4> HIDE DEF Above
        <4>3. QED
          BY <3>2, <4>1, <4>2
      <3>5. ASSUME NEW d \in T
            PROVE  d + 1 \in T
        <4>1. SUFFICES ASSUME d + 1 <= MaxDepth, NEW k \in 0..n - 1, k <= d + 1
                       PROVE  Above(k) \in found[d + 1]
          OBVIOUS
        <4>2. d \in Nat /\ d <= MaxDepth /\ \A j \in 0..n - 1 : j <= d => Above(j) \in found[d]
          BY <3>2, <4>1
        <4>3. found[d + 1] = Deeper(found[d])
          BY <3>2, <3>3, <4>1, <4>2
        <4>4. CASE k <= d
          BY <4>2, <4>3, <4>4 DEF Deeper
        <4>5. CASE k = d + 1
          <5>1. d \in 0..n - 1 /\ d \in 0..n /\ d < n /\ n > d + 1
            BY <3>2, <4>1, <4>2, <4>5
          <5>2. /\ Len(Above(d)) = d /\ IsUnder(Above(d), path)
                /\ Above(d + 1) = Append(Above(d), path[d + 1])
            BY <3>2, <5>1, PrefixFacts
          <5> HIDE DEF Above
          <5>3. path[d + 1] \in ChildDirs(Above(d))
            BY <2>2, <5>1, <5>2 DEF ChildDirs, Under
          <5>4. Above(d) \in found[d]
            BY <4>2, <5>1
          <5>5. QED
            BY <4>3, <4>5, <5>2, <5>3, <5>4 DEF Deeper
        <4>6. QED
          BY <3>2, <4>1, <4>2, <4>4, <4>5
      <3>6. T = Nat
        <4>1. T \in SUBSET Nat
          OBVIOUS
        <4> HIDE DEF T
        <4>2. QED
          BY <3>4, <3>5, <4>1, NatsByInduction
      <3>7. Above(n - 1) \in Walk
        <4>1. MaxDepth \in T /\ n - 1 \in 0..n - 1 /\ n - 1 <= MaxDepth
          BY <3>2, <3>6
        <4> HIDE DEF Above
        <4>2. QED
          BY <3>1, <3>2, <4>1
      <3>8. path \in ChildFiles(Above(n - 1))
        <4>1. n - 1 \in 0..n /\ n - 1 < n
          BY <3>2
        <4>2. Len(Above(n - 1)) = n - 1 /\ IsUnder(Above(n - 1), path)
          BY <3>2, <4>1, PrefixFacts
        <4> HIDE DEF Above
        <4>3. QED
          BY <2>2, <3>2, <4>2 DEF ChildFiles, Under
      <3>9. QED
        BY <3>7, <3>8
    <2>3. QED
      BY <2>1, <2>2 DEF EveryFileListed
  <1>2. ArchiveInv => TypeOK
    BY DEF ArchiveInv
  <1>3. QED
    BY <1>1, <1>2, ArchiveInvHolds, PTL

----------------------------------------------------------------------------
(* Ranking.                                                                *)

\* Functions onto and into sets.
LEMMA SurjectionFacts ==
    ASSUME NEW S, NEW T, NEW g \in [S -> T]
    PROVE  /\ (\A t \in T : \E x \in S : g[x] = t) <=> g \in Surjection(S, T)
           /\ (\A x, y \in S : g[x] = g[y] => x = y) <=> g \in Injection(S, T)
  BY DEF Surjection, Injection, IsInjective

\* A finite set of numbers has a bound.
LEMMA Bounded ==
    ASSUME NEW S \in SUBSET Nat, IsFiniteSet(S)
    PROVE  \E b \in Nat : \A x \in S : x <= b
  <1> DEFINE n == Cardinality(S)
  <1>1. n \in Nat /\ ExistsBijection(1..n, S)
    BY FS_CardinalityType
  <1>2. PICK g \in [1..n -> S] : \A x \in S : \E i \in 1..n : g[i] = x
    BY <1>1 DEF ExistsBijection, Bijection, Surjection
  <1>2a. \A i \in 1..n : g[i] \in Nat
    BY <1>2
  <1> HIDE DEF n
  <1> DEFINE K == {k \in Nat : \E b \in Nat : \A i \in 1..n : i <= k => g[i] <= b}
  <1>3. 0 \in K
    <2>1. \A i \in 1..n : i <= 0 => g[i] <= 0
      BY <1>1
    <2>2. QED
      BY <2>1
  <1>4. ASSUME NEW k \in K
        PROVE  k + 1 \in K
    <2>1. PICK b \in Nat : \A i \in 1..n : i <= k => g[i] <= b
      OBVIOUS
    <2>2. CASE k + 1 \in 1..n
      <3>1. g[k + 1] \in Nat /\ k + 1 \in Nat
        BY <1>2a, <2>2
      <3>2. ASSUME NEW i \in 1..n, i <= k + 1
            PROVE  g[i] <= b + g[k + 1]
        <4>1. g[i] \in Nat /\ (i = k + 1 \/ i <= k)
          BY <1>1, <1>2a, <3>2
        <4>2. QED
          BY <2>1, <3>1, <4>1
      <3>3. PICK c \in Nat : c = b + g[k + 1]
        BY <3>1
      <3>4. \A i \in 1..n : i <= k + 1 => g[i] <= c
        BY <3>2, <3>3
      <3>5. QED
        BY <3>1, <3>4
    <2>3. CASE k + 1 \notin 1..n
      <3>1. \A i \in 1..n : i <= k + 1 => i <= k
        BY <1>1, <2>3
      <3>2. QED
        BY <2>1, <3>1
    <2>4. QED
      BY <2>2, <2>3
  <1>5. K = Nat
    <2>1. K \in SUBSET Nat
      OBVIOUS
    <2> HIDE DEF K
    <2>2. QED
      BY <1>3, <1>4, <2>1, NatsByInduction
  <1>6. n \in K
    <2> HIDE DEF K
    <2>1. QED
      BY <1>1, <1>5
  <1>7. PICK b \in Nat : \A i \in 1..n : i <= n => g[i] <= b
    BY <1>6
  <1>8. ASSUME NEW x \in S
        PROVE  x <= b
    <2>1. PICK i \in 1..n : g[i] = x
      BY <1>2
    <2>2. i <= n
      BY <1>1
    <2>3. QED
      BY <1>7, <2>1, <2>2
  <1>9. QED
    BY <1>8

\* A finite set that is strictly ordered can be put in order.
LEMMA SortedExists ==
    ASSUME NEW S, IsFiniteSet(S), NEW R,
           \A x \in S : <<x, x>> \notin R,
           \A x, y, z \in S : <<x, y>> \in R /\ <<y, z>> \in R => <<x, z>> \in R,
           \A x, y \in S : x # y => <<x, y>> \in R \/ <<y, x>> \in R
    PROVE  \E s \in [1..Cardinality(S) -> S] :
              \A i, j \in 1..Cardinality(S) : i < j => <<s[i], s[j]>> \in R
  <1> DEFINE n == Cardinality(S)
             Before(x) == {y \in S : <<y, x>> \in R}
             rank == [x \in S |-> Cardinality(Before(x)) + 1]
  <1>1. n \in Nat
    BY FS_CardinalityType
  <1>2. \A x \in S : IsFiniteSet(Before(x)) /\ Cardinality(Before(x)) \in Nat
    <2>1. ASSUME NEW x \in S
          PROVE  IsFiniteSet(Before(x))
      <3>1. Before(x) \in SUBSET S
        OBVIOUS
      <3>2. QED
        BY <3>1, FS_Subset
    <2>2. QED
      BY <2>1, FS_CardinalityType
  <1>3. ASSUME NEW x \in S
        PROVE  rank[x] \in 1..n
    <2>1. x \notin Before(x) /\ Before(x) \cup {x} \in SUBSET S
      OBVIOUS
    <2>2. Cardinality(Before(x) \cup {x}) = Cardinality(Before(x)) + 1
      BY <1>2, <2>1, FS_AddElement
    <2>3. Cardinality(Before(x) \cup {x}) <= n
      BY <2>1, FS_Subset
    <2>4. rank[x] = Cardinality(Before(x)) + 1
      OBVIOUS
    <2> HIDE DEF Before, rank
    <2>5. QED
      BY <1>1, <1>2, <2>2, <2>3, <2>4
  <1>4. ASSUME NEW x \in S, NEW y \in S, <<x, y>> \in R
        PROVE  rank[x] < rank[y]
    <2>1. x \notin Before(x) /\ Before(x) \cup {x} \in SUBSET Before(y)
      BY <1>4
    <2>2. Cardinality(Before(x) \cup {x}) = Cardinality(Before(x)) + 1
      BY <1>2, <2>1, FS_AddElement
    <2>3. Cardinality(Before(x) \cup {x}) <= Cardinality(Before(y))
      <3> HIDE DEF Before
      <3>1. QED
        BY <1>2, <2>1, FS_Subset
    <2>4. rank[x] = Cardinality(Before(x)) + 1 /\ rank[y] = Cardinality(Before(y)) + 1
      OBVIOUS
    <2> HIDE DEF Before, rank
    <2>5. QED
      BY <1>1, <1>2, <2>2, <2>3, <2>4
  <1>5. rank \in [S -> 1..n]
    <2>1. rank = [x \in S |-> rank[x]]
      OBVIOUS
    <2> HIDE DEF rank
    <2>2. QED
      BY <1>3, <2>1
  <1> HIDE DEF rank, Before, n
  <1>6. ASSUME NEW x \in S, NEW y \in S, x # y
        PROVE  rank[x] # rank[y]
    <2>1. rank[x] < rank[y] \/ rank[y] < rank[x]
      BY <1>4, <1>6
    <2>2. QED
      BY <1>1, <1>3, <2>1
  <1>7. \A i \in 1..n : \E x \in S : rank[x] = i
    <2>1. rank \in Injection(S, 1..n)
      BY <1>5, <1>6, SurjectionFacts
    <2>2. IsFiniteSet(1..n) /\ Cardinality(1..n) = n
      BY <1>1, FS_Interval
    <2>3. rank \in Surjection(S, 1..n)
      BY <2>1, <2>2, FS_Injection DEF n
    <2>4. QED
      BY <2>3 DEF Surjection
  <1> DEFINE s == [i \in 1..n |-> CHOOSE x \in S : rank[x] = i]
  <1>8. \A i \in 1..n : s[i] \in S /\ rank[s[i]] = i
    BY <1>7
  <1>9. s \in [1..n -> S]
    <2>1. s = [i \in 1..n |-> s[i]]
      OBVIOUS
    <2> HIDE DEF s
    <2>2. QED
      BY <1>8, <2>1
  <1>10. ASSUME NEW i \in 1..n, NEW j \in 1..n, i < j
         PROVE  <<s[i], s[j]>> \in R
    <2> HIDE DEF s
    <2>1. s[i] \in S /\ s[j] \in S /\ rank[s[i]] = i /\ rank[s[j]] = j
      BY <1>8
    <2>2. s[i] # s[j]
      BY <1>1, <1>10, <2>1
    <2>3. <<s[j], s[i]>> \notin R
      <3>1. SUFFICES ASSUME <<s[j], s[i]>> \in R
                     PROVE  FALSE
        OBVIOUS
      <3>2. rank[s[j]] < rank[s[i]]
        BY <1>4, <2>1, <3>1
      <3>3. QED
        BY <1>1, <1>10, <2>1, <3>2
    <2>4. QED
      BY <2>1, <2>2, <2>3
  <1>11. QED
    BY <1>9, <1>10 DEF n

\* Scores are numbers.
LEMMA ScoreFacts ==
    ASSUME NEW f \in [Provider -> Handle], NEW among \in SUBSET Provider, NEW p \in among
    PROVE  Score(f, among, p) \in Int
  <1> DEFINE known == {f[q].free : q \in {r \in among : f[r].free # Unlimited}}
  <1>1. \A q \in Provider : /\ f[q].tier \in Tier /\ f[q].reliability \in 0..10
                            /\ f[q].free \in Nat \cup {Unlimited}
    BY DEF Handle
  <1>2. MaxFree(f, among) \in Nat
    <2>1. CASE known \subseteq {0}
      BY <2>1 DEF MaxFree
    <2>2. CASE ~ (known \subseteq {0})
      <3>1. known \subseteq Nat /\ known # {}
        BY <1>1, <2>2
      <3>2. IsFiniteSet(known)
        <4> DEFINE D == {r \in among : f[r].free # Unlimited}
                   g == [r \in D |-> f[r].free]
        <4>1. IsFiniteSet(D)
          <5>1. D \in SUBSET Provider
            OBVIOUS
          <5>2. QED
            BY <5>1, PlacementAssumption, FS_Subset DEF PlacementAssumption
        <4>2. g \in [D -> known] /\ \A t \in known : \E x \in D : g[x] = t
          OBVIOUS
        <4>3. g \in Surjection(D, known)
          <5> HIDE DEF g, D, known
          <5>1. QED
            BY <4>2, SurjectionFacts
        <4> HIDE DEF g, D, known
        <4>4. QED
          BY <4>1, <4>3, FS_Surjection
      <3>3. PICK b \in Nat : \A x \in known : x <= b
        <4> HIDE DEF known
        <4>1. QED
          BY <3>1, <3>2, Bounded
      <3>4. \E m \in known : \A x \in known : m >= x
        <4> HIDE DEF known
        <4>1. known \in SUBSET (0..b)
          BY <3>1, <3>3
        <4>2. PICK m \in known : \A x \in known : x <= m
          BY <3>1, <4>1, Greatest
        <4>3. QED
          BY <3>1, <4>2
      <3>5. (CHOOSE m \in known : \A x \in known : m >= x) \in known
        <4> HIDE DEF known
        <4>1. QED
          BY <3>4
      <3>6. MaxFree(f, among) = CHOOSE m \in known : \A x \in known : m >= x
        BY <2>2 DEF MaxFree
      <3> HIDE DEF known
      <3>7. QED
        BY <3>1, <3>5, <3>6
    <2>3. QED
      BY <2>1, <2>2
  <1> DEFINE most == MaxFree(f, among)
             free == IF f[p].free = Unlimited \/ \A q \in among : f[q].free \in {0, Unlimited}
                     THEN most ELSE f[p].free
  <1>3. free \in Nat
    BY <1>1, <1>2
  <1>4. LatencyFit[f[p].tier] \in Nat
    BY <1>1 DEF LatencyFit, Tier
  <1>5. f[p].reliability \in Nat
    BY <1>1
  <1>6. Score(f, among, p) = 50 * f[p].reliability * most + 300 * free + 20 * LatencyFit[f[p].tier] * most
    BY DEF Score
  <1> HIDE DEF most, free
  <1>7. most \in Nat
    BY <1>2 DEF most
  <1>8. QED
    BY <1>3, <1>4, <1>5, <1>6, <1>7

\* A set of numbers has a least.
LEMMA Least ==
    ASSUME NEW S \in SUBSET Nat, S # {}
    PROVE  \E m \in S : \A q \in S : m <= q
  <1>1. PICK N \in S : TRUE
    OBVIOUS
  <1> DEFINE T == {N - q : q \in {r \in S : r <= N}}
  <1>2. N \in Nat /\ T \in SUBSET (0..N) /\ T # {}
    OBVIOUS
  <1>3. PICK g \in T : \A q \in T : q <= g
    <2> HIDE DEF T
    <2>1. QED
      BY <1>2, Greatest
  <1>4. PICK m \in S : m <= N /\ g = N - m
    BY <1>3
  <1>5. ASSUME NEW q \in S
        PROVE  m <= q
    <2>1. CASE q <= N
      <3>1. N - q \in T
        BY <2>1
      <3>2. N - q <= N - m
        BY <1>3, <1>4, <3>1
      <3>3. QED
        BY <1>2, <1>4, <2>1, <3>2
    <2>2. CASE ~ (q <= N)
      BY <1>2, <1>4, <2>2
    <2>3. QED
      BY <2>1, <2>2
  <1>6. QED
    BY <1>5

\* Numbering a finite set without repeats up to its size numbers all of it.
LEMMA OntoByCount ==
    ASSUME NEW T, IsFiniteSet(T), NEW g \in [1..Cardinality(T) -> T],
           \A i, j \in 1..Cardinality(T) : g[i] = g[j] => i = j
    PROVE  \A x \in T : \E i \in 1..Cardinality(T) : g[i] = x
  <1> DEFINE N == Cardinality(T)
             S == 1..N
  <1>1. IsFiniteSet(S) /\ Cardinality(S) = N
    BY FS_CardinalityType, FS_Interval
  <1>2. g \in [S -> T] /\ \A i, j \in S : g[i] = g[j] => i = j
    OBVIOUS
  <1> HIDE DEF S
  <1>3. g \in Injection(S, T)
    BY <1>2, SurjectionFacts
  <1>4. g \in Surjection(S, T)
    BY <1>1, <1>3, FS_Injection
  <1>5. QED
    BY <1>4 DEF Surjection, S

\* The ranking of candidates is a strict order, so it is a list of them all.
LEMMA RankedFacts ==
    ASSUME NEW f \in [Provider -> Handle], NEW policy \in Policy, NEW among \in SUBSET Provider,
           NEW load \in [Provider -> Nat]
    PROVE  /\ Ranked(f, policy, among, load) \in Seq(among)
           /\ \A x \in among : \E i \in 1..Len(Ranked(f, policy, among, load)) :
                Ranked(f, policy, among, load)[i] = x
  <1> DEFINE ranked == Ranked(f, policy, among, load)
             n == Cardinality(among)
             Before(p, q) == Precedes(f, policy, among, load, p, q)
             R == {pair \in among \X among : Before(pair[1], pair[2])}
             Pin(r) == IF r \in policy.pinned THEN 0 ELSE 1
             sc(p) == Score(f, among, p)
  <1>1. IsFiniteSet(among) /\ n \in Nat
    BY FS_Subset, FS_CardinalityType, PlacementAssumption DEF PlacementAssumption
  <1>2. ASSUME NEW p \in among
        PROVE  Pin(p) \in Int /\ load[p] \in Int /\ sc(p) \in Int /\ p \in Int
    BY ScoreFacts, PlacementAssumption DEF PlacementAssumption
  <1>3. \A p, q \in among :
            Before(p, q) <=> \/ Pin(p) < Pin(q)
                             \/ Pin(p) = Pin(q) /\ load[p] < load[q]
                             \/ Pin(p) = Pin(q) /\ load[p] = load[q] /\ sc(p) > sc(q)
                             \/ Pin(p) = Pin(q) /\ load[p] = load[q] /\ sc(p) = sc(q) /\ p < q
    BY DEF Precedes
  <1> HIDE DEF Before, Pin, sc
  <1>4. \A x \in among : ~ Before(x, x)
    BY <1>2, <1>3
  <1>5. ASSUME NEW x \in among, NEW y \in among, NEW z \in among, Before(x, y), Before(y, z)
        PROVE  Before(x, z)
    <2>1. /\ Pin(x) \in Int /\ load[x] \in Int /\ sc(x) \in Int /\ x \in Int
          /\ Pin(y) \in Int /\ load[y] \in Int /\ sc(y) \in Int /\ y \in Int
          /\ Pin(z) \in Int /\ load[z] \in Int /\ sc(z) \in Int /\ z \in Int
      BY <1>2
    <2>2. QED
      BY <1>3, <1>5, <2>1
  <1>6. ASSUME NEW x \in among, NEW y \in among, x # y
        PROVE  Before(x, y) \/ Before(y, x)
    <2>1. /\ Pin(x) \in Int /\ load[x] \in Int /\ sc(x) \in Int /\ x \in Int
          /\ Pin(y) \in Int /\ load[y] \in Int /\ sc(y) \in Int /\ y \in Int
      BY <1>2
    <2>2. QED
      BY <1>3, <1>6, <2>1
  <1>7. \A x, y \in among : <<x, y>> \in R <=> Before(x, y)
    OBVIOUS
  <1> HIDE DEF R
  <1>8. PICK s \in [1..n -> among] : \A i, j \in 1..n : i < j => <<s[i], s[j]>> \in R
    <2>1. /\ \A x \in among : <<x, x>> \notin R
          /\ \A x, y, z \in among : <<x, y>> \in R /\ <<y, z>> \in R => <<x, z>> \in R
          /\ \A x, y \in among : x # y => <<x, y>> \in R \/ <<y, x>> \in R
      BY <1>4, <1>5, <1>6, <1>7
    <2>2. QED
      BY <1>1, <2>1, SortedExists
  <1>9. \A i, j \in 1..n : i # j => s[i] # s[j]
    <2>1. SUFFICES ASSUME NEW i \in 1..n, NEW j \in 1..n, i # j, s[i] = s[j]
                   PROVE  FALSE
      OBVIOUS
    <2>2. i < j \/ j < i
      BY <1>1, <2>1
    <2>3. <<s[i], s[i]>> \in R
      BY <1>8, <2>1, <2>2
    <2>4. QED
      BY <1>4, <1>7, <2>3
  <1>10. DOMAIN s = 1..n /\ s \in SetToSeqs(among)
    BY <1>8, <1>9 DEF SetToSeqs
  <1>11. \A i, j \in DOMAIN s : i < j => Before(s[i], s[j])
    BY <1>7, <1>8, <1>10
  <1>12. ranked \in SetToSeqs(among)
    <2>1. ranked = CHOOSE t \in SetToSeqs(among) : \A i, j \in DOMAIN t : i < j => Before(t[i], t[j])
      BY DEF Ranked, Before
    <2>2. QED
      BY <1>10, <1>11, <2>1
  <1> HIDE DEF ranked
  <1>13. ranked \in [1..n -> among] /\ \A i, j \in 1..n : i # j => ranked[i] # ranked[j]
    BY <1>12 DEF SetToSeqs
  <1>14. ranked \in Seq(among) /\ Len(ranked) = n
    <2> HIDE DEF n
    <2>1. QED
      BY <1>1, <1>13
  <1>15. \A x \in among : \E i \in 1..n : ranked[i] = x
    <2>1. \A i, j \in 1..n : ranked[i] = ranked[j] => i = j
      BY <1>13
    <2>2. ranked \in [1..n -> among]
      BY <1>13
    <2>3. QED
      BY <1>1, <2>1, <2>2, OntoByCount
  <1>16. QED
    BY <1>14, <1>15 DEF ranked

\* select_targets takes candidates only, and stops where it is durable, at the
\* ceiling, or when there is nobody left.
LEMMA SelectFacts ==
    ASSUME NEW f \in [Provider -> Handle], NEW policy \in Policy, NEW barred \in SUBSET Provider,
           NEW load \in [Provider -> Nat],
           NEW t, t = SelectTargets(f, policy, 1, barred, load), t # Failed
    PROVE  LET among == Candidates(f, policy, 1, barred) IN
           /\ t \in Seq(among)
           /\ \/ IsDurable(f, t)
              \/ Len(t) = policy.replicas + MaxExtra
              \/ \A x \in among : x \in Range(t)
  <1> DEFINE among == Candidates(f, policy, 1, barred)
             ranked == Ranked(f, policy, among, load)
             N == Len(ranked)
             stops == {m \in 0..N : m = N \/ IsEnough(f, policy, SubSeq(ranked, 1, m))}
             m == CHOOSE i \in stops : \A j \in stops : i <= j
  <1>1. among \in SUBSET Provider /\ policy.replicas \in Nat
    BY DEF Candidates, Policy
  <1>2. t = IF m < policy.replicas THEN Failed ELSE SubSeq(ranked, 1, m)
    BY DEF SelectTargets
  <1> HIDE DEF among
  <1>3. ranked \in Seq(among) /\ \A x \in among : \E i \in 1..N : ranked[i] = x
    BY <1>1, RankedFacts
  <1> HIDE DEF ranked
  <1>4. N \in Nat /\ \A i \in 1..N : ranked[i] \in among
    BY <1>3, LenProperties, ElementOfSeq
  <1>5. stops \in SUBSET Nat /\ N \in stops
    BY <1>4
  <1>6. m \in stops /\ \A j \in stops : m <= j
    <2> HIDE DEF stops
    <2>1. \E i \in stops : \A j \in stops : i <= j
      BY <1>5, Least
    <2>2. QED
      BY <2>1
  <1>7. m \in 0..N /\ (m = N \/ IsEnough(f, policy, SubSeq(ranked, 1, m)))
    BY <1>6
  <1>8. ASSUME NEW i \in 0..N
        PROVE  SubSeq(ranked, 1, i) \in Seq(among) /\ Len(SubSeq(ranked, 1, i)) = i
    <2>1. \A k \in 1..i : ranked[k] \in among
      BY <1>4
    <2>2. /\ SubSeq(ranked, 1, i) \in Seq(among)
          /\ Len(SubSeq(ranked, 1, i)) = IF 1 <= i THEN i - 1 + 1 ELSE 0
      BY <2>1, SubSeqProperties
    <2>3. QED
      BY <1>4, <2>2
  <1> HIDE DEF m
  <1>9. t = SubSeq(ranked, 1, m) /\ t \in Seq(among) /\ Len(t) = m
    BY <1>2, <1>7, <1>8
  <1>10. CASE m = N
    <2>1. t = ranked
      BY <1>3, <1>9, <1>10, SubSeqFull
    <2>2. \A x \in among : x \in Range(t)
      BY <1>3, <2>1, LenProperties DEF Range
    <2>3. QED
      BY <1>9, <2>2 DEF among
  <1>11. CASE m # N /\ ~ IsDurable(f, t)
    <2>1. m >= policy.replicas + MaxExtra
      BY <1>7, <1>9, <1>11 DEF IsEnough
    <2>2. CASE m > policy.replicas + MaxExtra
      <3>1. m - 1 \in 0..N /\ m - 1 >= policy.replicas + MaxExtra
        BY <1>1, <1>4, <1>7, <2>2 DEF MaxExtra
      <3>2. IsEnough(f, policy, SubSeq(ranked, 1, m - 1))
        BY <1>8, <3>1 DEF IsEnough
      <3>3. m - 1 \in stops
        BY <3>1, <3>2
      <3>4. QED
        BY <1>4, <1>6, <1>7, <3>3
    <2>3. CASE ~ (m > policy.replicas + MaxExtra)
      <3>1. m = policy.replicas + MaxExtra
        BY <1>1, <1>4, <1>7, <2>1, <2>3 DEF MaxExtra
      <3>2. QED
        BY <1>9, <3>1 DEF among
    <2>4. QED
      BY <2>2, <2>3
  <1>12. QED
    BY <1>9, <1>10, <1>11 DEF among

----------------------------------------------------------------------------
(* The groups of a file that is spread.                                    *)

\* Dealing one group more, and the recursion of select_spread_groups.
Chunks(policy) == IF policy.minSpread <= 1 THEN 1 ELSE policy.minSpread
Barred(policy, load) == IF Chunks(policy) = 1 THEN {} ELSE AtCap(load, ResolvedSpreadCap(policy))
DealTo(f, policy, s) ==
    LET targets == SelectTargets(f, policy, 1, Barred(policy, s.load), s.load) IN
    IF targets = Failed THEN Failed
    ELSE [load |-> [p \in Provider |-> s.load[p] + (IF p \in Range(targets) THEN 1 ELSE 0)],
          groups |-> Append(s.groups, targets)]
IsDeal(after, f, policy, n) ==
    after = [i \in 0..n |-> IF i = 0 THEN [load |-> NoLoad, groups |-> <<>>]
                            ELSE IF after[i - 1] = Failed THEN Failed
                            ELSE DealTo(f, policy, after[i - 1])]

\* Groups dealt so far: the load counts them, and each is settled.
HeldBy(p, groups, i) == {j \in 1..i : p \in Range(groups[j])}
Settled(f, policy, groups, i) ==
    LET g == groups[i] IN
    \/ IsDurable(f, g)
    \/ Len(g) = policy.replicas + MaxExtra
    \/ \A p \in Candidates(f, policy, 1, Range(g)) :
          policy.minSpread > 1 /\ Cardinality(HeldBy(p, groups, i - 1)) >= ResolvedSpreadCap(policy)
Dealt(f, policy, s, i) ==
    /\ s.load \in [Provider -> Nat] /\ s.groups \in Seq(Seq(Provider)) /\ Len(s.groups) = i
    /\ \A p \in Provider : s.load[p] = Cardinality(HeldBy(p, s.groups, i))
    /\ policy.minSpread > 1 => \A p \in Provider : s.load[p] <= ResolvedSpreadCap(policy)
    /\ \A j \in 1..i : Settled(f, policy, s.groups, j)

\* SelectSpreadGroups is what its recursion says.
LEMMA DealFacts ==
    ASSUME NEW f, NEW policy, Chunks(policy) \in Nat
    PROVE  \E after : /\ IsDeal(after, f, policy, Chunks(policy))
                      /\ SelectSpreadGroups(f, policy, 1)
                            = IF after[Chunks(policy)] = Failed THEN Failed
                              ELSE after[Chunks(policy)].groups
  <1> DEFINE S == {n \in Nat : \E after : IsDeal(after, f, policy, n)}
             first == [load |-> NoLoad, groups |-> <<>>]
             next(s) == IF s = Failed THEN Failed ELSE DealTo(f, policy, s)
  <1>1. \A after, n : IsDeal(after, f, policy, n) <=>
            after = [i \in 0..n |-> IF i = 0 THEN first ELSE next(after[i - 1])]
    BY DEF IsDeal
  <1> HIDE DEF first, next
  <1>2. 0 \in S
    <2> DEFINE after == [i \in 0..0 |-> first]
    <2>1. after = [i \in 0..0 |-> IF i = 0 THEN first ELSE next(after[i - 1])]
      OBVIOUS
    <2>2. IsDeal(after, f, policy, 0)
      BY <1>1, <2>1
    <2>3. QED
      BY <2>2
  <1>3. ASSUME NEW n \in S
        PROVE  n + 1 \in S
    <2>1. PICK g : IsDeal(g, f, policy, n)
      OBVIOUS
    <2>2. n \in Nat /\ \A i \in 0..n : g[i] = IF i = 0 THEN first ELSE next(g[i - 1])
      BY <1>1, <2>1
    <2> DEFINE h == [i \in 0..n + 1 |-> IF i = n + 1 THEN next(g[n]) ELSE g[i]]
    <2>3. ASSUME NEW i \in 0..n + 1
          PROVE  h[i] = IF i = 0 THEN first ELSE next(h[i - 1])
      <3>1. CASE i = n + 1
        <4>1. i # 0 /\ i - 1 = n /\ n # n + 1 /\ n \in 0..n + 1
          BY <2>2, <3>1
        <4>2. h[i - 1] = g[n]
          BY <4>1
        <4>3. h[i] = next(g[n])
          BY <3>1
        <4> HIDE DEF h
        <4>4. QED
          BY <4>1, <4>2, <4>3
      <3>2. CASE i # n + 1
        <4>1. i \in 0..n /\ h[i] = g[i]
          BY <2>2, <3>2
        <4>2. i # 0 => i - 1 \in 0..n + 1 /\ i - 1 # n + 1 /\ h[i - 1] = g[i - 1]
          BY <2>2, <4>1
        <4> HIDE DEF h
        <4>3. QED
          BY <2>2, <4>1, <4>2
      <3>3. QED
        BY <3>1, <3>2
    <2>4. h = [i \in 0..n + 1 |-> h[i]]
      OBVIOUS
    <2> HIDE DEF h
    <2>5. h = [i \in 0..n + 1 |-> IF i = 0 THEN first ELSE next(h[i - 1])]
      BY <2>3, <2>4
    <2>6. IsDeal(h, f, policy, n + 1) /\ n + 1 \in Nat
      BY <1>1, <2>2, <2>5
    <2>7. QED
      BY <2>6
  <1>4. S = Nat
    <2>1. S \in SUBSET Nat
      OBVIOUS
    <2> HIDE DEF S
    <2>2. QED
      BY <1>2, <1>3, <2>1, NatsByInduction
  <1>5. \E after : IsDeal(after, f, policy, Chunks(policy))
    BY <1>4
  <1> DEFINE after == CHOOSE after : IsDeal(after, f, policy, Chunks(policy))
  <1>6. IsDeal(after, f, policy, Chunks(policy))
    BY <1>5
  <1>7. SelectSpreadGroups(f, policy, 1)
            = IF after[Chunks(policy)] = Failed THEN Failed ELSE after[Chunks(policy)].groups
    BY DEF SelectSpreadGroups, IsDeal, DealTo, Chunks, Barred
  <1>8. QED
    BY <1>6, <1>7

\* One group more is dealt to those below their cap.
LEMMA DealSteps ==
    ASSUME NEW f \in [Provider -> Handle], NEW policy \in Policy, NEW i \in Nat,
           policy.minSpread > 1 => ResolvedSpreadCap(policy) \in Nat,
           NEW s, Dealt(f, policy, s, i), DealTo(f, policy, s) # Failed
    PROVE  Dealt(f, policy, DealTo(f, policy, s), i + 1)
  <1> DEFINE barred == Barred(policy, s.load)
             t == SelectTargets(f, policy, 1, barred, s.load)
             among == Candidates(f, policy, 1, barred)
             load == [p \in Provider |-> s.load[p] + (IF p \in Range(t) THEN 1 ELSE 0)]
             groups == Append(s.groups, t)
             new == DealTo(f, policy, s)
             cap == ResolvedSpreadCap(policy)
  <1>1. /\ s.load \in [Provider -> Nat] /\ s.groups \in Seq(Seq(Provider)) /\ Len(s.groups) = i
        /\ \A p \in Provider : s.load[p] = Cardinality(HeldBy(p, s.groups, i))
        /\ policy.minSpread > 1 => \A p \in Provider : s.load[p] <= cap
        /\ \A j \in 1..i : Settled(f, policy, s.groups, j)
    BY DEF Dealt
  <1>2. t # Failed /\ new.load = load /\ new.groups = groups
    BY DEF DealTo
  <1>3. barred \in SUBSET Provider /\ policy.minSpread \in Nat
    BY DEF Barred, AtCap, Policy
  <1>4. \A p \in barred : policy.minSpread > 1 /\ s.load[p] >= cap
    BY <1>3 DEF Barred, AtCap, Chunks
  <1>5. \A p \in Provider \ barred : policy.minSpread > 1 => ~ (s.load[p] >= cap)
    BY <1>3 DEF Barred, AtCap, Chunks
  <1>6. among \in SUBSET Provider
    BY DEF Candidates
  <1>7. /\ t \in Seq(among)
        /\ IsDurable(f, t) \/ Len(t) = policy.replicas + MaxExtra \/ \A x \in among : x \in Range(t)
    <2> HIDE DEF barred
    <2>1. QED
      BY <1>1, <1>2, <1>3, SelectFacts
  <1>8. Range(t) \subseteq among /\ t \in Seq(Provider)
    <2> HIDE DEF among, t
    <2>1. \A k \in 1..Len(t) : t[k] \in among
      BY <1>7, ElementOfSeq
    <2>2. DOMAIN t = 1..Len(t)
      BY <1>7, LenProperties
    <2>3. Len(t) \in Nat /\ t = [k \in 1..Len(t) |-> t[k]]
      BY <1>7, LenProperties
    <2>4. QED
      BY <1>6, <2>1, <2>2, <2>3 DEF Range
  <1>9. among \cap barred = {}
    BY DEF Candidates
  <1>10. /\ groups \in Seq(Seq(Provider)) /\ Len(groups) = i + 1 /\ groups[i + 1] = t
         /\ \A j \in 1..i : groups[j] = s.groups[j]
    <2> HIDE DEF t
    <2>1. QED
      BY <1>1, <1>8, AppendProperties
  <1> HIDE DEF t, barred, new, groups
  <1>11. ASSUME NEW p \in Provider, NEW j \in 0..i
         PROVE  HeldBy(p, groups, j) = HeldBy(p, s.groups, j)
    <2>1. \A k \in 1..j : k \in 1..i
      OBVIOUS
    <2>2. QED
      BY <1>10, <2>1 DEF HeldBy
  <1>12. ASSUME NEW p \in Provider
         PROVE  load[p] = Cardinality(HeldBy(p, groups, i + 1))
    <2> DEFINE old == HeldBy(p, groups, i)
    <2>1. old = HeldBy(p, s.groups, i)
      BY <1>11
    <2>2. old \in SUBSET (1..i) /\ i + 1 \notin old
      BY DEF HeldBy
    <2>3. IsFiniteSet(1..i)
      BY FS_Interval
    <2>4. IsFiniteSet(old)
      <3> HIDE DEF old
      <3>1. QED
        BY <2>2, <2>3, FS_Subset
    <2>5. HeldBy(p, groups, i + 1) = IF p \in Range(t) THEN old \cup {i + 1} ELSE old
      <3>1. 1..i + 1 = (1..i) \cup {i + 1}
        OBVIOUS
      <3>2. QED
        BY <1>10, <3>1 DEF HeldBy
    <2>6. Cardinality(old \cup {i + 1}) = Cardinality(old) + 1
      <3> HIDE DEF old
      <3>1. QED
        BY <2>2, <2>4, FS_AddElement
    <2>7. Cardinality(old) = s.load[p] /\ s.load[p] \in Nat
      BY <1>1, <2>1
    <2> HIDE DEF old
    <2>8. load[p] = s.load[p] + (IF p \in Range(t) THEN 1 ELSE 0)
      OBVIOUS
    <2> HIDE DEF load
    <2>9. QED
      BY <2>5, <2>6, <2>7, <2>8
  <1>13. load \in [Provider -> Nat]
    BY <1>1
  <1>14. ASSUME policy.minSpread > 1, NEW p \in Provider
         PROVE  load[p] <= cap
    <2>1. load[p] = s.load[p] + (IF p \in Range(t) THEN 1 ELSE 0) /\ s.load[p] \in Nat /\ cap \in Nat
      BY <1>1, <1>14
    <2>2. s.load[p] <= cap
      BY <1>1, <1>14
    <2>3. p \in Range(t) => ~ (s.load[p] >= cap)
      BY <1>5, <1>8, <1>9, <1>14
    <2> HIDE DEF load, cap
    <2>4. QED
      BY <2>1, <2>2, <2>3
  <1>15. ASSUME NEW j \in 1..i + 1
         PROVE  Settled(f, policy, groups, j)
    <2>1. CASE j \in 1..i
      <3>1. groups[j] = s.groups[j]
        BY <1>10, <2>1
      <3>2. \A p \in Provider : HeldBy(p, groups, j - 1) = HeldBy(p, s.groups, j - 1)
        <4>1. j - 1 \in 0..i
          BY <2>1
        <4>2. QED
          BY <1>11, <4>1
      <3>3. Settled(f, policy, s.groups, j)
        BY <1>1, <2>1
      <3>4. \A barring : Candidates(f, policy, 1, barring) \subseteq Provider
        BY DEF Candidates
      <3>5. QED
        BY <3>1, <3>2, <3>3, <3>4 DEF Settled
    <2>2. CASE j = i + 1
      <3>1. groups[j] = t /\ j - 1 = i
        BY <1>10, <2>2
      <3>2. ASSUME \A x \in among : x \in Range(t), NEW p \in Candidates(f, policy, 1, Range(t))
            PROVE  policy.minSpread > 1 /\ Cardinality(HeldBy(p, groups, i)) >= cap
        <4>1. p \in Provider /\ p \notin Range(t)
          BY DEF Candidates
        <4>2. p \in barred
          BY <3>2, <4>1 DEF Candidates
        <4>3. Cardinality(HeldBy(p, groups, i)) = s.load[p]
          <5>1. i \in 0..i
            OBVIOUS
          <5>2. HeldBy(p, groups, i) = HeldBy(p, s.groups, i)
            BY <1>11, <4>1, <5>1
          <5>3. QED
            BY <1>1, <4>1, <5>2
        <4>4. QED
          BY <1>4, <4>2, <4>3
      <3>3. QED
        BY <1>7, <3>1, <3>2 DEF Settled
    <2>3. QED
      BY <2>1, <2>2
  <1>16. QED
    <2> HIDE DEF load
    <2>1. QED
      BY <1>2, <1>10, <1>12, <1>13, <1>14, <1>15 DEF Dealt, new

\* The groups of a file that is not erasure-coded: one for each chunk, nobody
\* in more of them than the cap, and each one settled.
LEMMA GroupFacts ==
    ASSUME NEW f \in [Provider -> Handle], NEW policy \in Policy, policy.scheme # "ec",
           Groups(f, policy, 1) # Failed
    PROVE  LET groups == Groups(f, policy, 1) IN
           /\ DOMAIN groups = 1..Chunks(policy)
           /\ \A i \in 1..Chunks(policy) : Settled(f, policy, groups, i)
           /\ policy.minSpread > 1 =>
                 /\ policy.minSpread \in Nat /\ ResolvedSpreadCap(policy) \in 1..policy.minSpread - 1
                 /\ \A p \in Provider :
                       Cardinality(HeldBy(p, groups, Chunks(policy))) <= ResolvedSpreadCap(policy)
  <1> DEFINE n == Chunks(policy)
  <1>1. IsValid(policy) /\ Groups(f, policy, 1) = SelectSpreadGroups(f, policy, 1)
    BY DEF Groups
  <1>2. policy.minSpread \in Nat /\ n \in Nat
    BY DEF Policy, Chunks
  <1>3. policy.minSpread > 1 => ResolvedSpreadCap(policy) \in 1..policy.minSpread - 1
    BY <1>1 DEF IsValid
  <1>4. policy.minSpread > 1 => ResolvedSpreadCap(policy) \in Nat
    BY <1>3
  <1>5. PICK after : /\ IsDeal(after, f, policy, n)
                     /\ SelectSpreadGroups(f, policy, 1)
                           = IF after[n] = Failed THEN Failed ELSE after[n].groups
    BY <1>2, DealFacts
  <1>6. after[0] = [load |-> NoLoad, groups |-> <<>>]
    <2> HIDE DEF n
    <2>1. 0 \in 0..n
      BY <1>2
    <2>2. QED
      BY <1>5, <2>1 DEF IsDeal
  <1>7. \A i \in 0..n : i # 0 =>
            after[i] = IF after[i - 1] = Failed THEN Failed ELSE DealTo(f, policy, after[i - 1])
    BY <1>5 DEF IsDeal
  <1> HIDE DEF n
  <1> DEFINE S == {i \in Nat : i <= n /\ after[i] # Failed => Dealt(f, policy, after[i], i)}
  <1>8. 0 \in S
    <2>1. PICK s : s = after[0] /\ s.load = NoLoad /\ s.groups = <<>>
      BY <1>6
    <2>2. NoLoad \in [Provider -> Nat] /\ \A p \in Provider : NoLoad[p] = 0
      BY DEF NoLoad
    <2>3. <<>> \in Seq(Seq(Provider)) /\ Len(<<>>) = 0
      BY EmptySeq
    <2>4. \A p \in Provider : HeldBy(p, <<>>, 0) = {}
      BY DEF HeldBy
    <2>5. Cardinality({}) = 0
      BY FS_EmptySet
    <2>6. policy.minSpread > 1 => 0 <= ResolvedSpreadCap(policy)
      BY <1>4
    <2>7. Dealt(f, policy, s, 0)
      <3>1. \A j \in 1..0 : Settled(f, policy, s.groups, j)
        OBVIOUS
      <3>2. \A p \in Provider : s.load[p] = 0 /\ HeldBy(p, s.groups, 0) = {}
        BY <2>1, <2>2, <2>4
      <3>3. s.load \in [Provider -> Nat] /\ s.groups \in Seq(Seq(Provider)) /\ Len(s.groups) = 0
        BY <2>1, <2>2, <2>3
      <3>4. QED
        BY <2>5, <2>6, <3>1, <3>2, <3>3 DEF Dealt
    <2>8. QED
      BY <2>1, <2>7
  <1>9. ASSUME NEW i \in S
        PROVE  i + 1 \in S
    <2>1. SUFFICES ASSUME i + 1 <= n, after[i + 1] # Failed
                   PROVE  Dealt(f, policy, after[i + 1], i + 1)
      OBVIOUS
    <2>2. i + 1 \in 0..n /\ i + 1 # 0 /\ (i + 1) - 1 = i /\ i <= n /\ i \in Nat
      BY <1>2, <2>1
    <2>3. after[i + 1] = IF after[i] = Failed THEN Failed ELSE DealTo(f, policy, after[i])
      BY <1>7, <2>2
    <2>4. after[i] # Failed /\ after[i + 1] = DealTo(f, policy, after[i])
      BY <2>1, <2>3
    <2>5. Dealt(f, policy, after[i], i)
      BY <2>2, <2>4
    <2>6. QED
      BY <1>4, <2>1, <2>2, <2>4, <2>5, DealSteps
  <1>10. S = Nat
    <2>1. S \in SUBSET Nat
      OBVIOUS
    <2> HIDE DEF S
    <2>2. QED
      BY <1>8, <1>9, <2>1, NatsByInduction
  <1>11. after[n] # Failed /\ Groups(f, policy, 1) = after[n].groups
    BY <1>1, <1>5 DEF n
  <1>12. Dealt(f, policy, after[n], n)
    BY <1>2, <1>10, <1>11
  <1> DEFINE groups == Groups(f, policy, 1)
  <1>13. /\ groups \in Seq(Seq(Provider)) /\ Len(groups) = n
         /\ \A i \in 1..n : Settled(f, policy, groups, i)
         /\ policy.minSpread > 1 =>
               \A p \in Provider : Cardinality(HeldBy(p, groups, n)) <= ResolvedSpreadCap(policy)
    <2> HIDE DEF groups
    <2>1. groups = after[n].groups
      BY <1>11 DEF groups
    <2>2. QED
      BY <1>12, <2>1 DEF Dealt
  <1>14. DOMAIN groups = 1..n
    <2> HIDE DEF groups
    <2>1. QED
      BY <1>13, LenProperties
  <1>15. QED
    BY <1>2, <1>3, <1>13, <1>14 DEF n

----------------------------------------------------------------------------
(* What placement promises.                                                *)

\* select_spread_groups leaves no provider with every chunk of a file, nor with
\* more of them than the cap, whatever is moved, removed or set afterwards.
THEOREM NobodyHoldsAll == Spec => []NobodyHoldsWhole
  <1>1. ASSUME ArchiveInv
        PROVE  NobodyHoldsWhole
    <2> SUFFICES ASSUME NEW path \in Present,
                        tree[path].policy.scheme # "ec", tree[path].policy.minSpread > 1,
                        NEW p \in Provider
                 PROVE  LET groups == tree[path].groups
                            held == {i \in DOMAIN groups : p \in Range(groups[i])}
                        IN  held # DOMAIN groups
                            /\ Cardinality(held) <= ResolvedSpreadCap(tree[path].policy)
      BY DEF NobodyHoldsWhole
    <2> DEFINE policy == tree[path].policy
               groups == tree[path].groups
               cap == ResolvedSpreadCap(policy)
               held == {i \in DOMAIN groups : p \in Range(groups[i])}
    <2>1. tree[path] \in File /\ fleet \in Fleet /\ Planned(tree[path])
      BY <1>1 DEF ArchiveInv, TypeOK, Present
    <2>2. policy \in Asked
      BY <2>1 DEF File
    <2>3. policy \in Policy /\ fleet \in [Provider -> Handle]
      BY <2>1, <2>2, ArchiveAssumption DEF ArchiveAssumption
    <2>4. groups = Groups(fleet, policy, 1) /\ groups # Failed
      BY <2>1, <2>2, PlanFacts DEF Planned
    <2> HIDE DEF policy, groups
    <2>5. policy.scheme # "ec" /\ policy.minSpread > 1
      BY DEF policy
    <2>6. /\ DOMAIN groups = 1..Chunks(policy)
          /\ policy.minSpread \in Nat /\ cap \in 1..policy.minSpread - 1
          /\ Cardinality(HeldBy(p, groups, Chunks(policy))) <= cap
      BY <2>3, <2>4, <2>5, GroupFacts
    <2>7. Chunks(policy) = policy.minSpread
      BY <2>5, <2>6 DEF Chunks
    <2>8. held = HeldBy(p, groups, Chunks(policy))
      BY <2>6 DEF HeldBy
    <2>9. Cardinality(DOMAIN groups) = policy.minSpread
      BY <2>6, <2>7, FS_Interval
    <2>10. held # DOMAIN groups
      <3> HIDE DEF held, cap
      <3>1. SUFFICES ASSUME held = DOMAIN groups
                     PROVE  FALSE
        OBVIOUS
      <3>2. policy.minSpread <= cap
        BY <2>6, <2>8, <2>9, <3>1
      <3>3. QED
        BY <2>6, <3>2
    <2>11. QED
      BY <2>6, <2>8, <2>10 DEF policy, groups
  <1>2. QED
    BY <1>1, ArchiveInvHolds, PTL

\* select_targets gives a chunk at more risk than one in a thousand its extra
\* copies, unless nobody else can be asked.
THEOREM GroupsAreDurable == Spec => DurableOrNobodyElse
  <1> DEFINE Good(a) ==
                op[a] = Idle /\ op'[a].at = "put" /\ op'[a].policy.scheme # "ec"
                => \A i \in DOMAIN op'[a].groups :
                      LET g == op'[a].groups[i]  policy == op'[a].policy
                          Held(p) == {j \in 1..i - 1 : p \in Range(op'[a].groups[j])}
                      IN  \/ IsDurable(fleet, g)
                          \/ Len(g) = policy.replicas + MaxExtra
                          \/ \A p \in Candidates(fleet, policy, 1, Range(g)) :
                                policy.minSpread > 1 /\ Cardinality(Held(p)) >= ResolvedSpreadCap(policy)
  <1>1. ASSUME ArchiveInv, ArchiveInv', [Next]_vars, NEW a \in Putter
        PROVE  Good(a)
    <2> SUFFICES ASSUME op'[a].at = "put", op'[a].policy.scheme # "ec", NEW i \in DOMAIN op'[a].groups
                 PROVE  Settled(fleet, op'[a].policy, op'[a].groups, i)
      BY DEF Settled, HeldBy
    <2>1. fleet' = fleet /\ fleet \in Fleet
      BY <1>1 DEF ArchiveInv, TypeOK, Next, vars, StartPut, EndPut, StartRemove, EndRemove, StartMove,
                  MoveFile, MoveTree, SetPolicy, UnsetPolicy, Aborts
    <2>2. TypeOK' /\ a \in Putter \cup Mover /\ a \in DOMAIN op'
      BY <1>1 DEF ArchiveInv, TypeOK
    <2>3. op'[a].policy \in Asked
      <3>1. op'[a] \in Operation
        BY <2>2 DEF TypeOK
      <3>2. Idle.at = "idle"
        BY DEF Idle
      <3>3. QED
        BY <3>1, <3>2 DEF Operation
    <2>4. op'[a].groups = Plan[fleet][op'[a].policy] /\ op'[a].groups # Failed
      BY <1>1, <2>1, <2>2 DEF ArchiveInv, Planned
    <2>5. PICK policy, groups : policy = op'[a].policy /\ groups = op'[a].groups
      OBVIOUS
    <2>6. policy \in Policy /\ fleet \in [Provider -> Handle]
      BY <2>1, <2>3, <2>5, ArchiveAssumption DEF ArchiveAssumption
    <2>7. groups = Groups(fleet, policy, 1) /\ groups # Failed
      BY <2>1, <2>3, <2>4, <2>5, PlanFacts
    <2>8. policy.scheme # "ec" /\ i \in DOMAIN groups
      BY <2>5
    <2>9. DOMAIN groups = 1..Chunks(policy) /\ \A j \in 1..Chunks(policy) : Settled(fleet, policy, groups, j)
      BY <2>6, <2>7, <2>8, GroupFacts
    <2>10. QED
      BY <2>5, <2>8, <2>9
  <1>2. ArchiveInv /\ ArchiveInv' /\ [Next]_vars => [\A a \in Putter : Good(a)]_vars
    BY <1>1
  <1>3. QED
    BY <1>2, ArchiveInvHolds, PTL DEF Spec, DurableOrNobodyElse

\* Every variable has its type.
THEOREM ArchiveTypeCorrect == Spec => []TypeOK
  <1>1. ArchiveInv => TypeOK
    BY DEF ArchiveInv
  <1>2. QED
    BY <1>1, ArchiveInvHolds, PTL

================================================================================
