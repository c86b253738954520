------------------------------- MODULE Placement -------------------------------
(***************************************************************************)
(* The placement engine (placement.py): the choice of providers for a      *)
(* chunk, and of the provider groups that a file is spread over.           *)
(* Operators only; Archive uses them.                                      *)
(*                                                                         *)
(* Providers are their row ids.  A fleet gives each one its latency class, *)
(* its learned reliability in tenths, the free space its quota reports,    *)
(* whether that number is exact, and whether it can be reached at all.     *)
(***************************************************************************)
EXTENDS Policies, FiniteSets, SequencesExt

CONSTANTS Provider,
          Unlimited,    \* a quota that names no total
          Failed        \* NotEnoughProvidersError

ASSUME PlacementAssumption == IsFiniteSet(Provider) /\ Provider \subseteq Nat

Tier == {"hot", "warm", "glacial"}

\* The fields of a policy, and what the adapters tell of a provider.
Policy ==
    [replicas : Nat, tiers : {Unset} \cup SUBSET Tier, pinned : SUBSET Provider,
     excluded : SUBSET Provider, minSpread : Nat, mode : {"disjoint", "packed"},
     cap : Nat \cup {Unset}, scheme : {"replica", "ec"}, k : Nat, n : Nat]
Handle ==
    [tier : Tier, reliability : 0..10, free : Nat \cup {Unlimited}, exact : BOOLEAN, up : BOOLEAN]

(***************************************************************************)
(* select_targets.                                                         *)
(***************************************************************************)
SafetyMargin == 2
MaxExtra == 2

HasRoom(h, size) ==
    h.free = Unlimited \/ h.free >= size * (IF h.exact THEN 1 ELSE SafetyMargin)

Candidates(fleet, policy, size, barred) ==
    {p \in Provider \ (policy.excluded \cup barred) :
        /\ policy.tiers # Unset => fleet[p].tier \in policy.tiers
        /\ fleet[p].up /\ HasRoom(fleet[p], size)}

\* The weights 0.5, 0.3 and 0.2, over the common denominator of the fractions.
LatencyFit == [hot |-> 10, warm |-> 6, glacial |-> 2]
MaxFree(fleet, among) ==
    LET known == {fleet[p].free : p \in {q \in among : fleet[q].free # Unlimited}}
    IN  IF known \subseteq {0} THEN 1 ELSE CHOOSE f \in known : \A g \in known : f >= g
Score(fleet, among, p) ==
    LET most == MaxFree(fleet, among)
        free == IF fleet[p].free = Unlimited \/ \A q \in among : fleet[q].free \in {0, Unlimited}
                THEN most ELSE fleet[p].free
    IN  50 * fleet[p].reliability * most + 300 * free + 20 * LatencyFit[fleet[p].tier] * most

\* Pinned first, then the least spread load, the best score, the smallest id.
Precedes(fleet, policy, among, load, p, q) ==
    LET Pin(r) == IF r \in policy.pinned THEN 0 ELSE 1
        sp == Score(fleet, among, p)  sq == Score(fleet, among, q)
    IN  \/ Pin(p) < Pin(q)
        \/ Pin(p) = Pin(q) /\ load[p] < load[q]
        \/ Pin(p) = Pin(q) /\ load[p] = load[q] /\ sp > sq
        \/ Pin(p) = Pin(q) /\ load[p] = load[q] /\ sp = sq /\ p < q

\* The candidates, the best one first.
Ranked(fleet, policy, among, load) ==
    CHOOSE s \in SetToSeqs(among) :
        \A i, j \in DOMAIN s : i < j => Precedes(fleet, policy, among, load, s[i], s[j])

\* The probability that all of a sequence are lost is at most one in a thousand.
IsDurable(fleet, seq) ==
    LET loss[i \in 0..Len(seq)] ==
            IF i = 0 THEN 1 ELSE loss[i - 1] * (10 - fleet[seq[i]].reliability)
    IN  1000 * loss[Len(seq)] <= 10 ^ Len(seq)

\* Mutant: the loop ends when it is durable, or at the floor.
IsEnoughAtFloor(fleet, policy, seq) ==
    Len(seq) >= policy.replicas

\* When the loop ends: at the ceiling, or at the floor if that is durable.
IsEnough(fleet, policy, seq) ==
    \/ Len(seq) >= policy.replicas + MaxExtra
    \/ Len(seq) >= policy.replicas /\ IsDurable(fleet, seq)

SelectTargets(fleet, policy, size, barred, load) ==
    LET among == Candidates(fleet, policy, size, barred)
        ranked == Ranked(fleet, policy, among, load)
        stops == {m \in 0..Len(ranked) : m = Len(ranked) \/ IsEnough(fleet, policy, SubSeq(ranked, 1, m))}
        m == CHOOSE i \in stops : \A j \in stops : i <= j
    IN  IF m < policy.replicas THEN Failed ELSE SubSeq(ranked, 1, m)

(***************************************************************************)
(* select_spread_groups, and the shares of an erasure-coded file.          *)
(***************************************************************************)
NoLoad == [p \in Provider |-> 0]

\* Mutant: a provider is barred only past its cap.
AtCapLate(load, cap) == {p \in Provider : load[p] > cap}

AtCap(load, cap) == {p \in Provider : load[p] >= cap}

SelectSpreadGroups(fleet, policy, size) ==
    LET cap == ResolvedSpreadCap(policy)
        n == IF policy.minSpread <= 1 THEN 1 ELSE policy.minSpread
        Deal(s) ==
            LET barred == IF n = 1 THEN {} ELSE AtCap(s.load, cap)
                targets == SelectTargets(fleet, policy, size, barred, s.load)
            IN  IF targets = Failed THEN Failed
                ELSE [load |-> [p \in Provider |-> s.load[p] + (IF p \in Range(targets) THEN 1 ELSE 0)],
                      groups |-> Append(s.groups, targets)]
        after[i \in 0..n] ==
            IF i = 0 THEN [load |-> NoLoad, groups |-> <<>>]
            ELSE IF after[i - 1] = Failed THEN Failed ELSE Deal(after[i - 1])
    IN  IF after[n] = Failed THEN Failed ELSE after[n].groups

SelectShareHolders(fleet, policy, size) ==
    LET targets == SelectTargets(fleet, [policy EXCEPT !.replicas = policy.n], size, {}, NoLoad)
    IN  IF targets = Failed THEN Failed ELSE <<SubSeq(targets, 1, policy.n)>>

\* What put_file makes of a policy: the provider groups of a file, or Failed.
Groups(fleet, policy, size) ==
    IF ~IsValid(policy) THEN Failed
    ELSE IF policy.scheme = "ec" THEN SelectShareHolders(fleet, policy, size)
    ELSE SelectSpreadGroups(fleet, policy, size)

================================================================================
