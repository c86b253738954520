-------------------------------- MODULE Policies --------------------------------
(***************************************************************************)
(* Placement policies (placement.py): the fields of a policy, the form in  *)
(* which a folder's policy is stored, and what a valid one is.             *)
(***************************************************************************)
EXTENDS Naturals

CONSTANT Unset      \* None: any tier, no explicit cap

Default ==
    [replicas |-> 3, tiers |-> Unset, pinned |-> {}, excluded |-> {},
     minSpread |-> 1, mode |-> "disjoint", cap |-> Unset,
     scheme |-> "replica", k |-> 3, n |-> 5]

Over(changes, base) ==
    [f \in DOMAIN base |-> IF f \in DOMAIN changes THEN changes[f] ELSE base[f]]

\* policy_to_dict and policy_from_dict: only what differs from the defaults is kept.
Sparse(policy) == [f \in {g \in DOMAIN Default : policy[g] # Default[g]} |-> policy[f]]
Full(stored) == Over(stored, Default)

ResolvedSpreadCap(policy) ==
    IF policy.minSpread <= 1 THEN 1
    ELSE IF policy.cap # Unset THEN policy.cap
    ELSE IF policy.mode = "disjoint" THEN 1 ELSE policy.minSpread - 1

\* What resolved_spread_cap and validate_params let pass.
IsValid(policy) ==
    IF policy.scheme = "ec" THEN 1 <= policy.k /\ policy.k < policy.n
    ELSE policy.minSpread > 1 => ResolvedSpreadCap(policy) \in 1..policy.minSpread - 1

================================================================================
