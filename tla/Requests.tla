-------------------------------- MODULE Requests --------------------------------
(***************************************************************************)
(* One adapter's requests to its service (providers/_http.py, with the     *)
(* TokenManager of oauth.py): retries, the refresh of the access token and *)
(* its lock.  Several tasks use an adapter at once: when a put of a gather *)
(* fails, its siblings run on while the clean-up deletes what they put.    *)
(*                                                                         *)
(* The service hands out an access token and a refresh token together; the *)
(* refresh token is good for one use.  A request may have been carried out *)
(* although its answer is lost or an error.  A step goes from one await to *)
(* the next; back-off times are left out.                                  *)
(***************************************************************************)
EXTENDS Naturals

CONSTANTS
    Task,
    NoTask,
    MaxTries,       \* _MAX_TRIES
    MaxOperations,  \* bound: operations that are begun
    MaxFaults       \* bound: failing calls, revocations and expiries

ASSUME RequestsAssumption ==
    /\ NoTask \notin Task
    /\ MaxTries \in Nat \ {0} /\ MaxOperations \in Nat /\ MaxFaults \in Nat

VARIABLES
    blob,       \* the token blob: number of its tokens, and whether the access
                \* token is short of its expiry
    server,     \* the newest tokens' number, and the access tokens it accepts
    holder,     \* the task that holds the lock of the TokenManager
    task,       \* where each task stands
    object,     \* whether the object that each task puts or deletes is there
    begun, faults,
    lost        \* history: the answer to a refresh was lost

vars == <<blob, server, holder, task, object, begun, faults, lost>>

NoToken == 0
Idle == [at |-> "idle"]
Begun(op) ==
    [at |-> "token", op |-> op, attempt |-> 0, refreshed |-> FALSE,
     token |-> NoToken,     \* in the header; the failed one while it waits
     presents |-> NoToken,  \* the refresh token in the request for tokens
     hits |-> 0]            \* history: tries that did not go through
Ended(t, result, cause) ==
    [at |-> "ended", op |-> task[t].op, result |-> result, cause |-> cause]

Fault == faults < MaxFaults /\ faults' = faults + 1
Become(t, r) == task' = [task EXCEPT ![t] = r]
At(t, phase) == task[t].at = phase

Begin(t, op) ==
    /\ task[t].at \in {"idle", "ended"} /\ begun < MaxOperations
    /\ begun' = begun + 1
    /\ Become(t, Begun(op))
    /\ UNCHANGED <<blob, server, holder, object, faults, lost>>

(***************************************************************************)
(* The loop of AuthedClient.request.                                       *)
(***************************************************************************)
Hit(t) == [task[t] EXCEPT !.hits = @ + 1]

\* After the last try the answer, or the exception, goes to the adapter.
NextTry(t, r) ==
    IF r.attempt + 1 < MaxTries
    THEN Become(t, [r EXCEPT !.attempt = @ + 1, !.at = "token"])
    ELSE Become(t, Ended(t, "failed", IF r.hits >= MaxTries THEN "tries" ELSE "none"))

\* access_token.
TakeToken(t) ==
    /\ At(t, "token")
    /\ Become(t, IF blob.fresh THEN [task[t] EXCEPT !.at = "send", !.token = blob.number]
                 ELSE [task[t] EXCEPT !.at = "wait", !.token = NoToken])
    /\ UNCHANGED <<blob, server, holder, object, begun, faults, lost>>

\* What a refresh returns to: access_token, or the loop after a 401.
Resume(t, number) ==
    IF task[t].token = NoToken
    THEN Become(t, [task[t] EXCEPT !.at = "send", !.token = number])
    ELSE NextTry(t, [task[t] EXCEPT !.refreshed = TRUE])

\* Mutant: whoever was told 401 redeems, whatever happened before it got the lock.
SatisfiedOnlyByExpiry(t) == task[t].token = NoToken /\ blob.fresh

\* Another task has refreshed while this one waited for the lock.
Satisfied(t) == blob.number # task[t].token /\ blob.fresh

\* Mutant: the lock is not held while the answer is awaited.
AcquireBriefly(t) ==
    /\ At(t, "wait") /\ holder = NoTask
    /\ IF Satisfied(t) THEN Resume(t, blob.number)
       ELSE Become(t, [task[t] EXCEPT !.at = "redeem", !.presents = blob.number])
    /\ UNCHANGED <<holder, blob, server, object, begun, faults, lost>>

Acquire(t) ==
    /\ At(t, "wait") /\ holder = NoTask
    /\ IF Satisfied(t) THEN Resume(t, blob.number) /\ UNCHANGED holder
       ELSE /\ holder' = t
            /\ Become(t, [task[t] EXCEPT !.at = "redeem", !.presents = blob.number])
    /\ UNCHANGED <<blob, server, object, begun, faults, lost>>

\* The service trades a refresh token that has not been used.
Issued == [number |-> server.number + 1, accepts |-> server.accepts \cup {server.number + 1}]

Redeemed(t) ==
    /\ At(t, "redeem") /\ task[t].presents = server.number
    /\ server' = Issued
    /\ blob' = [number |-> Issued.number, fresh |-> TRUE]
    /\ holder' = NoTask
    /\ Resume(t, Issued.number)
    /\ UNCHANGED <<object, begun, faults, lost>>

\* Mutant: the lock is released at the end of a refresh that goes well.
RedeemFailsHolding(t) ==
    /\ At(t, "redeem")
    /\ \/ task[t].presents # server.number /\ UNCHANGED <<server, faults, lost>>
       \/ Fault /\ UNCHANGED <<server, lost>>
       \/ task[t].presents = server.number /\ Fault /\ server' = Issued /\ lost' = TRUE
    /\ Become(t, Ended(t, "failed", "refresh"))
    /\ UNCHANGED <<holder, blob, object, begun>>

\* Refused, not delivered, or carried out and the answer lost: it raises through
\* the request, and the lock is released.
RedeemFails(t) ==
    /\ At(t, "redeem")
    /\ \/ task[t].presents # server.number /\ UNCHANGED <<server, faults, lost>>
       \/ Fault /\ UNCHANGED <<server, lost>>
       \/ task[t].presents = server.number /\ Fault /\ server' = Issued /\ lost' = TRUE
    /\ holder' = NoTask
    /\ Become(t, Ended(t, "failed", "refresh"))
    /\ UNCHANGED <<blob, object, begun>>

(***************************************************************************)
(* The answers to a request.                                               *)
(***************************************************************************)
CarriedOut(t) == object' = [object EXCEPT ![t] = (task[t].op = "put")]
Accepted(t) == task[t].token \in server.accepts

\* Mutant: an object that has gone already is an error.
SucceedsUnlessGone(t) == task[t].op = "delete" => object[t]

\* The adapter's delete takes 404 for success.
Succeeds(t) == TRUE

Answered(t) ==
    /\ At(t, "send") /\ Accepted(t)
    /\ CarriedOut(t)
    /\ Become(t, IF Succeeds(t) THEN Ended(t, "ok", "none") ELSE Ended(t, "failed", "none"))
    /\ UNCHANGED <<blob, server, holder, begun, faults, lost>>

\* 401: one forced refresh; a second 401 is the adapter's.
Rejected(t) ==
    /\ At(t, "send") /\ ~Accepted(t)
    /\ Become(t, IF task[t].refreshed THEN Ended(t, "failed", "rejected")
                 ELSE [Hit(t) EXCEPT !.at = "wait"])
    /\ UNCHANGED <<blob, server, holder, object, begun, faults, lost>>

\* No answer, or one of the statuses to retry.
Unanswered(t) ==
    /\ At(t, "send") /\ Fault
    /\ UNCHANGED object \/ (Accepted(t) /\ CarriedOut(t))
    /\ NextTry(t, Hit(t))
    /\ UNCHANGED <<blob, server, holder, begun, lost>>

(***************************************************************************)
(* The service may revoke tokens, and time passes.                         *)
(***************************************************************************)
Revoke ==
    /\ server.accepts # {} /\ Fault
    /\ server' = [server EXCEPT !.accepts = {}]
    /\ UNCHANGED <<blob, holder, task, object, begun, lost>>

Expire ==
    /\ blob.fresh /\ Fault
    /\ blob' = [blob EXCEPT !.fresh = FALSE]
    /\ UNCHANGED <<server, holder, task, object, begun, lost>>

Init ==
    /\ blob = [number |-> 1, fresh |-> TRUE]
    /\ server = [number |-> 1, accepts |-> {1}]
    /\ holder = NoTask
    /\ task = [t \in Task |-> Idle]
    /\ object \in [Task -> BOOLEAN]
    /\ begun = 0 /\ faults = 0 /\ lost = FALSE

Step(t) ==
    \/ TakeToken(t) \/ Acquire(t) \/ Redeemed(t) \/ RedeemFails(t)
    \/ Answered(t) \/ Rejected(t) \/ Unanswered(t)

Next ==
    \/ \E t \in Task : Step(t) \/ \E op \in {"put", "delete"} : Begin(t, op)
    \/ Revoke \/ Expire

Spec == Init /\ [][Next]_vars

\* Every call returns or raises: each request has its time limit.
FairSpec == Spec /\ \A t \in Task : WF_vars(Step(t))

(***************************************************************************)
(* Properties.                                                             *)
(***************************************************************************)

\* Every variable has its type.
Operation == {"put", "delete"}
TypeOK ==
    /\ blob.number \in 1..server.number /\ blob.fresh \in BOOLEAN
    /\ server.accepts \subseteq 1..server.number
    /\ holder \in Task \cup {NoTask}
    /\ \A t \in Task :
          \/ task[t] = Idle
          \/ At(t, "ended") /\ task[t].op \in Operation
          \/ /\ task[t].at \in {"token", "wait", "redeem", "send"} /\ task[t].op \in Operation
             /\ task[t].attempt \in 0..MaxTries - 1
             /\ task[t].token \in 0..server.number /\ task[t].presents \in 0..server.number
    /\ object \in [Task -> BOOLEAN] /\ begun \in 0..MaxOperations /\ faults \in 0..MaxFaults
    /\ lost \in BOOLEAN

\* "Concurrent chunk uploads must not race to redeem the same (possibly
\* single-use) refresh token" (oauth.py:228-229): one that is presented has not
\* been used, unless the answer to its use was lost.
SpentOnce ==
    \A t \in Task : At(t, "redeem") => task[t].presents = server.number \/ lost

\* Tasks told 401 for one token refresh it once between them: nobody redeems
\* while the tokens at hand are good.
RefreshedOnce ==
    \A t \in Task : At(t, "redeem") => ~blob.fresh \/ blob.number \notin server.accepts

\* Retries do no harm: an operation that ends well has been carried out, and
\* nothing it sent before undoes it; one that was carried out by an earlier try
\* ends well, and none fails but for its tries, its token or the refresh.
EndsAsAsked ==
    \A t \in Task : At(t, "ended") =>
        IF task[t].result = "ok" THEN object[t] = (task[t].op = "put") ELSE task[t].cause # "none"

\* Every operation ends, those that wait for the lock too, whoever held it.
EveryoneEnds == \A t \in Task : ~At(t, "idle") ~> At(t, "ended")

=================================================================================
