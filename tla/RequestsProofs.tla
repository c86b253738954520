------------------------------ MODULE RequestsProofs ------------------------------
(***************************************************************************)
(* Refreshes and retries of Requests, for any tasks, number of tries,      *)
(* operations and faults.  What makes them right: the lock is held by the  *)
(* task that redeems and by no other, so the blob cannot change under it;  *)
(* a task that waits because of a 401 holds a token that the service will  *)
(* never accept again; and a task has used up one try for every hit.       *)
(***************************************************************************)
EXTENDS Requests, TLAPS

Active == [at : {"token", "wait", "redeem", "send"}, op : Operation,
           attempt : 0..MaxTries - 1, refreshed : BOOLEAN, token : Nat, presents : Nat,
           hits : Nat]
Over == [at : {"ended"}, op : Operation, result : {"ok", "failed"},
         cause : {"none", "tries", "refresh", "rejected"}]
IsActive(t) == task[t].at \in {"token", "wait", "redeem", "send"}

\* What the tokens are, and how far the blob and the service may be apart.
Tokens ==
    /\ blob \in [number : Nat, fresh : BOOLEAN]
    /\ server \in [number : Nat, accepts : SUBSET Nat]
    /\ 1 <= blob.number /\ blob.number <= server.number
    /\ \A n \in server.accepts : 1 <= n /\ n <= server.number
    /\ blob.number = server.number \/ lost

\* The other variables have their types, and the holder of the lock redeems.
Others ==
    /\ task \in [Task -> {Idle} \cup Over \cup Active]
    /\ object \in [Task -> BOOLEAN] /\ begun \in 0..MaxOperations /\ faults \in 0..MaxFaults
    /\ lost \in BOOLEAN
    /\ holder \in Task \cup {NoTask} /\ (holder # NoTask => At(holder, "redeem"))

\* Tokens were issued before they are used.
Issues(t) ==
    /\ IsActive(t) => task[t].token <= server.number /\ task[t].presents <= server.number
    /\ At(t, "send") => task[t].token # NoToken

\* Who redeems holds the lock, and nobody has touched the blob since.
Redeems(t) ==
    At(t, "redeem") =>
        /\ holder = t /\ task[t].presents = blob.number
        /\ ~blob.fresh \/ blob.number \notin server.accepts

\* Who waits with a token was told 401 for it.
ToldSo(t) == At(t, "wait") /\ task[t].token # NoToken => task[t].token \notin server.accepts

\* Every hit has its try; the one that a 401 is refreshed for is not yet passed.
HitsCounted(t) ==
    IsActive(t) =>
        task[t].hits = IF task[t].at \in {"wait", "redeem"} /\ task[t].token # NoToken
                       THEN task[t].attempt + 1 ELSE task[t].attempt

EndedAsAsked(t) ==
    At(t, "ended") =>
        IF task[t].result = "ok" THEN object[t] = (task[t].op = "put") ELSE task[t].cause # "none"

TaskInv(t) == Issues(t) /\ Redeems(t) /\ ToldSo(t) /\ HitsCounted(t) /\ EndedAsAsked(t)
RequestsInv == Tokens /\ Others /\ \A t \in Task : TaskInv(t)

----------------------------------------------------------------------------
(* Steps of a task.                                                        *)

\* A task with a step to take is in the loop of a request.
LEMMA ActiveTasks ==
    ASSUME Others, NEW t \in Task, IsActive(t)
    PROVE  task[t] \in Active
  <1>1. task[t] \in {Idle} \cup Over \cup Active
    BY DEF Others
  <1>2. \A r \in Over : r.at = "ended"
    BY DEF Over
  <1>3. Idle.at = "idle"
    BY DEF Idle
  <1>4. QED
    BY <1>1, <1>2, <1>3 DEF IsActive

\* Become changes one task.
LEMMA BecomeSets ==
    ASSUME Others, NEW t \in Task, NEW r \in {Idle} \cup Over \cup Active, Become(t, r)
    PROVE  /\ task' \in [Task -> {Idle} \cup Over \cup Active]
           /\ task'[t] = r /\ \A u \in Task \ {t} : task'[u] = task[u]
  BY DEF Others, Become

\* The three ways out of a request.
LEMMA EndedForms ==
    ASSUME Others, NEW t \in Task, IsActive(t)
    PROVE  /\ Ended(t, "ok", "none") \in Over
           /\ \A c \in {"tries", "refresh", "rejected"} : Ended(t, "failed", c) \in Over
  BY ActiveTasks DEF Ended, Over, Active

\* After a hit the next try begins, or the request fails for its tries.
LEMMA NextTryForms ==
    ASSUME Others, NEW t \in Task, IsActive(t), NEW r \in Active, r.hits = r.attempt + 1,
           NextTry(t, r)
    PROVE  \/ Become(t, [r EXCEPT !.attempt = @ + 1, !.at = "token"])
              /\ [r EXCEPT !.attempt = @ + 1, !.at = "token"] \in Active
           \/ Become(t, Ended(t, "failed", "tries"))
  <1>1. r.attempt \in Nat /\ r.attempt <= MaxTries - 1 /\ MaxTries \in Nat
    BY RequestsAssumption DEF Active, RequestsAssumption
  <1>2. CASE r.attempt + 1 < MaxTries
    <2>1. r.attempt + 1 \in 0..MaxTries - 1
      BY <1>1, <1>2
    <2>2. [r EXCEPT !.attempt = @ + 1, !.at = "token"] \in Active
      BY <2>1 DEF Active
    <2>3. QED
      BY <1>2, <2>2 DEF NextTry
  <1>3. CASE ~(r.attempt + 1 < MaxTries)
    <2>1. r.hits >= MaxTries
      BY <1>1, <1>3
    <2>2. QED
      BY <1>3, <2>1 DEF NextTry
  <1>4. QED
    BY <1>2, <1>3

\* What a task does to the others: nothing, while the blob and the lock stay as
\* they are or the task is the one that redeems.
LEMMA BystandersKeep ==
    ASSUME Tokens, Tokens', Others, NEW t \in Task, NEW u \in Task \ {t}, TaskInv(u),
           task'[u] = task[u], object'[u] = object[u],
           server.number <= server'.number,
           \A n \in server'.accepts : n \in server.accepts \/ n > server.number,
           \/ UNCHANGED <<blob, holder>>
           \/ At(t, "redeem") /\ holder = t
           \/ holder = NoTask /\ UNCHANGED blob
    PROVE  TaskInv(u)'
  <1>1. At(u, "redeem") => UNCHANGED <<blob, holder>> \/ holder = NoTask
    BY DEF TaskInv, Redeems
  <1>2. IsActive(u) => task[u].token \in Nat /\ task[u].presents \in Nat
    BY ActiveTasks DEF Active
  <1>3. Issues(u)'
    BY <1>2 DEF TaskInv, Issues, IsActive, At, Tokens
  <1>4. At(u, "redeem") => UNCHANGED <<blob, holder>> /\ holder = u
    BY <1>1, RequestsAssumption DEF TaskInv, Redeems, RequestsAssumption
  <1>5. Redeems(u)'
    BY <1>4 DEF TaskInv, Redeems, At, Tokens
  <1>6. ToldSo(u)'
    BY <1>2 DEF TaskInv, ToldSo, Issues, IsActive, At, Tokens
  <1>7. HitsCounted(u)' /\ EndedAsAsked(u)'
    BY DEF TaskInv, HitsCounted, EndedAsAsked, IsActive, At
  <1>8. QED
    BY <1>3, <1>5, <1>6, <1>7 DEF TaskInv

\* A request is begun.
LEMMA BeginInv ==
    ASSUME RequestsInv, NEW t \in Task, NEW op \in Operation, Begin(t, op)
    PROVE  RequestsInv'
  <1> DEFINE r == Begun(op)
  <1>1. r \in Active /\ r.at = "token" /\ r.attempt = 0 /\ r.hits = 0
        /\ r.token = NoToken /\ r.presents = NoToken
    BY RequestsAssumption DEF Begun, Active, RequestsAssumption, NoToken
  <1>2. /\ task' \in [Task -> {Idle} \cup Over \cup Active]
        /\ task'[t] = r /\ \A u \in Task \ {t} : task'[u] = task[u]
    BY <1>1, BecomeSets DEF Begin, RequestsInv
  <1>3. UNCHANGED <<blob, server, holder, object, faults, lost>> /\ ~At(t, "redeem")
    BY DEF Begin, At
  <1>4. Tokens'
    BY <1>3 DEF RequestsInv, Tokens
  <1>5. begun' \in 0..MaxOperations
    BY RequestsAssumption DEF RequestsInv, Others, Begin, RequestsAssumption
  <1>6. Others'
    BY <1>2, <1>3, <1>5 DEF RequestsInv, Others, At
  <1>7. \A u \in Task \ {t} : TaskInv(u)'
    BY <1>2, <1>3, <1>4, BystandersKeep DEF RequestsInv, Tokens
  <1>8. TaskInv(t)'
    BY <1>1, <1>2, <1>3 DEF RequestsInv, Tokens, TaskInv, Issues, Redeems, ToldSo, HitsCounted,
       EndedAsAsked, IsActive, At, NoToken
  <1>9. QED
    BY <1>4, <1>6, <1>7, <1>8 DEF RequestsInv

\* What is left to show when a task takes a step that is not a fault.
LEMMA StepInv ==
    ASSUME RequestsInv, NEW t \in Task, Tokens', server.number <= server'.number,
           \A n \in server'.accepts : n \in server.accepts \/ n > server.number,
           \/ UNCHANGED <<blob, holder>>
           \/ At(t, "redeem") /\ holder = t
           \/ holder = NoTask /\ UNCHANGED blob,
           NEW r \in {Idle} \cup Over \cup Active, Become(t, r),
           object' \in [Task -> BOOLEAN], \A u \in Task \ {t} : object'[u] = object[u],
           begun' \in 0..MaxOperations, faults' \in 0..MaxFaults, lost' \in BOOLEAN,
           holder' = (IF r.at = "redeem" THEN t
                      ELSE IF At(t, "redeem") THEN NoTask ELSE holder),
           TaskInv(t)'
    PROVE  RequestsInv'
  <1>1. /\ task' \in [Task -> {Idle} \cup Over \cup Active]
        /\ task'[t] = r /\ \A u \in Task \ {t} : task'[u] = task[u]
    BY BecomeSets DEF RequestsInv
  <1>2. holder' \in Task \cup {NoTask} /\ (holder' # NoTask => At(holder, "redeem")')
    <2>1. CASE r.at = "redeem" \/ At(t, "redeem")
      BY <1>1, <2>1 DEF At, RequestsInv, Others
    <2>2. CASE r.at # "redeem" /\ ~At(t, "redeem")
      <3>1. holder # t /\ holder' = holder
        BY <2>2, RequestsAssumption DEF RequestsInv, Others, RequestsAssumption
      <3>2. QED
        BY <1>1, <3>1 DEF At, RequestsInv, Others
    <2>3. QED
      BY <2>1, <2>2
  <1>3. Others'
    BY <1>1, <1>2 DEF Others, RequestsInv
  <1>4. ASSUME NEW u \in Task \ {t}
        PROVE  TaskInv(u)'
    BY <1>1, <1>4, BystandersKeep DEF RequestsInv
  <1>5. QED
    BY <1>3, <1>4 DEF RequestsInv

\* The access token is taken from the blob, or a refresh is asked for.
LEMMA TakeTokenInv ==
    ASSUME RequestsInv, NEW t \in Task, TakeToken(t)
    PROVE  RequestsInv'
  <1> DEFINE r == IF blob.fresh THEN [task[t] EXCEPT !.at = "send", !.token = blob.number]
                  ELSE [task[t] EXCEPT !.at = "wait", !.token = NoToken]
  <1>1. IsActive(t) /\ task[t] \in Active /\ At(t, "token")
    BY ActiveTasks DEF TakeToken, At, IsActive, RequestsInv
  <1>2. /\ r \in Active /\ r.at \in {"send", "wait"}
        /\ r.hits = task[t].hits /\ r.attempt = task[t].attempt /\ r.presents = task[t].presents
        /\ IF r.at = "send" THEN r.token = blob.number ELSE r.token = NoToken
    BY <1>1 DEF Active, RequestsInv, Tokens, NoToken
  <1> HIDE DEF r
  <1>3. Become(t, r) /\ UNCHANGED <<blob, server, holder, object, begun, faults, lost>>
    BY DEF TakeToken, r
  <1>4. task'[t] = r
    BY <1>2, <1>3, BecomeSets DEF RequestsInv
  <1>5. Tokens'
    BY <1>3 DEF RequestsInv, Tokens
  <1>6. TaskInv(t)'
    BY <1>1, <1>2, <1>3, <1>4 DEF RequestsInv, Tokens, TaskInv, Issues, Redeems, ToldSo, HitsCounted,
       EndedAsAsked, IsActive, At, NoToken
  <1>7. QED
    BY <1>1, <1>2, <1>3, <1>5, <1>6, StepInv DEF RequestsInv, Others, Tokens, At

\* What a refresh returns to.
LEMMA ResumeForms ==
    ASSUME RequestsInv, NEW t \in Task, At(t, "wait") \/ At(t, "redeem"), NEW n \in Nat, n # NoToken,
           Resume(t, n)
    PROVE  \E r \in Over \cup Active :
              /\ Become(t, r) /\ r.at \in {"send", "token", "ended"}
              /\ r.at = "send" => /\ r.token = n /\ r.hits = r.attempt
                                  /\ r.presents = task[t].presents
              /\ r.at = "token" => /\ r.token = task[t].token /\ r.hits = r.attempt
                                   /\ r.presents = task[t].presents
              /\ r.at = "ended" => r.result = "failed" /\ r.cause = "tries"
  <1>1. IsActive(t) /\ task[t] \in Active
    BY ActiveTasks DEF At, IsActive, RequestsInv
  <1>2. HitsCounted(t)
    BY DEF RequestsInv, TaskInv
  <1>3. CASE task[t].token = NoToken
    <2> DEFINE r == [task[t] EXCEPT !.at = "send", !.token = n]
    <2>1. r \in Active /\ r.at = "send" /\ r.token = n /\ r.presents = task[t].presents
          /\ r.hits = task[t].hits /\ r.attempt = task[t].attempt
      BY <1>1 DEF Active
    <2>2. r.hits = r.attempt
      BY <1>1, <1>2, <1>3, <2>1 DEF HitsCounted
    <2>3. Become(t, r)
      BY <1>3 DEF Resume
    <2> HIDE DEF r
    <2>4. QED
      BY <2>1, <2>2, <2>3
  <1>4. CASE task[t].token # NoToken
    <2> DEFINE s == [task[t] EXCEPT !.refreshed = TRUE]
               r == [s EXCEPT !.attempt = @ + 1, !.at = "token"]
    <2>1. s \in Active /\ s.token = task[t].token /\ s.presents = task[t].presents
          /\ s.hits = task[t].hits /\ s.attempt = task[t].attempt
      BY <1>1 DEF Active
    <2>2. s.hits = s.attempt + 1
      BY <1>1, <1>2, <1>4, <2>1 DEF HitsCounted, At
    <2>3. NextTry(t, s)
      BY <1>4 DEF Resume
    <2>4. \/ Become(t, r) /\ r \in Active
          \/ Become(t, Ended(t, "failed", "tries"))
      BY <1>1, <2>1, <2>2, <2>3, NextTryForms DEF RequestsInv
    <2>5. Ended(t, "failed", "tries") \in Over
      BY <1>1, EndedForms DEF RequestsInv
    <2>6. r.at = "token" /\ r.token = task[t].token /\ r.presents = task[t].presents
          /\ r.attempt = s.attempt + 1 /\ r.hits = s.hits
      BY <2>1 DEF Active
    <2> HIDE DEF r, s
    <2>7. Ended(t, "failed", "tries").at = "ended"
          /\ Ended(t, "failed", "tries").result = "failed" /\ Ended(t, "failed", "tries").cause = "tries"
      BY DEF Ended
    <2>8. QED
      BY <2>2, <2>4, <2>5, <2>6, <2>7
  <1>5. QED
    BY <1>3, <1>4

\* The lock is taken, or what it was wanted for has been done.
LEMMA AcquireInv ==
    ASSUME RequestsInv, NEW t \in Task, Acquire(t)
    PROVE  RequestsInv'
  <1>1. IsActive(t) /\ task[t] \in Active /\ At(t, "wait") /\ holder = NoTask
    BY ActiveTasks DEF Acquire, At, IsActive, RequestsInv
  <1>2. UNCHANGED <<blob, server, object, begun, faults, lost>> /\ Tokens'
    BY DEF Acquire, RequestsInv, Tokens
  <1>3. CASE Satisfied(t)
    <2>1. PICK r \in Over \cup Active :
              /\ Become(t, r) /\ r.at \in {"send", "token", "ended"}
              /\ r.at = "send" => /\ r.token = blob.number /\ r.hits = r.attempt
                                  /\ r.presents = task[t].presents
              /\ r.at = "token" => /\ r.token = task[t].token /\ r.hits = r.attempt
                                   /\ r.presents = task[t].presents
              /\ r.at = "ended" => r.result = "failed" /\ r.cause = "tries"
      BY <1>1, <1>3, ResumeForms DEF Acquire, RequestsInv, Tokens, NoToken
    <2>2. task'[t] = r
      BY <2>1, BecomeSets DEF RequestsInv
    <2>3. TaskInv(t)'
      BY <1>1, <1>2, <2>1, <2>2 DEF RequestsInv, Tokens, TaskInv, Issues, Redeems, ToldSo, HitsCounted,
         EndedAsAsked, IsActive, At, NoToken
    <2>4. UNCHANGED holder
      BY <1>3 DEF Acquire
    <2>5. QED
      BY <1>1, <1>2, <2>1, <2>3, <2>4, StepInv DEF RequestsInv, Others, Tokens, At
  <1>4. CASE ~Satisfied(t)
    <2> DEFINE r == [task[t] EXCEPT !.at = "redeem", !.presents = blob.number]
    <2>1. /\ r \in Active /\ r.at = "redeem" /\ r.presents = blob.number
          /\ r.hits = task[t].hits /\ r.attempt = task[t].attempt /\ r.token = task[t].token
      BY <1>1 DEF Active, RequestsInv, Tokens
    <2>2. Become(t, r) /\ holder' = t
      BY <1>4 DEF Acquire
    <2> HIDE DEF r
    <2>3. task'[t] = r
      BY <2>1, <2>2, BecomeSets DEF RequestsInv
    <2>4. ~blob.fresh \/ blob.number \notin server.accepts
      <3>1. ~blob.fresh \/ blob.number = task[t].token
        BY <1>4 DEF Satisfied
      <3>2. blob.number # NoToken
        BY DEF RequestsInv, Tokens, NoToken
      <3>3. ToldSo(t)
        BY DEF RequestsInv, TaskInv
      <3>4. QED
        BY <1>1, <3>1, <3>2, <3>3 DEF ToldSo
    <2>5. TaskInv(t)'
      BY <1>1, <1>2, <2>1, <2>2, <2>3, <2>4 DEF RequestsInv, Tokens, TaskInv, Issues, Redeems, ToldSo, HitsCounted,
         EndedAsAsked, IsActive, At, NoToken
    <2>6. QED
      BY <1>1, <1>2, <2>1, <2>2, <2>5, StepInv DEF RequestsInv, Others, Tokens
  <1>5. QED
    BY <1>3, <1>4

\* The service issues the tokens that follow.
LEMMA IssuedTokens ==
    ASSUME Tokens
    PROVE  /\ Issued \in [number : Nat, accepts : SUBSET Nat]
           /\ Issued.number = server.number + 1
           /\ \A n \in Issued.accepts : n \in server.accepts \/ n = server.number + 1
  BY DEF Issued, Tokens

\* The refresh succeeds: the blob has the tokens that follow, and the lock is free.
LEMMA RedeemedInv ==
    ASSUME RequestsInv, NEW t \in Task, Redeemed(t)
    PROVE  RequestsInv'
  <1>1. IsActive(t) /\ task[t] \in Active /\ At(t, "redeem") /\ holder = t
    BY ActiveTasks DEF Redeemed, At, IsActive, RequestsInv, TaskInv, Redeems
  <1>2. UNCHANGED <<object, begun, faults, lost>> /\ server' = Issued /\ holder' = NoTask
        /\ blob' = [number |-> Issued.number, fresh |-> TRUE]
    BY DEF Redeemed
  <1>3. Tokens' /\ Issued.number \in Nat /\ Issued.number # NoToken /\ server'.number = server.number + 1
        /\ \A n \in server'.accepts : n \in server.accepts \/ n > server.number
    BY <1>2, IssuedTokens DEF RequestsInv, Tokens, NoToken
  <1>4. PICK r \in Over \cup Active :
              /\ Become(t, r) /\ r.at \in {"send", "token", "ended"}
              /\ r.at = "send" => /\ r.token = Issued.number /\ r.hits = r.attempt
                                  /\ r.presents = task[t].presents
              /\ r.at = "token" => /\ r.token = task[t].token /\ r.hits = r.attempt
                                   /\ r.presents = task[t].presents
              /\ r.at = "ended" => r.result = "failed" /\ r.cause = "tries"
    BY <1>1, <1>3, ResumeForms DEF Redeemed
  <1>5. task'[t] = r
    BY <1>4, BecomeSets DEF RequestsInv
  <1>6. Issues(t)'
    BY <1>1, <1>2, <1>3, <1>4, <1>5 DEF RequestsInv, Tokens, TaskInv, Issues, IsActive, At, Active
  <1>7. TaskInv(t)'
    BY <1>4, <1>5, <1>6 DEF TaskInv, Redeems, ToldSo, HitsCounted, EndedAsAsked, IsActive, At
  <1>8. QED
    BY <1>1, <1>2, <1>3, <1>4, <1>7, StepInv DEF RequestsInv, Others, Tokens

\* The refresh fails: whether or not the service traded the tokens, the lock is free.
LEMMA RedeemFailsInv ==
    ASSUME RequestsInv, NEW t \in Task, RedeemFails(t)
    PROVE  RequestsInv'
  <1> DEFINE r == Ended(t, "failed", "refresh")
  <1>1. IsActive(t) /\ task[t] \in Active /\ At(t, "redeem") /\ holder = t
    BY ActiveTasks DEF RedeemFails, At, IsActive, RequestsInv, TaskInv, Redeems
  <1>2. r \in Over /\ r.at = "ended" /\ r.result = "failed" /\ r.cause = "refresh"
    BY <1>1, EndedForms DEF RequestsInv, Ended
  <1> HIDE DEF r
  <1>3. UNCHANGED <<blob, object, begun>> /\ holder' = NoTask /\ Become(t, r)
    BY DEF RedeemFails, r
  <1>4. Tokens' /\ server.number <= server'.number /\ faults' \in 0..MaxFaults /\ lost' \in BOOLEAN
        /\ \A n \in server'.accepts : n \in server.accepts \/ n > server.number
    <2>1. CASE UNCHANGED <<server, lost>> /\ (Fault \/ UNCHANGED faults)
      BY <1>3, <2>1, RequestsAssumption DEF RequestsInv, Tokens, Others, Fault, RequestsAssumption
    <2>2. CASE Fault /\ server' = Issued /\ lost' = TRUE
      BY <1>3, <2>2, IssuedTokens, RequestsAssumption
         DEF RequestsInv, Tokens, Others, Fault, RequestsAssumption
    <2>3. QED
      BY <2>1, <2>2 DEF RedeemFails
  <1>5. task'[t] = r
    BY <1>2, <1>3, BecomeSets DEF RequestsInv
  <1>6. TaskInv(t)'
    BY <1>2, <1>5 DEF TaskInv, Issues, Redeems, ToldSo, HitsCounted, EndedAsAsked, IsActive, At
  <1>7. QED
    BY <1>1, <1>2, <1>3, <1>4, <1>6, StepInv DEF RequestsInv, Others

\* What carrying out does to the objects.
LEMMA CarriedOutSets ==
    ASSUME Others, NEW t \in Task, CarriedOut(t)
    PROVE  /\ object' \in [Task -> BOOLEAN] /\ object'[t] = (task[t].op = "put")
           /\ \A u \in Task \ {t} : object'[u] = object[u]
  BY DEF Others, CarriedOut

\* The answer of a request that was carried out.
LEMMA AnsweredInv ==
    ASSUME RequestsInv, NEW t \in Task, Answered(t)
    PROVE  RequestsInv'
  <1> DEFINE r == Ended(t, "ok", "none")
  <1>1. IsActive(t) /\ At(t, "send")
    BY DEF Answered, At, IsActive
  <1>2. r \in Over /\ r.at = "ended" /\ r.result = "ok" /\ r.op = task[t].op
    BY <1>1, EndedForms DEF RequestsInv, Ended
  <1> HIDE DEF r
  <1>3. UNCHANGED <<blob, server, holder, begun, faults, lost>> /\ Become(t, r) /\ CarriedOut(t)
    BY DEF Answered, Succeeds, r
  <1>4. Tokens'
    BY <1>3 DEF RequestsInv, Tokens
  <1>5. task'[t] = r
    BY <1>2, <1>3, BecomeSets DEF RequestsInv
  <1>6. TaskInv(t)'
    BY <1>2, <1>3, <1>5, CarriedOutSets DEF RequestsInv, TaskInv, Issues, Redeems, ToldSo, HitsCounted,
       EndedAsAsked, IsActive, At
  <1>7. QED
    BY <1>1, <1>2, <1>3, <1>4, <1>6, CarriedOutSets, StepInv DEF RequestsInv, Others, Tokens, At

\* A 401: the token it was told for is one that the service does not accept.
LEMMA RejectedInv ==
    ASSUME RequestsInv, NEW t \in Task, Rejected(t)
    PROVE  RequestsInv'
  <1> DEFINE r == IF task[t].refreshed THEN Ended(t, "failed", "rejected")
                  ELSE [Hit(t) EXCEPT !.at = "wait"]
  <1>1. IsActive(t) /\ At(t, "send") /\ task[t] \in Active /\ task[t].token \notin server.accepts
    BY ActiveTasks DEF Rejected, Accepted, At, IsActive, RequestsInv
  <1>2. UNCHANGED <<blob, server, holder, object, begun, faults, lost>> /\ Become(t, r)
    BY DEF Rejected
  <1>3. /\ r \in Over \cup Active /\ r.at \in {"ended", "wait"}
        /\ r.at = "ended" => r.result = "failed" /\ r.cause = "rejected"
        /\ r.at = "wait" => /\ r.token = task[t].token /\ r.presents = task[t].presents
                            /\ r.attempt = task[t].attempt /\ r.hits = task[t].hits + 1
    <2>1. CASE task[t].refreshed
      BY <1>1, <2>1, EndedForms DEF RequestsInv, Ended
    <2>2. CASE ~task[t].refreshed
      <3> DEFINE h == Hit(t)
      <3>1. /\ h \in Active /\ h.token = task[t].token /\ h.presents = task[t].presents
            /\ h.attempt = task[t].attempt /\ h.hits = task[t].hits + 1
        BY <1>1 DEF Hit, Active
      <3>2. r = [h EXCEPT !.at = "wait"]
        BY <2>2
      <3> HIDE DEF h, r
      <3>3. QED
        BY <3>1, <3>2 DEF Active
    <2>3. QED
      BY <2>1, <2>2
  <1> HIDE DEF r
  <1>4. Tokens'
    BY <1>2 DEF RequestsInv, Tokens
  <1>5. task'[t] = r
    BY <1>2, <1>3, BecomeSets DEF RequestsInv
  <1>6. TaskInv(t)'
    BY <1>1, <1>2, <1>3, <1>5 DEF RequestsInv, TaskInv, Issues, Redeems, ToldSo, HitsCounted,
       EndedAsAsked, IsActive, At
  <1>7. QED
    BY <1>1, <1>2, <1>3, <1>4, <1>6, StepInv DEF RequestsInv, Others, Tokens, At

\* No answer: whether or not it was carried out, the try is used up.
LEMMA UnansweredInv ==
    ASSUME RequestsInv, NEW t \in Task, Unanswered(t)
    PROVE  RequestsInv'
  <1> DEFINE h == Hit(t)
             s == [h EXCEPT !.attempt = @ + 1, !.at = "token"]
             e == Ended(t, "failed", "tries")
  <1>1. IsActive(t) /\ At(t, "send") /\ task[t] \in Active
    BY ActiveTasks DEF Unanswered, At, IsActive, RequestsInv
  <1>2. UNCHANGED <<blob, server, holder, begun, lost>> /\ NextTry(t, h) /\ faults' \in 0..MaxFaults
    BY RequestsAssumption DEF Unanswered, Fault, RequestsInv, Others, RequestsAssumption
  <1>3. h \in Active /\ h.hits = h.attempt + 1 /\ h.token = task[t].token
        /\ h.presents = task[t].presents
    BY <1>1 DEF Hit, Active, RequestsInv, TaskInv, HitsCounted, IsActive, At
  <1>4. PICK r \in {s, e} : Become(t, r) /\ r \in Over \cup Active
    BY <1>1, <1>2, <1>3, NextTryForms, EndedForms DEF RequestsInv
  <1>5. s.at = "token" /\ s.token = task[t].token /\ s.presents = task[t].presents
        /\ s.attempt = h.attempt + 1 /\ s.hits = h.hits
    BY <1>3 DEF Active
  <1>6. e.at = "ended" /\ e.result = "failed" /\ e.cause = "tries"
    BY DEF Ended
  <1> HIDE DEF h, s, e
  <1>7. Tokens'
    BY <1>2 DEF RequestsInv, Tokens
  <1>8. task'[t] = r
    BY <1>4, BecomeSets DEF RequestsInv
  <1>9. TaskInv(t)'
    BY <1>1, <1>2, <1>3, <1>4, <1>5, <1>6, <1>8 DEF RequestsInv, TaskInv, Issues, Redeems, ToldSo,
       HitsCounted, EndedAsAsked, IsActive, At
  <1>10. object' \in [Task -> BOOLEAN] /\ \A u \in Task \ {t} : object'[u] = object[u]
    BY CarriedOutSets DEF Unanswered, RequestsInv, Others
  <1>11. r.at # "redeem"
    BY <1>4, <1>5, <1>6
  <1>12. QED
    BY <1>1, <1>2, <1>4, <1>7, <1>9, <1>10, <1>11, StepInv DEF RequestsInv, Others, Tokens, At

\* Tokens are revoked, or time passes.
LEMMA FaultInv ==
    ASSUME RequestsInv, Revoke \/ Expire
    PROVE  RequestsInv'
  <1>1. UNCHANGED <<holder, task, object, begun, lost>> /\ faults' \in 0..MaxFaults
    BY RequestsAssumption DEF Revoke, Expire, Fault, RequestsInv, Others, RequestsAssumption
  <1>2. /\ blob'.number = blob.number /\ (blob'.fresh => blob.fresh)
        /\ blob' \in [number : Nat, fresh : BOOLEAN]
        /\ server'.number = server.number /\ server'.accepts \subseteq server.accepts
        /\ server' \in [number : Nat, accepts : SUBSET Nat]
    BY DEF Revoke, Expire, RequestsInv, Tokens
  <1>3. Tokens'
    BY <1>1, <1>2 DEF RequestsInv, Tokens
  <1>4. Others'
    BY <1>1 DEF RequestsInv, Others, At
  <1>5. ASSUME NEW t \in Task
        PROVE  TaskInv(t)'
    BY <1>1, <1>2, <1>5 DEF RequestsInv, TaskInv, Issues, Redeems, ToldSo, HitsCounted,
       EndedAsAsked, IsActive, At
  <1>6. QED
    BY <1>3, <1>4, <1>5 DEF RequestsInv

----------------------------------------------------------------------------
(* The theorems.                                                           *)

\* Nothing is under way at first.
LEMMA InitInv == Init => RequestsInv
  <1>1. ASSUME Init
        PROVE  Tokens /\ Others /\ \A t \in Task : TaskInv(t)
    <2>1. Tokens
      BY <1>1 DEF Init, Tokens
    <2>2. Others
      <3>1. task \in [Task -> {Idle} \cup Over \cup Active] /\ object \in [Task -> BOOLEAN]
        BY <1>1 DEF Init
      <3>2. begun = 0 /\ faults = 0 /\ holder = NoTask /\ lost \in BOOLEAN
        BY <1>1 DEF Init
      <3>3. begun \in 0..MaxOperations /\ faults \in 0..MaxFaults
        BY <3>2, RequestsAssumption DEF RequestsAssumption
      <3>4. QED
        BY <3>1, <3>2, <3>3 DEF Others
    <2>3. \A t \in Task : task[t].at = "idle"
      BY <1>1 DEF Init, Idle
    <2>4. \A t \in Task : TaskInv(t)
      BY <2>3 DEF TaskInv, Issues, Redeems, ToldSo, HitsCounted, EndedAsAsked, IsActive, At
    <2>5. QED
      BY <2>1, <2>2, <2>4
  <1>2. QED
    BY <1>1 DEF RequestsInv

\* Every step keeps the invariant.
LEMMA NextInv == RequestsInv /\ [Next]_vars => RequestsInv'
  <1>1. ASSUME RequestsInv, UNCHANGED vars
        PROVE  RequestsInv'
    BY <1>1 DEF vars, RequestsInv, Tokens, Others, TaskInv, Issues, Redeems, ToldSo,
       HitsCounted, EndedAsAsked, IsActive, At
  <1>2. ASSUME RequestsInv, NEW t \in Task, Step(t)
        PROVE  RequestsInv'
    BY <1>2, TakeTokenInv, AcquireInv, RedeemedInv, RedeemFailsInv, AnsweredInv, RejectedInv,
       UnansweredInv DEF Step
  <1>3. QED
    BY <1>1, <1>2, BeginInv, FaultInv DEF Next, Operation

\* The invariant holds.
LEMMA RequestsInvHolds == Spec => []RequestsInv
  BY InitInv, NextInv, PTL DEF Spec

\* What the invariant says of a task that redeems, or has ended.
LEMMA InvImplies == RequestsInv => TypeOK /\ SpentOnce /\ RefreshedOnce /\ EndsAsAsked
  <1> SUFFICES ASSUME RequestsInv
               PROVE  TypeOK /\ SpentOnce /\ RefreshedOnce /\ EndsAsAsked
    OBVIOUS
  <1>1. ASSUME NEW t \in Task
        PROVE  \/ task[t] = Idle
               \/ At(t, "ended") /\ task[t].op \in Operation
               \/ /\ task[t].at \in {"token", "wait", "redeem", "send"} /\ task[t].op \in Operation
                  /\ task[t].attempt \in 0..MaxTries - 1
                  /\ task[t].token \in 0..server.number /\ task[t].presents \in 0..server.number
    <2>1. CASE task[t] \in Over
      BY <2>1 DEF Over, At
    <2>2. CASE task[t] \in Active
      BY <2>2 DEF Active, RequestsInv, Tokens, TaskInv, Issues, IsActive
    <2>3. QED
      BY <2>1, <2>2 DEF RequestsInv, Others
  <1>2. TypeOK
    BY <1>1 DEF TypeOK, RequestsInv, Tokens, Others
  <1>3. SpentOnce
    BY DEF SpentOnce, RequestsInv, Tokens, TaskInv, Redeems
  <1>4. RefreshedOnce
    BY DEF RefreshedOnce, RequestsInv, TaskInv, Redeems
  <1>5. EndsAsAsked
    BY DEF EndsAsAsked, RequestsInv, TaskInv, EndedAsAsked
  <1>6. QED
    BY <1>2, <1>3, <1>4, <1>5

\* TypeOK, for any tasks, tries and faults: no token is used that was not issued.
THEOREM RequestsTypeCorrect == Spec => []TypeOK
  BY RequestsInvHolds, InvImplies, PTL

\* SpentOnce: the lock of the TokenManager (oauth.py:228-229) keeps tasks from
\* presenting a refresh token twice, whatever is revoked or expires meanwhile.
THEOREM RefreshTokensSpentOnce == Spec => []SpentOnce
  BY RequestsInvHolds, InvImplies, PTL

\* RefreshedOnce: of the tasks that were told 401 for one token only the first
\* to get the lock redeems; the others find a newer token.
THEOREM TasksRefreshOnce == Spec => []RefreshedOnce
  BY RequestsInvHolds, InvImplies, PTL

\* EndsAsAsked: through retries, refreshes and lost answers a request that ends
\* well was carried out, and one that fails has used its tries, or was refused
\* twice, or could not refresh.
THEOREM RequestsEndAsAsked == Spec => []EndsAsAsked
  BY RequestsInvHolds, InvImplies, PTL
===================================================================================
