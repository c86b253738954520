---------------------------- MODULE CredentialsProofs ----------------------------
(***************************************************************************)
(* The vault of Credentials, for any tasks, providers and credentials,     *)
(* when one copy of it is in use, one task saves and one operation is      *)
(* under way at a provider at a time.  The map that a task writes may be   *)
(* older than the copy in memory: where it is, it says what the file says, *)
(* and the task whose secret it lacks has still to save.                   *)
(***************************************************************************)
EXTENDS Credentials, TLAPS

Writing(t) == job[t].at \in {"write", "replace"}
SavingAt(n) == \E u \in Task : Saving(u) /\ job[u].name = n
OpenAt(n) == \E u \in Task : job[u].at = "open" /\ job[u].name = n
Copy(t) == vaults[job[t].vault]

\* All that are at work have one copy of the vault, one of them writes, and
\* each has a provider of its own.
Orderly ==
    /\ \A t, u \in Task : Busy(t) /\ Busy(u) => job[t].vault = job[u].vault
    /\ \A t \in Task : Busy(t) /\ current # 0 => job[t].vault = current
    /\ \A t, u \in Task : Busy(t) /\ Busy(u) /\ t # u => job[t].name # job[u].name
    /\ \A t, u \in Task : Writing(t) /\ Writing(u) => t = u

\* A copy in use differs from the file only where a task is saving.
Same ==
    \A v \in Index, n \in Name :
        v \in InUse => vaults[v][n] = disk[n] \/ SavingAt(n)

\* What a task writes, and where.
Writes(t) ==
    /\ Busy(t) /\ job[t].at # "write" => job[t].handle = "none"
    /\ Writing(t) =>
          /\ job[t].map \in Secrets
          /\ IF job[t].at = "write" THEN job[t].handle = "temp" /\ temp = Empty
             ELSE temp = job[t].map
          /\ \A n \in Name : \/ job[t].map[n] = Copy(t)[n]
                             \/ job[t].map[n] = disk[n] /\ OpenAt(n)

\* How far a task has come with its provider.
Works(t) == job[t].cred # NoCred /\ job[t].cred \in accepted[job[t].name]
Registered(t) == job[t].name \in rows

Stage(t) ==
    /\ job[t].op = "add" => ~Registered(t)
    /\ job[t].op # "add" => Registered(t)
    /\ Saving(t) =>
          /\ Secret(t) = job[t].cred
          /\ \/ job[t].op \in {"add", "reauth"} /\ job[t].then = "testing" /\ Works(t)
             \/ job[t].op = "add" /\ job[t].then = "idle" /\ job[t].cred = NoCred
             \/ job[t].op = "remove" /\ job[t].then = "dropping" /\ job[t].cred = NoCred
             \/ job[t].op = "use" /\ job[t].then = "using" /\ Works(t)
    /\ job[t].at = "consenting" => job[t].op \in {"add", "reauth"}
    /\ job[t].at = "testing" => job[t].op \in {"add", "reauth"} /\ Secret(t) = job[t].cred /\ Works(t)
    /\ job[t].at = "removing" => job[t].op = "remove"
    /\ job[t].at = "dropping" => job[t].op = "remove" /\ Secret(t) = NoCred
    /\ job[t].at = "using" => job[t].op = "use"
    /\ job[t].at = "redeemed" => job[t].op = "use" /\ Works(t)

\* A provider's row and secret go together, and the secret is accepted.
Good(n) == (n \in rows <=> disk[n] # NoCred) /\ (n \in rows => disk[n] \in accepted[n])

CareInv ==
    /\ disk \in Secrets
    /\ Orderly /\ Same
    /\ \A t \in Task : Writes(t)
    /\ \A t \in Task : Busy(t) => Stage(t)
    /\ \A n \in Name : Quiet(n) => Good(n)

CredentialsInv == TypeOK /\ (Careful => CareInv)

----------------------------------------------------------------------------
(* Tasks.                                                                  *)

\* What a task at work is.
LEMMA TaskFacts ==
    ASSUME TypeOK, NEW t \in Task
    PROVE  /\ Busy(t) => /\ job[t] \in Work /\ job[t].at \in Phase /\ job[t].name \in Name
                         /\ job[t].op \in {"add", "reauth", "remove", "use"}
                         /\ job[t].vault \in Index /\ job[t].cred \in Cred \cup {NoCred}
                         /\ job[t].map \in Secrets \cup {NoFile}
                         /\ job[t].handle \in {"none", "temp", "disk", "gone"}
                         /\ job[t].then \in Phase \cup {"idle"}
           /\ ~Busy(t) => job[t] = Idle
  BY DEF TypeOK, Busy, Work, Idle, Phase

\* One task goes on, the others stay where they are.
LEMMA OneMoves ==
    ASSUME TypeOK, NEW t \in Task, NEW j \in Work \cup {Idle}, Become(t, j)
    PROVE  /\ job' \in [Task -> Work \cup {Idle}] /\ job'[t] = j
           /\ \A u \in Task : u # t => job'[u] = job[u]
  BY DEF TypeOK, Become

\* A task at another place, with another credential.
Place(w, p, q, c) == [w EXCEPT !.at = p, !.then = q, !.cred = c]

LEMMA PlaceFacts ==
    ASSUME NEW w \in Work, NEW p \in Phase, NEW q \in Phase \cup {"idle"},
           NEW c \in Cred \cup {NoCred}, NEW j, j = Place(w, p, q, c)
    PROVE  /\ j \in Work /\ j.at = p /\ j.then = q /\ j.cred = c
           /\ j.op = w.op /\ j.name = w.name /\ j.vault = w.vault /\ j.map = w.map
           /\ j.handle = w.handle
  BY DEF Work, Place

LEMMA SetSecretFacts ==
    ASSUME TypeOK, NEW t \in Task, Busy(t), NEW c \in Cred \cup {NoCred},
           NEW q \in Phase \cup {"idle"}, SetSecret(t, c, q)
    PROVE  /\ job' \in [Task -> Work \cup {Idle}]
           /\ \A u \in Task : u # t => job'[u] = job[u]
           /\ job'[t].at = "open" /\ job'[t].then = q /\ job'[t].cred = c
           /\ job'[t].op = job[t].op /\ job'[t].name = job[t].name /\ job'[t].vault = job[t].vault
           /\ job'[t].handle = job[t].handle
           /\ vaults' \in [Index -> Secrets]
           /\ \A v \in Index, n \in Name :
                 vaults'[v][n] = IF v = job[t].vault /\ n = job[t].name THEN c ELSE vaults[v][n]
  <1> DEFINE j == Place(job[t], "open", q, c)
  <1>1. job[t] \in Work /\ "open" \in Phase /\ job[t].vault \in Index /\ job[t].name \in Name
    BY TaskFacts DEF Phase
  <1>2. /\ j \in Work /\ j.at = "open" /\ j.then = q /\ j.cred = c
        /\ j.op = job[t].op /\ j.name = job[t].name /\ j.vault = job[t].vault
        /\ j.handle = job[t].handle
    BY <1>1, PlaceFacts
  <1>3. Become(t, j)
    BY DEF SetSecret, Become, TypeOK, Place
  <1> HIDE DEF j
  <1>4. /\ job' \in [Task -> Work \cup {Idle}] /\ job'[t] = j
        /\ \A u \in Task : u # t => job'[u] = job[u]
    BY <1>2, <1>3, OneMoves
  <1>5. /\ vaults' \in [Index -> Secrets]
        /\ \A v \in Index, n \in Name :
              vaults'[v][n] = IF v = job[t].vault /\ n = job[t].name THEN c ELSE vaults[v][n]
    BY <1>1 DEF SetSecret, TypeOK, Secrets
  <1>6. QED
    BY <1>2, <1>4, <1>5


----------------------------------------------------------------------------
(* Steps of one task that leave the vault alone.                           *)

\* It may be idle where the program says nothing of it.
LEMMA IdleFacts == Idle.at = "idle" /\ Idle \notin Work
  BY DEF Idle, Work, Phase

\* What is said of a provider at which another task is at work stays true.
LEMMA OthersStage ==
    ASSUME TypeOK, NEW u \in Task, Busy(u), Stage(u), job'[u] = job[u],
           rows' \subseteq Name,
           Secret(u)' = Secret(u), job[u].name \in rows' <=> job[u].name \in rows,
           accepted'[job[u].name] = accepted[job[u].name]
    PROVE  Stage(u)'
  BY DEF Stage, Secret, Registered, Works, Saving

\* A step between two calls, at one provider.
LEMMA TaskStep ==
    ASSUME TypeOK, CareInv, NEW t \in Task, Busy(t), ~Saving(t), ~Saving(t)',
           NEW n \in Name, n = job[t].name,
           \A u \in Task : u # t => job'[u] = job[u],
           Busy(t)' => /\ job'[t].name = job[t].name /\ job'[t].vault = job[t].vault
                       /\ job'[t].handle = job[t].handle /\ Stage(t)',
           UNCHANGED <<disk, temp, vaults, current>>, rows' \subseteq Name,
           \A m \in Name : m # n =>
               /\ m \in rows' <=> m \in rows
               /\ accepted'[m] = accepted[m]
               /\ m \in cutShort => m \in cutShort',
           Quiet(n)' => Good(n)'
    PROVE  CareInv'
  <1>1. \A u \in Task : /\ Busy(u)' => /\ Busy(u) /\ job'[u].name = job[u].name
                                      /\ job'[u].vault = job[u].vault
                        /\ Saving(u) <=> Saving(u)'
                        /\ Saving(u) => job'[u] = job[u]
                        /\ Writing(u) <=> Writing(u)'
                        /\ Writing(u) => job'[u] = job[u]
                        /\ job[u].at = "open" => job'[u] = job[u]
    BY DEF Busy, Saving, Writing
  <1>2. \A m \in Name : (SavingAt(m) => SavingAt(m)') /\ (OpenAt(m) => OpenAt(m)')
    BY <1>1 DEF SavingAt, OpenAt
  <1>3. Orderly'
    BY <1>1 DEF CareInv, Orderly
  <1>4. InUse' \subseteq InUse
    BY <1>1 DEF InUse
  <1>5. Same'
    BY <1>2, <1>4 DEF CareInv, Same
  <1>6. ASSUME NEW u \in Task
        PROVE  Writes(u)'
    <2>1. Writes(u)
      BY DEF CareInv
    <2>2. CASE Writing(u)'
      BY <1>1, <1>2, <2>1, <2>2 DEF Writes, Copy, Writing
    <2>3. CASE ~Writing(u)'
      BY <1>1, <2>1, <2>3 DEF Writes, Writing, Busy
    <2>4. QED
      BY <2>2, <2>3
  <1>7. ASSUME NEW u \in Task, Busy(u)'
        PROVE  Stage(u)'
    <2>1. CASE u = t
      BY <1>7, <2>1
    <2>2. CASE u # t
      <3>1. Busy(u) /\ Stage(u) /\ job'[u] = job[u] /\ job[u].name # job[t].name /\ job[u].name \in Name
        BY <1>1, <1>7, <2>2, TaskFacts DEF CareInv, Orderly
      <3>2. Secret(u)' = Secret(u)
        BY <3>1 DEF Secret
      <3>3. QED
        BY <3>1, <3>2, OthersStage
    <2>3. QED
      BY <2>1, <2>2
  <1>8. ASSUME NEW m \in Name, Quiet(m)'
        PROVE  Good(m)'
    <2>1. CASE m = n
      BY <1>8, <2>1
    <2>2. CASE m # n
      <3>1. \A u \in Task : Busy(u) /\ job[u].name = m => job'[u] = job[u] /\ u # t
        BY <2>2
      <3>2. Quiet(m)
        BY <1>8, <2>2, <3>1 DEF Quiet, Busy, Exposed, Saving
      <3>3. QED
        BY <2>2, <3>2 DEF CareInv, Good
    <2>3. QED
      BY <2>1, <2>2
  <1>9. QED
    BY <1>3, <1>5, <1>6, <1>7, <1>8 DEF CareInv

\* What a task that is to save puts into the copy in memory.
LEMMA SecretStep ==
    ASSUME TypeOK, CareInv, NEW t \in Task, Busy(t), ~Saving(t),
           NEW n \in Name, n = job[t].name, NEW v \in Index, v = job[t].vault,
           NEW c \in Cred \cup {NoCred}, NEW q \in Phase \cup {"idle"}, SetSecret(t, c, q),
           UNCHANGED <<disk, temp, current, rows, cutShort>>,
           Stage(t)',
           \A m \in Name : m # n => accepted'[m] = accepted[m],
           Quiet(n)' => Good(n)'
    PROVE  CareInv'
  <1>1. /\ \A u \in Task : u # t => job'[u] = job[u]
        /\ job'[t].at = "open" /\ job'[t].name = n /\ job'[t].vault = v
        /\ job'[t].handle = job[t].handle
        /\ \A w \in Index, m \in Name :
              vaults'[w][m] = IF w = v /\ m = n THEN c ELSE vaults[w][m]
    BY SetSecretFacts
  <1>2. \A u \in Task : /\ Busy(u) <=> Busy(u)'
                        /\ job'[u].name = job[u].name \/ ~Busy(u)
                        /\ job'[u].vault = job[u].vault \/ ~Busy(u)
                        /\ Saving(u) => job'[u] = job[u]
                        /\ Writing(u) <=> Writing(u)'
                        /\ Writing(u) => u # t /\ job'[u] = job[u]
                        /\ job[u].at = "open" => job'[u] = job[u]
    BY <1>1 DEF Busy, Saving, Writing
  <1>3. \A m \in Name : (SavingAt(m) => SavingAt(m)') /\ (OpenAt(m) => OpenAt(m)')
    BY <1>2 DEF SavingAt, OpenAt, Saving
  <1>4. SavingAt(n)' /\ OpenAt(n)'
    BY <1>1 DEF SavingAt, OpenAt, Saving
  <1>5. ~SavingAt(n) /\ ~OpenAt(n)
    BY DEF SavingAt, OpenAt, Saving, Busy, CareInv, Orderly
  <1>6. Orderly'
    BY <1>2 DEF CareInv, Orderly
  <1>7. InUse' = InUse /\ v \in InUse
    BY <1>2 DEF InUse
  <1>8. Same'
    BY <1>1, <1>3, <1>4, <1>7 DEF CareInv, Same
  <1>9. ASSUME NEW u \in Task
         PROVE  Writes(u)'
    <2>1. Writes(u)
      BY DEF CareInv
    <2>2. CASE Writing(u)'
      <3>1. Writing(u) /\ u # t /\ job'[u] = job[u] /\ Busy(u) /\ job[u].vault \in Index
        BY <1>2, <2>2, TaskFacts DEF Writing, Busy
      <3>2. job[u].vault = v
        BY <3>1 DEF CareInv, Orderly
      <3>3. ASSUME NEW m \in Name
            PROVE  job'[u].map[m] = Copy(u)'[m] \/ (job'[u].map[m] = disk'[m] /\ OpenAt(m)')
        <4>1. job[u].map[m] = Copy(u)[m] \/ (job[u].map[m] = disk[m] /\ OpenAt(m))
          BY <2>1, <3>1 DEF Writes
        <4>2. CASE m = n
          <5>1. job[u].map[m] = vaults[v][m] /\ vaults[v][m] = disk[m]
            BY <1>5, <1>7, <3>2, <4>1, <4>2 DEF Copy, CareInv, Same
          <5>2. QED
            BY <1>4, <3>1, <4>2, <5>1
        <4>3. CASE m # n
          BY <1>1, <1>3, <3>1, <4>1, <4>3 DEF Copy
        <4>4. QED
          BY <4>2, <4>3
      <3>4. QED
        BY <2>1, <3>1, <3>3 DEF Writes, Writing, Busy
    <2>3. CASE ~Writing(u)'
      BY <1>1, <1>2, <2>1, <2>3 DEF Writes, Writing, Busy
    <2>4. QED
      BY <2>2, <2>3
  <1>10. ASSUME NEW u \in Task, Busy(u)'
         PROVE  Stage(u)'
    <2>1. CASE u = t
      BY <1>10, <2>1
    <2>2. CASE u # t
      <3>1. /\ Busy(u) /\ Stage(u) /\ job'[u] = job[u] /\ job[u].name # n /\ job[u].name \in Name
            /\ job[u].vault \in Index
        BY <1>1, <1>2, <1>10, <2>2, TaskFacts DEF CareInv, Orderly
      <3>2. Secret(u)' = Secret(u)
        BY <1>1, <3>1 DEF Secret
      <3>3. rows' \subseteq Name
        BY DEF TypeOK
      <3>4. QED
        BY <3>1, <3>2, <3>3, OthersStage
    <2>3. QED
      BY <2>1, <2>2
  <1>11. ASSUME NEW m \in Name, Quiet(m)'
         PROVE  Good(m)'
    <2>1. CASE m = n
      BY <1>11, <2>1
    <2>2. CASE m # n
      <3>1. \A u \in Task : Busy(u) /\ job[u].name = m => job'[u] = job[u] /\ u # t
        BY <1>1, <2>2
      <3>2. Quiet(m)
        BY <1>11, <2>2, <3>1 DEF Quiet, Busy, Exposed, Saving
      <3>3. QED
        BY <2>2, <3>2 DEF CareInv, Good
    <2>3. QED
      BY <2>1, <2>2
  <1>12. QED
    BY <1>6, <1>8, <1>9, <1>10, <1>11 DEF CareInv


----------------------------------------------------------------------------
(* Saving.                                                                 *)

\* The file is opened or written by the one task that does.
LEMMA SaveStep ==
    ASSUME TypeOK, CareInv, NEW t \in Task, Saving(t),
           \A u \in Task : u # t => job'[u] = job[u] /\ ~Writing(u),
           job'[t].at \in {"write", "replace"},
           job'[t].op = job[t].op, job'[t].name = job[t].name, job'[t].vault = job[t].vault,
           job'[t].cred = job[t].cred, job'[t].then = job[t].then,
           UNCHANGED <<rows, disk, vaults, current, accepted, cutShort>>,
           Writes(t)'
    PROVE  CareInv'
  <1>1. \A u \in Task : /\ Busy(u) <=> Busy(u)'
                        /\ Saving(u) <=> Saving(u)'
                        /\ job'[u].name = job[u].name /\ job'[u].vault = job[u].vault
                        /\ Exposed(u) <=> Exposed(u)'
    BY DEF Busy, Saving, Exposed
  <1>2. \A u \in Task : Writing(u)' => u = t
    BY DEF Writing
  <1>3. Orderly'
    BY <1>1, <1>2 DEF CareInv, Orderly
  <1>4. Same'
    BY <1>1 DEF CareInv, Same, SavingAt, InUse
  <1>5. ASSUME NEW u \in Task
        PROVE  Writes(u)'
    BY <1>2 DEF CareInv, Writes, Writing, Busy
  <1>6. ASSUME NEW u \in Task, Busy(u)'
        PROVE  Stage(u)'
    <2>1. Busy(u) /\ Stage(u)
      BY <1>1, <1>6 DEF CareInv
    <2>2. CASE u = t
      BY <2>1, <2>2 DEF Stage, Saving, Secret, Registered, Works
    <2>3. CASE u # t
      BY <2>1, <2>3 DEF Stage, Saving, Secret, Registered, Works
    <2>4. QED
      BY <2>2, <2>3
  <1>7. \A m \in Name : Quiet(m)' => Good(m)'
    BY <1>1 DEF CareInv, Quiet, Good
  <1>8. QED
    BY <1>3, <1>4, <1>5, <1>6, <1>7 DEF CareInv

\* The file is replaced: it has the secret of the task, and of the others what
\* it had, or what they have still to save.
LEMMA ReplaceStep ==
    ASSUME TypeOK, CareInv, NEW t \in Task, SaveReplaces(t)
    PROVE  CareInv'
  <1>1. job[t].at = "replace" /\ Busy(t) /\ Saving(t) /\ Writing(t)
    BY DEF SaveReplaces, Busy, Saving, Writing
  <1>2. PICK n \in Name, v \in Index : n = job[t].name /\ v = job[t].vault
    BY <1>1, TaskFacts
  <1> DEFINE map == job[t].map
  <1>3. /\ map \in Secrets /\ temp = map /\ job[t].handle = "none" /\ Stage(t) /\ job[t] \in Work
        /\ \A m \in Name : map[m] = vaults[v][m] \/ (map[m] = disk[m] /\ OpenAt(m))
    BY <1>1, <1>2, TaskFacts DEF CareInv, Writes, Copy
  <1>4. /\ disk' = map /\ job' = [u \in Task |-> IF u = t THEN Resumed(t)
                                      ELSE IF Busy(u) THEN [job[u] EXCEPT !.handle = Moved(@)]
                                      ELSE job[u]]
        /\ UNCHANGED <<rows, vaults, current, accepted, issued, cutShort>>
    BY <1>1, <1>3, AbsenceAssumption DEF SaveReplaces, AbsenceAssumption
  <1>5. \A u \in Task : Busy(u) /\ u # t => /\ ~Writing(u) /\ job[u].handle = "none" /\ job[u] \in Work
                                            /\ job[u].name # n /\ job[u].vault = v
    BY <1>1, <1>2, TaskFacts DEF CareInv, Orderly, Writes, Writing
  <1>6. ASSUME NEW u \in Task, u # t
        PROVE  job'[u] = job[u]
    <2>1. CASE Busy(u)
      <3>1. job[u] \in Work /\ job[u].handle = "none"
        BY <1>5, <1>6, <2>1
      <3>2. job'[u] = [job[u] EXCEPT !.handle = "none"]
        BY <1>4, <1>6, <2>1, <3>1 DEF Moved
      <3>3. QED
        BY <3>1, <3>2 DEF Work
    <2>2. CASE ~Busy(u)
      BY <1>4, <1>6, <2>2
    <2>3. QED
      BY <2>1, <2>2
  <1>7. /\ job'[t] = Resumed(t)
        /\ job[t].then = "idle" => job'[t] = Idle
        /\ job[t].then # "idle" => /\ job'[t].at = job[t].then /\ job'[t].op = job[t].op
                                   /\ job'[t].name = n /\ job'[t].vault = v
                                   /\ job'[t].cred = job[t].cred /\ job'[t].handle = "none"
    <2>1. job'[t] = Resumed(t)
      BY <1>4
    <2>2. QED
      BY <1>2, <1>3, <2>1 DEF Resumed, Work
  <1>8. job[t].then \in {"testing", "idle", "dropping", "using"}
    BY <1>1, <1>3 DEF Stage
  <1>9. /\ Busy(t)' <=> job[t].then # "idle"
        /\ ~Saving(t)' /\ ~Writing(t)' /\ job'[t].at # "open"
    BY <1>7, <1>8 DEF Busy, Saving, Writing, Idle
  <1>10. /\ \A u \in Task : /\ Busy(u)' => Busy(u) /\ job'[u].name = job[u].name /\ job'[u].vault = v
                            /\ ~Writing(u)'
         /\ \A m \in Name : OpenAt(m) => OpenAt(m)' /\ SavingAt(m)'
    <2>1. ASSUME NEW u \in Task
          PROVE  /\ Busy(u)' => Busy(u) /\ job'[u].name = job[u].name /\ job'[u].vault = v
                 /\ ~Writing(u)'
      <3>1. CASE u = t
        BY <1>1, <1>2, <1>7, <1>9, <3>1
      <3>2. CASE u # t
        BY <1>5, <1>6, <3>2 DEF Busy, Writing
      <3>3. QED
        BY <3>1, <3>2
    <2>2. \A m \in Name : OpenAt(m) => OpenAt(m)' /\ SavingAt(m)'
      BY <1>1, <1>6 DEF OpenAt, SavingAt, Saving
    <2>3. QED
      BY <2>1, <2>2
  <1>11. map[n] = job[t].cred
    <2>1. ~OpenAt(n)
      BY <1>1, <1>5 DEF OpenAt, Busy
    <2>2. QED
      BY <1>1, <1>2, <1>3, <2>1 DEF Stage, Secret
  <1> HIDE DEF map
  <1>12. Orderly'
    <2>1. current # 0 => v = current
      BY <1>1, <1>2 DEF CareInv, Orderly
    <2>2. \A u, w \in Task : Busy(u) /\ Busy(w) /\ u # w => job[u].name # job[w].name
      BY DEF CareInv, Orderly
    <2>3. QED
      BY <1>4, <1>10, <2>1, <2>2 DEF Orderly
  <1>13. Same'
    <2>1. ASSUME NEW w \in Index, w \in InUse'
          PROVE  w = v
      <3>1. 0 \notin Index
        BY DEF Index
      <3>2. w = current \/ \E u \in Task : Busy(u)' /\ w = job'[u].vault
        BY <1>4, <2>1 DEF InUse
      <3>3. current # 0 => current = v
        BY <1>1, <1>2 DEF CareInv, Orderly
      <3>4. QED
        BY <1>10, <3>1, <3>2, <3>3
    <2>2. QED
      BY <1>3, <1>4, <1>10, <2>1 DEF Same
  <1>14. ASSUME NEW u \in Task
         PROVE  Writes(u)'
    <2>1. Busy(u)' => job'[u].handle = "none"
      <3>1. CASE u = t
        BY <1>7, <1>9, <3>1
      <3>2. CASE u # t
        BY <1>5, <1>6, <3>2 DEF Busy
      <3>3. QED
        BY <3>1, <3>2
    <2>2. QED
      BY <1>10, <2>1 DEF Writes
  <1>15. Registered(t) <=> n \in rows
    BY <1>2 DEF Registered
  <1>16. Works(t) => job[t].cred # NoCred /\ job[t].cred \in accepted[n]
    BY <1>2 DEF Works
  <1>17. ASSUME NEW u \in Task, Busy(u)'
         PROVE  Stage(u)'
    <2>1. CASE u = t
      <3>1. job[t].then # "idle"
        BY <1>9, <1>17, <2>1
      <3>2. Registered(t)' <=> Registered(t)
        BY <1>2, <1>4, <1>7, <3>1 DEF Registered
      <3>3. Works(t)' <=> Works(t)
        BY <1>2, <1>4, <1>7, <3>1 DEF Works
      <3>4. Secret(t)' = Secret(t)
        BY <1>2, <1>4, <1>7, <3>1 DEF Secret
      <3>5. QED
        BY <1>1, <1>3, <1>7, <1>9, <2>1, <3>1, <3>2, <3>3, <3>4 DEF Stage
    <2>2. CASE u # t
      <3>1. Busy(u) /\ Stage(u) /\ job'[u] = job[u] /\ job[u].name \in Name
        BY <1>6, <1>10, <1>17, <2>2, TaskFacts DEF CareInv
      <3>2. Secret(u)' = Secret(u)
        BY <1>4, <3>1 DEF Secret
      <3>3. rows' \subseteq Name
        BY <1>4 DEF TypeOK
      <3>4. QED
        BY <1>4, <3>1, <3>2, <3>3, OthersStage
    <2>3. QED
      BY <2>1, <2>2
  <1>18. ASSUME NEW m \in Name, Quiet(m)'
         PROVE  Good(m)'
    <2>1. CASE m = n
      <3>1. ~(Busy(t)' /\ Exposed(t)')
        BY <1>1, <1>2, <1>10, <1>18, <2>1 DEF Quiet
      <3>2. CASE job[t].then = "idle"
        BY <1>1, <1>3, <1>4, <1>11, <1>15, <2>1, <3>2 DEF Stage, Good
      <3>3. CASE job[t].then # "idle"
        <4>1. n \in rows /\ Works(t)
          BY <1>1, <1>3, <1>7, <1>9, <1>15, <3>1, <3>3 DEF Stage, Exposed
        <4>2. QED
          BY <1>4, <1>11, <1>16, <2>1, <4>1 DEF Good
      <3>4. QED
        BY <3>2, <3>3
    <2>2. CASE m # n
      <3>1. \A u \in Task : Busy(u) /\ job[u].name = m => u # t /\ job'[u] = job[u]
        BY <1>2, <1>6, <2>2
      <3>2. Quiet(m)
        BY <1>4, <1>18, <3>1 DEF Quiet, Busy, Exposed, Saving
      <3>3. Good(m)
        BY <3>2 DEF CareInv
      <3>4. CASE map[m] = disk[m]
        BY <1>4, <3>3, <3>4 DEF Good
      <3>5. CASE map[m] # disk[m]
        <4>1. map[m] = vaults[v][m] /\ v \in InUse
          BY <1>1, <1>2, <1>3, <3>5 DEF InUse
        <4>2. PICK u \in Task : Saving(u) /\ job[u].name = m
          BY <3>5, <4>1 DEF CareInv, Same, SavingAt
        <4>3. Busy(u) /\ u # t /\ job[u].vault = v /\ Stage(u)
          BY <1>2, <1>5, <2>2, <4>2 DEF CareInv, Busy, Saving
        <4>4. job[u].op = "reauth"
          BY <3>2, <4>2, <4>3 DEF Quiet, Exposed
        <4>5. Registered(u) /\ Works(u) /\ Secret(u) = job[u].cred
          BY <4>2, <4>3, <4>4 DEF Stage
        <4>6. m \in rows /\ map[m] # NoCred /\ map[m] \in accepted[m]
          BY <4>1, <4>2, <4>3, <4>5 DEF Registered, Works, Secret
        <4>7. QED
          BY <1>4, <4>6 DEF Good
      <3>6. QED
        BY <3>4, <3>5
    <2>3. QED
      BY <2>1, <2>2
  <1>19. disk' \in Secrets
    BY <1>3, <1>4
  <1>20. QED
    BY <1>12, <1>13, <1>14, <1>17, <1>18, <1>19 DEF CareInv


----------------------------------------------------------------------------
(* Tasks begin.                                                            *)

\* With the daemon's copy of the vault, or with a new one of their own.
LEMMA GivenStep ==
    ASSUME TypeOK, CareInv, Careful, NEW t \in Task, ~Busy(t), NEW n \in Name, NEW v \in Index,
           Alone(t, n), Given(t, v), Busy(t)', ~Saving(t)',
           \A u \in Task : u # t => job'[u] = job[u],
           job'[t].name = n, job'[t].vault = v, job'[t].handle = "none",
           Stage(t)', ~Exposed(t)',
           UNCHANGED <<rows, disk, temp, current, accepted, cutShort>>
    PROVE  CareInv'
  <1>1. \/ v = current /\ current # 0 /\ UNCHANGED vaults
        \/ /\ current = 0 /\ \A u \in Task : ~Busy(u)
           /\ vaults' = [vaults EXCEPT ![v] = disk]
    BY DEF Given, Loaded
  <1>2. \A u \in Task : /\ u # t => Busy(u) <=> Busy(u)'
                        /\ Saving(u) <=> Saving(u)'
                        /\ Writing(u) <=> Writing(u)'
                        /\ Saving(u) => job'[u] = job[u]
                        /\ Busy(u) /\ u # t => job[u].name # n /\ job[u].vault = v
    BY <1>1 DEF Busy, Saving, Writing, CareInv, Orderly, Alone
  <1>3. Orderly'
    <2>1. current # 0 => v = current
      BY <1>1
    <2>2. \A u \in Task : Busy(u)' => job'[u].vault = v
      BY <1>2
    <2>3. \A u, w \in Task : Busy(u)' /\ Busy(w)' /\ u # w => job'[u].name # job'[w].name
      <3>1. \A u, w \in Task : Busy(u) /\ Busy(w) /\ u # w => job[u].name # job[w].name
        BY DEF CareInv, Orderly
      <3>2. QED
        BY <1>2, <3>1
    <2>4. \A u, w \in Task : Writing(u)' /\ Writing(w)' => u = w
      BY <1>2 DEF CareInv, Orderly
    <2>5. QED
      BY <2>1, <2>2, <2>3, <2>4 DEF Orderly
  <1>4. \A m \in Name : (SavingAt(m) => SavingAt(m)') /\ (OpenAt(m) => OpenAt(m)')
    BY <1>2 DEF SavingAt, OpenAt, Saving
  <1>5. ASSUME NEW w \in Index, w \in InUse', NEW m \in Name
        PROVE  vaults'[w][m] = disk'[m] \/ SavingAt(m)'
    <2>1. 0 \notin Index
      BY DEF Index
    <2>2. w = v
      <3>1. w = current \/ \E u \in Task : Busy(u)' /\ w = job'[u].vault
        BY <1>5 DEF InUse
      <3>2. CASE w = current
        BY <1>1, <2>1, <3>2
      <3>3. CASE \E u \in Task : Busy(u)' /\ w = job'[u].vault
        BY <1>2, <3>3
      <3>4. QED
        BY <3>1, <3>2, <3>3
    <2>3. CASE v = current /\ UNCHANGED vaults
      BY <1>4, <2>2, <2>3 DEF CareInv, Same, InUse
    <2>4. CASE vaults' = [vaults EXCEPT ![v] = disk]
      BY <2>2, <2>4 DEF TypeOK
    <2>5. QED
      BY <1>1, <2>3, <2>4
  <1>6. Same'
    BY <1>5 DEF Same
  <1>7. ASSUME NEW u \in Task
        PROVE  Writes(u)'
    <2>1. CASE u = t
      BY <1>2, <2>1 DEF Writes, Saving, Writing
    <2>2. CASE u # t
      <3>1. Writes(u) /\ (Busy(u) => v = current /\ UNCHANGED vaults)
        BY <1>1 DEF CareInv
      <3>2. Writing(u) => Busy(u)
        BY DEF Writing, Busy
      <3>3. QED
        BY <1>2, <1>4, <2>2, <3>1, <3>2 DEF Writes, Copy, Busy, Writing
    <2>3. QED
      BY <2>1, <2>2
  <1>8. ASSUME NEW u \in Task, Busy(u)'
        PROVE  Stage(u)'
    <2>1. CASE u = t
      BY <2>1
    <2>2. CASE u # t
      <3>1. Busy(u) /\ Stage(u) /\ job'[u] = job[u] /\ UNCHANGED vaults
        BY <1>1, <1>2, <1>8, <2>2 DEF CareInv
      <3>2. Secret(u)' = Secret(u)
        BY <3>1 DEF Secret
      <3>3. rows' \subseteq Name
        BY DEF TypeOK
      <3>4. QED
        BY <3>1, <3>2, <3>3, OthersStage
    <2>3. QED
      BY <2>1, <2>2
  <1>9. ASSUME NEW m \in Name, Quiet(m)'
        PROVE  Good(m)'
    <2>1. \A u \in Task : Busy(u) => u # t /\ job'[u] = job[u]
      OBVIOUS
    <2>2. Quiet(m)
      BY <1>9, <2>1 DEF Quiet, Busy, Exposed, Saving
    <2>3. QED
      BY <2>2 DEF CareInv, Good
  <1>10. QED
    BY <1>3, <1>6, <1>7, <1>8, <1>9 DEF CareInv

----------------------------------------------------------------------------
(* Types.                                                                  *)

\* A task as it starts.
LEMMA StartingFacts ==
    ASSUME NEW op \in {"add", "reauth", "remove", "use"}, NEW phase \in Phase, NEW n \in Name,
           NEW v \in Index, NEW c \in Cred \cup {NoCred}, NEW j, j = Starting(op, phase, n, v, c)
    PROVE  /\ j \in Work /\ j.at = phase /\ j.op = op /\ j.name = n /\ j.vault = v
           /\ j.cred = c /\ j.handle = "none"
  BY DEF Starting, Work

\* The copy that a task is given has the form of one.
LEMMA GivenFacts ==
    ASSUME TypeOK, NEW t \in Task, NEW v \in Index, Given(t, v)
    PROVE  vaults' \in [Index -> Secrets]
  BY DEF Given, Loaded, TypeOK, File, Whole

\* The credential issued next.
LEMMA NextCred ==
    ASSUME TypeOK, issued + 1 \in Cred
    PROVE  issued + 1 \in 0..MaxCreds /\ issued + 1 # NoCred
  BY CredentialsAssumption DEF TypeOK, Cred, NoCred, CredentialsAssumption

\* A task ends, however it does.
LEMMA IdleStep ==
    ASSUME TypeOK, NEW t \in Task, Become(t, Idle)
    PROVE  /\ job' \in [Task -> Work \cup {Idle}] /\ job'[t] = Idle /\ ~Busy(t)' /\ ~Saving(t)'
           /\ \A u \in Task : u # t => job'[u] = job[u]
  BY OneMoves DEF Busy, Saving, Idle


----------------------------------------------------------------------------
(* The invariant is kept by every step of a task.                          *)

\* A provider is as quiet as it was, if its task was stopped where it might be.
LEMMA StillQuiet ==
    ASSUME TypeOK, CareInv, NEW t \in Task, Busy(t), NEW n \in Name, n = job[t].name,
           ~Exposed(t), n \notin cutShort
    PROVE  Good(n)
  <1>1. \A u \in Task : Busy(u) /\ job[u].name = n => u = t
    BY DEF CareInv, Orderly
  <1>2. Quiet(n)
    BY <1>1 DEF Quiet
  <1>3. QED
    BY <1>2 DEF CareInv

\* An exception.
LEMMA BreaksInv ==
    ASSUME CredentialsInv, NEW t \in Task, Busy(t), Breaks(t), Careful => ~Saving(t)
    PROVE  CredentialsInv'
  <1>1. TypeOK /\ (Careful => CareInv)
    BY DEF CredentialsInv
  <1>2. PICK n \in Name : n = job[t].name
    BY <1>1, TaskFacts
  <1>3. /\ job' \in [Task -> Work \cup {Idle}] /\ job'[t] = Idle /\ ~Busy(t)' /\ ~Saving(t)'
        /\ \A u \in Task : u # t => job'[u] = job[u]
    BY <1>1, IdleStep DEF Breaks
  <1>4. /\ cutShort' = cutShort \cup {m \in {n} : Exposed(t)}
        /\ UNCHANGED <<rows, disk, temp, vaults, current, accepted, issued>>
    BY <1>2 DEF Breaks
  <1>5. TypeOK'
    BY <1>1, <1>3, <1>4 DEF TypeOK
  <1>6. ASSUME Careful
        PROVE  CareInv'
    <2>1. Quiet(n)' => Good(n)'
      <3>1. SUFFICES ASSUME Quiet(n)'
                     PROVE  Good(n)'
        OBVIOUS
      <3>2. n \notin cutShort /\ ~Exposed(t)
        BY <1>4, <3>1 DEF Quiet
      <3>3. Good(n)
        BY <1>1, <1>2, <1>6, <3>2, StillQuiet
      <3>4. QED
        BY <1>4, <3>3 DEF Good
    <2>2. ~Saving(t) /\ CareInv /\ rows' \subseteq Name
      BY <1>1, <1>4, <1>6 DEF TypeOK
    <2>3. \A m \in Name : m # n =>
             /\ m \in rows' <=> m \in rows
             /\ accepted'[m] = accepted[m]
             /\ m \in cutShort => m \in cutShort'
      BY <1>4
    <2>4. QED
      BY <1>1, <1>2, <1>3, <1>4, <2>1, <2>2, <2>3, TaskStep
  <1>7. QED
    BY <1>5, <1>6 DEF CredentialsInv

\* A task ends where it may be stopped.
LEMMA EndsQuietly ==
    ASSUME CredentialsInv, NEW t \in Task, Busy(t), ~Saving(t), ~Exposed(t), Become(t, Idle),
           UNCHANGED <<rows, disk, temp, vaults, current, accepted, issued, cutShort>>
    PROVE  CredentialsInv'
  <1>1. {n \in {job[t].name} : Exposed(t)} = {}
    OBVIOUS
  <1>2. cutShort' = cutShort \cup {n \in {job[t].name} : Exposed(t)}
    BY <1>1
  <1>3. Breaks(t)
    BY <1>2 DEF Breaks
  <1>4. QED
    BY <1>3, BreaksInv

\* A task ends having done what it was to do.
LEMMA EndsWell ==
    ASSUME CredentialsInv, NEW t \in Task, Busy(t), ~Saving(t), Ends(t),
           NEW n \in Name, n = job[t].name, rows' \subseteq Name,
           \A m \in Name : m # n => (m \in rows' <=> m \in rows),
           UNCHANGED <<disk, temp, vaults, current, accepted, issued>>,
           Careful => Good(n)'
    PROVE  CredentialsInv'
  <1>1. TypeOK /\ (Careful => CareInv)
    BY DEF CredentialsInv
  <1>2. /\ job' \in [Task -> Work \cup {Idle}] /\ job'[t] = Idle /\ ~Busy(t)' /\ ~Saving(t)'
        /\ \A u \in Task : u # t => job'[u] = job[u]
    BY <1>1, IdleStep DEF Ends
  <1>3. cutShort' = cutShort \ {n}
    BY DEF Ends
  <1>4. TypeOK'
    BY <1>1, <1>2, <1>3 DEF TypeOK
  <1>5. ASSUME Careful
        PROVE  CareInv'
    <2>1. CareInv /\ (Quiet(n)' => Good(n)')
      BY <1>1, <1>5
    <2>2. \A m \in Name : m # n =>
             /\ m \in rows' <=> m \in rows
             /\ accepted'[m] = accepted[m]
             /\ m \in cutShort => m \in cutShort'
      BY <1>3
    <2>3. QED
      BY <1>1, <1>2, <2>1, <2>2, TaskStep
  <1>6. QED
    BY <1>4, <1>5 DEF CredentialsInv

\* A secret goes into the copy and is to be saved.
LEMMA SecretInv ==
    ASSUME CredentialsInv, NEW t \in Task, Busy(t), ~Saving(t),
           NEW c \in Cred \cup {NoCred}, NEW q \in Phase \cup {"idle"}, SetSecret(t, c, q),
           NEW n \in Name, n = job[t].name,
           UNCHANGED <<rows, disk, temp, current, cutShort>>,
           accepted' \in [Name -> SUBSET Cred], issued' \in 0..MaxCreds,
           \A m \in Name : m # n => accepted'[m] = accepted[m],
           Careful => Stage(t)' /\ (~Exposed(t)' /\ n \notin cutShort => Good(n)')
    PROVE  CredentialsInv'
  <1>1. TypeOK /\ (Careful => CareInv)
    BY DEF CredentialsInv
  <1>2. /\ job' \in [Task -> Work \cup {Idle}] /\ vaults' \in [Index -> Secrets]
        /\ job'[t].at = "open" /\ job'[t].name = n
    BY <1>1, SetSecretFacts
  <1>3. TypeOK'
    BY <1>1, <1>2 DEF TypeOK
  <1>4. ASSUME Careful
        PROVE  CareInv'
    <2>1. Quiet(n)' => Good(n)'
      BY <1>2, <1>4 DEF Quiet, Busy
    <2>2. PICK v \in Index : v = job[t].vault
      BY <1>1, TaskFacts
    <2>3. QED
      BY <1>1, <1>4, <2>1, <2>2, SecretStep
  <1>5. QED
    BY <1>3, <1>4 DEF CredentialsInv

\* What a task has with its secret on the way into the file.
LEMMA SecretStage ==
    ASSUME TypeOK, CareInv, NEW t \in Task, Busy(t), NEW c \in Cred \cup {NoCred},
           NEW q \in Phase \cup {"idle"}, SetSecret(t, c, q), UNCHANGED rows,
           NEW n \in Name, n = job[t].name,
           \/ job[t].op \in {"add", "reauth"} /\ q = "testing" /\ c # NoCred /\ c \in accepted'[n]
           \/ job[t].op = "add" /\ q = "idle" /\ c = NoCred
           \/ job[t].op = "remove" /\ q = "dropping" /\ c = NoCred
           \/ job[t].op = "use" /\ q = "using" /\ c # NoCred /\ c \in accepted'[n]
    PROVE  Stage(t)' /\ (Exposed(t)' <=> job[t].op # "reauth")
  <1>1. /\ job'[t].at = "open" /\ job'[t].then = q /\ job'[t].cred = c
        /\ job'[t].op = job[t].op /\ job'[t].name = n /\ job'[t].vault = job[t].vault
        /\ job[t].vault \in Index
        /\ \A v \in Index, m \in Name :
              vaults'[v][m] = IF v = job[t].vault /\ m = job[t].name THEN c ELSE vaults[v][m]
    BY SetSecretFacts, TaskFacts
  <1>2. Secret(t)' = c
    BY <1>1 DEF Secret
  <1>3. Stage(t)
    BY DEF CareInv
  <1>4. QED
    BY <1>1, <1>2, <1>3 DEF Stage, Exposed, Saving, Registered, Works


\* The file is opened, written and replaced.
LEMMA SaveInv ==
    ASSUME CredentialsInv, NEW t \in Task, Save(t)
    PROVE  CredentialsInv'
  <1>1. TypeOK /\ (Careful => CareInv)
    BY DEF CredentialsInv
  <1>2. CASE SaveOpens(t)
    <2>1. CASE Whole(disk)
      <3> DEFINE w == job[t]
                 m == vaults[w.vault]
                 j == [w EXCEPT !.at = "write", !.map = m, !.handle = "temp"]
      <3>1. job[t].at = "open" /\ Busy(t) /\ Saving(t)
        BY <1>2 DEF SaveOpens, Busy, Saving
      <3>2. w \in Work /\ m \in Secrets
        BY <1>1, <3>1, TaskFacts DEF TypeOK
      <3>3. /\ j \in Work /\ j.at = "write" /\ j.map = m /\ j.handle = "temp" /\ j.op = w.op
            /\ j.name = w.name /\ j.vault = w.vault /\ j.cred = w.cred /\ j.then = w.then
        <4> HIDE DEF w, m
        <4>1. QED
          BY <3>2 DEF Work, Phase
      <3>4. Become(t, j)
        BY <1>1, <1>2, <2>1 DEF SaveOpens, Become, TypeOK
      <3>5. temp' = Empty /\ UNCHANGED <<rows, disk, vaults, current, accepted, issued, cutShort>>
        BY <1>2, <2>1 DEF SaveOpens
      <3>6. m = Copy(t)
        BY DEF Copy
      <3> HIDE DEF j, m
      <3>7. /\ job' \in [Task -> Work \cup {Idle}] /\ job'[t] = j
            /\ \A u \in Task : u # t => job'[u] = job[u]
        BY <1>1, <3>3, <3>4, OneMoves
      <3>8. TypeOK'
        BY <1>1, <3>5, <3>7 DEF TypeOK, File
      <3>9. ASSUME Careful
            PROVE  CareInv'
        <4>1. \A u \in Task : u # t => ~Writing(u)
          BY <1>2, <3>9 DEF SaveOpens, Writing
        <4>2. Copy(t)' = m
          BY <3>3, <3>5, <3>6, <3>7 DEF Copy
        <4>3. Writes(t)'
          BY <3>2, <3>3, <3>5, <3>7, <4>2 DEF Writes
        <4>4. QED
          BY <1>1, <3>1, <3>3, <3>5, <3>7, <3>9, <4>1, <4>3, SaveStep
      <3>10. QED
        BY <3>8, <3>9 DEF CredentialsInv
    <2>2. CASE ~Whole(disk)
      <3>1. Breaks(t) /\ Busy(t)
        BY <1>2, <2>2 DEF SaveOpens, Busy
      <3>2. ~Careful
        BY <1>1, <2>2, AbsenceAssumption DEF CareInv, Whole, AbsenceAssumption
      <3>3. QED
        BY <3>1, <3>2, BreaksInv
    <2>3. QED
      BY <2>1, <2>2
  <1>3. CASE SaveWrites(t)
    <2> DEFINE j == [job[t] EXCEPT !.at = "replace", !.handle = "none"]
    <2>1. job[t].at = "write" /\ Busy(t) /\ Saving(t) /\ Writing(t) /\ job[t] \in Work
      BY <1>1, <1>3, TaskFacts DEF SaveWrites, Busy, Saving, Writing
    <2>2. /\ j \in Work /\ j.at = "replace" /\ j.map = job[t].map /\ j.handle = "none"
          /\ j.op = job[t].op /\ j.name = job[t].name /\ j.vault = job[t].vault
          /\ j.cred = job[t].cred /\ j.then = job[t].then
      BY <2>1 DEF Work, Phase
    <2>3. Become(t, j)
      BY <1>1, <1>3 DEF SaveWrites, Become, TypeOK
    <2> HIDE DEF j
    <2>4. /\ job' \in [Task -> Work \cup {Idle}] /\ job'[t] = j
          /\ \A u \in Task : u # t => job'[u] = job[u]
      BY <1>1, <2>2, <2>3, OneMoves
    <2>5. job[t].map \in File
      BY <1>1, <2>1, TaskFacts DEF File
    <2>6. disk' \in File /\ temp' \in File
      BY <1>1, <1>3, <2>5 DEF SaveWrites, Written, TypeOK, File
    <2>7. UNCHANGED <<rows, vaults, current, accepted, issued, cutShort>>
      BY <1>3 DEF SaveWrites
    <2>8. TypeOK'
      BY <1>1, <2>4, <2>6, <2>7 DEF TypeOK
    <2>9. ASSUME Careful
          PROVE  CareInv'
      <3>1. \A u \in Task : u # t => ~Writing(u)
        BY <1>1, <2>1, <2>9 DEF CareInv, Orderly
      <3>2. Writes(t)
        BY <1>1, <2>9 DEF CareInv
      <3>3. job[t].handle = "temp" /\ temp = Empty
        BY <2>1, <3>2 DEF Writes, Writing
      <3>4. temp' = job[t].map /\ disk' = disk
        BY <1>3, <3>3 DEF SaveWrites, Written
      <3>5. \A n \in Name : OpenAt(n) => OpenAt(n)'
        BY <2>1, <2>4 DEF OpenAt
      <3>6. Copy(t)' = Copy(t)
        BY <2>2, <2>4, <2>7 DEF Copy
      <3>7. Writes(t)'
        BY <2>1, <2>2, <2>4, <3>2, <3>4, <3>5, <3>6 DEF Writes, Writing
      <3>8. QED
        BY <1>1, <2>1, <2>2, <2>4, <2>7, <2>9, <3>1, <3>4, <3>7, SaveStep
    <2>10. QED
      BY <2>8, <2>9 DEF CredentialsInv
  <1>4. CASE SaveReplaces(t)
    <2>1. job[t].at = "replace" /\ Busy(t) /\ job[t] \in Work /\ Writing(t)
      BY <1>1, <1>4, TaskFacts DEF SaveReplaces, Busy, Writing
    <2>2. CASE temp # NoFile
      <3>1. Resumed(t) \in Work \cup {Idle}
        <4>1. job[t].then \in Phase \cup {"idle"}
          BY <1>1, <2>1, TaskFacts
        <4>2. CASE job[t].then = "idle"
          BY <4>2 DEF Resumed
        <4>3. CASE job[t].then # "idle"
          BY <2>1, <4>1, <4>3 DEF Resumed, Work
        <4>4. QED
          BY <4>2, <4>3
      <3>2. \A u \in Task : Busy(u) => [job[u] EXCEPT !.handle = Moved(@)] \in Work
        <4>1. SUFFICES ASSUME NEW u \in Task, Busy(u)
                       PROVE  [job[u] EXCEPT !.handle = Moved(@)] \in Work
          OBVIOUS
        <4> DEFINE g == Moved(job[u].handle)
        <4>2. job[u] \in Work /\ g \in {"none", "temp", "disk", "gone"}
          BY <1>1, <4>1, TaskFacts DEF Moved
        <4> HIDE DEF g
        <4>3. [job[u] EXCEPT !.handle = g] \in Work
          BY <4>2 DEF Work
        <4>4. QED
          BY <4>3 DEF g
      <3>3. \A u \in Task : ~Busy(u) => job[u] = Idle
        BY <1>1, TaskFacts
      <3>4. job' = [u \in Task |-> IF u = t THEN Resumed(t)
                                   ELSE IF Busy(u) THEN [job[u] EXCEPT !.handle = Moved(@)]
                                   ELSE job[u]]
        BY <1>4, <2>2 DEF SaveReplaces
      <3>5. job' \in [Task -> Work \cup {Idle}]
        BY <3>1, <3>2, <3>3, <3>4
      <3>6. TypeOK'
        BY <1>1, <1>4, <2>2, <3>5 DEF TypeOK, SaveReplaces, File
      <3>7. QED
        BY <1>1, <1>4, <3>6, ReplaceStep DEF CredentialsInv
    <2>3. CASE temp = NoFile
      <3>1. Breaks(t)
        BY <1>4, <2>3 DEF SaveReplaces
      <3>2. ~Careful
        <4>1. Careful => job[t].map \in Secrets /\ temp = job[t].map
          BY <1>1, <2>1 DEF CareInv, Writes
        <4>2. QED
          BY <2>3, <4>1, AbsenceAssumption DEF AbsenceAssumption
      <3>3. QED
        BY <2>1, <3>1, <3>2, BreaksInv
    <2>4. QED
      BY <2>2, <2>3
  <1>5. QED
    BY <1>2, <1>3, <1>4 DEF Save

\* An operation begins.
LEMMA StartInv ==
    ASSUME CredentialsInv, NEW t \in Task, NEW n \in Name, NEW v \in Index, NEW c \in Cred \cup {NoCred},
           ~Busy(t), Alone(t, n), Given(t, v),
           NEW op, NEW phase,
           \/ op = "add" /\ phase = "consenting" /\ n \notin rows
           \/ op = "reauth" /\ phase = "consenting" /\ n \in rows
           \/ op = "remove" /\ phase = "removing" /\ n \in rows
           \/ op = "use" /\ phase = "using" /\ n \in rows,
           Become(t, Starting(op, phase, n, v, c)),
           UNCHANGED <<rows, disk, temp, current, accepted, issued, cutShort>>
    PROVE  CredentialsInv'
  <1>1. TypeOK /\ (Careful => CareInv)
    BY DEF CredentialsInv
  <1>2. op \in {"add", "reauth", "remove", "use"} /\ phase \in Phase
    BY DEF Phase
  <1> DEFINE j == Starting(op, phase, n, v, c)
  <1>3. /\ j \in Work /\ j.at = phase /\ j.op = op /\ j.name = n /\ j.vault = v
        /\ j.cred = c /\ j.handle = "none"
    BY <1>2, StartingFacts
  <1>4. Become(t, j)
    OBVIOUS
  <1> HIDE DEF j
  <1>5. /\ job' \in [Task -> Work \cup {Idle}] /\ job'[t] = j
        /\ \A u \in Task : u # t => job'[u] = job[u]
    BY <1>1, <1>3, <1>4, OneMoves
  <1>6. TypeOK'
    BY <1>1, <1>5, GivenFacts DEF TypeOK
  <1>7. Busy(t)' /\ ~Saving(t)' /\ ~Exposed(t)'
    BY <1>3, <1>5 DEF Busy, Saving, Exposed
  <1>8. Stage(t)'
    BY <1>3, <1>5, <1>7 DEF Stage, Registered
  <1>9. Careful => CareInv'
    BY <1>1, <1>3, <1>5, <1>7, <1>8, GivenStep
  <1>10. QED
    BY <1>6, <1>9 DEF CredentialsInv


\* Where nothing is being saved the file says what the copy says.
LEMMA DiskFacts ==
    ASSUME TypeOK, CareInv, NEW t \in Task, Busy(t), ~Saving(t), NEW n \in Name, n = job[t].name
    PROVE  disk[n] = Secret(t)
  <1>1. ~SavingAt(n)
    BY DEF SavingAt, Saving, Busy, CareInv, Orderly
  <1>2. job[t].vault \in Index /\ job[t].vault \in InUse
    BY TaskFacts DEF InUse
  <1>3. QED
    BY <1>1, <1>2 DEF CareInv, Same, Secret

\* Adding, reauthorising and removing.
LEMMA OnboardingInv ==
    ASSUME CredentialsInv, NEW t \in Task, Onboarding(t)
    PROVE  CredentialsInv'
  <1>1. TypeOK /\ (Careful => CareInv)
    BY DEF CredentialsInv
  <1>2. ASSUME NEW n \in Name, StartAdd(t, n) \/ StartReauth(t, n) \/ StartRemove(t, n)
        PROVE  CredentialsInv'
    <2>1. PICK op, phase :
             /\ Start(t, op, phase, n)
             /\ \/ op = "add" /\ phase = "consenting" /\ n \notin rows
                \/ op = "reauth" /\ phase = "consenting" /\ n \in rows
                \/ op = "remove" /\ phase = "removing" /\ n \in rows
      BY <1>2 DEF StartAdd, StartReauth, StartRemove
    <2>2. PICK v \in Index : Given(t, v) /\ Become(t, Starting(op, phase, n, v, NoCred))
      BY <2>1 DEF Start
    <2>3. /\ ~Busy(t) /\ Alone(t, n) /\ NoCred \in Cred \cup {NoCred}
          /\ UNCHANGED <<rows, disk, temp, current, accepted, issued, cutShort>>
      BY <2>1 DEF Start
    <2>4. QED
      BY <2>1, <2>2, <2>3, StartInv
  <1>3. ASSUME job[t].at \in {"consenting", "testing", "removing", "dropping"}
        PROVE  /\ Busy(t) /\ ~Saving(t) /\ job[t].name \in Name
               /\ Careful => Stage(t)
               /\ Exposed(t) <=> \/ job[t].at = "testing" /\ job[t].op = "add"
                                 \/ job[t].at = "dropping"
    BY <1>1, <1>3, TaskFacts DEF CareInv, Busy, Saving, Exposed
  <1>4. CASE Consent(t)
    <2>1. PICK c : c = issued + 1
      OBVIOUS
    <2>2. /\ job[t].at = "consenting" /\ c \in Cred /\ issued' = c
          /\ accepted' = [accepted EXCEPT ![job[t].name] = @ \cup {c}]
          /\ SetSecret(t, c, "testing")
          /\ UNCHANGED <<rows, disk, temp, current, cutShort>>
      BY <1>4, <2>1 DEF Consent
    <2>3. PICK n \in Name : n = job[t].name
      BY <1>3, <2>2
    <2>4. c \in 0..MaxCreds /\ c # NoCred /\ c \in Cred \cup {NoCred} /\ "testing" \in Phase \cup {"idle"}
      BY <1>1, <2>1, <2>2, NextCred DEF Phase
    <2>5. /\ accepted' \in [Name -> SUBSET Cred]
          /\ accepted'[n] = accepted[n] \cup {c}
          /\ \A m \in Name : m # n => accepted'[m] = accepted[m]
      BY <1>1, <2>2, <2>3 DEF TypeOK
    <2>6. ASSUME Careful
          PROVE  Stage(t)' /\ (~Exposed(t)' /\ n \notin cutShort => Good(n)')
      <3>1. job[t].op \in {"add", "reauth"} /\ Busy(t) /\ CareInv /\ ~Exposed(t)
        BY <1>1, <1>3, <2>2, <2>6 DEF Stage
      <3>2. n \notin cutShort => Good(n)
        BY <1>1, <2>3, <3>1, StillQuiet
      <3>3. Stage(t)'
        BY <1>1, <2>2, <2>3, <2>4, <2>5, <3>1, SecretStage
      <3>4. n \notin cutShort => Good(n)'
        BY <2>2, <2>5, <3>2 DEF Good
      <3>5. QED
        BY <3>3, <3>4
    <2>7. QED
      BY <1>3, <2>2, <2>3, <2>4, <2>5, <2>6, SecretInv
  <1>5. CASE Abandoned(t)
    BY <1>3, <1>5, EndsQuietly DEF Abandoned
  <1>6. ASSUME job[t].at = "testing", job[t].op = "add", SetSecret(t, NoCred, "idle"),
               UNCHANGED <<rows, disk, temp, current, accepted, issued, cutShort>>
        PROVE  CredentialsInv'
    <2>1. PICK n \in Name : n = job[t].name
      BY <1>3, <1>6
    <2>2. NoCred \in Cred \cup {NoCred} /\ "idle" \in Phase \cup {"idle"}
      OBVIOUS
    <2>3. accepted' \in [Name -> SUBSET Cred] /\ issued' \in 0..MaxCreds
      BY <1>1, <1>6 DEF TypeOK
    <2>4. Careful => Stage(t)' /\ (~Exposed(t)' /\ n \notin cutShort => Good(n)')
      BY <1>1, <1>3, <1>6, <2>1, <2>2, SecretStage
    <2>5. QED
      BY <1>3, <1>6, <2>1, <2>2, <2>3, <2>4, SecretInv
  <1>7. CASE TestPasses(t)
    <2>1. job[t].at = "testing" /\ UNCHANGED <<disk, temp, current, accepted, issued>>
      BY <1>7 DEF TestPasses
    <2>2. CASE job[t].op = "add" /\ job[t].name \in rows
      BY <1>6, <1>7, <2>1, <2>2 DEF TestPasses
    <2>3. CASE ~(job[t].op = "add" /\ job[t].name \in rows)
      <3>1. PICK n \in Name : n = job[t].name
        BY <1>3, <2>1
      <3>2. rows' = rows \cup {m \in {n} : job[t].op = "add"} /\ Ends(t) /\ UNCHANGED vaults
        BY <1>7, <2>3, <3>1 DEF TestPasses
      <3>3. rows' \subseteq Name /\ \A m \in Name : m # n => (m \in rows' <=> m \in rows)
        BY <1>1, <3>2 DEF TypeOK
      <3>4. ASSUME Careful
            PROVE  Good(n)'
        <4>1. Stage(t) /\ Busy(t) /\ ~Saving(t) /\ CareInv
          BY <1>1, <1>3, <2>1, <3>4
        <4>2. disk[n] = Secret(t)
          BY <1>1, <3>1, <4>1, DiskFacts
        <4>3. disk[n] # NoCred /\ disk[n] \in accepted[n] /\ (job[t].op # "add" => n \in rows)
          BY <2>1, <3>1, <4>1, <4>2 DEF Stage, Works, Registered
        <4>4. n \in rows'
          BY <3>2, <4>3
        <4>5. QED
          BY <2>1, <4>3, <4>4 DEF Good
      <3>5. QED
        BY <1>3, <2>1, <3>1, <3>2, <3>3, <3>4, EndsWell
    <2>4. QED
      BY <2>2, <2>3
  <1>8. CASE TestFails(t)
    BY <1>3, <1>6, <1>8, EndsQuietly DEF TestFails
  <1>9. CASE TestBreaks(t)
    BY <1>3, <1>9, BreaksInv DEF TestBreaks
  <1>10. CASE RemoveSecret(t)
    <2>1. /\ job[t].at = "removing" /\ SetSecret(t, NoCred, "dropping")
          /\ UNCHANGED <<rows, disk, temp, current, accepted, issued, cutShort>>
      BY <1>10 DEF RemoveSecret
    <2>2. PICK n \in Name : n = job[t].name
      BY <1>3, <2>1
    <2>3. NoCred \in Cred \cup {NoCred} /\ "dropping" \in Phase \cup {"idle"}
      BY DEF Phase
    <2>4. accepted' \in [Name -> SUBSET Cred] /\ issued' \in 0..MaxCreds
      BY <1>1, <2>1 DEF TypeOK
    <2>5. Careful => job[t].op = "remove"
      BY <1>3, <2>1 DEF Stage
    <2>6. Careful => Stage(t)' /\ (~Exposed(t)' /\ n \notin cutShort => Good(n)')
      BY <1>1, <1>3, <2>1, <2>2, <2>3, <2>5, SecretStage
    <2>7. QED
      BY <1>3, <2>1, <2>2, <2>3, <2>4, <2>6, SecretInv
  <1>11. CASE DropRow(t)
    <2>1. /\ job[t].at = "dropping" /\ rows' = rows \ {job[t].name} /\ Ends(t)
          /\ UNCHANGED <<disk, temp, vaults, current, accepted, issued>>
      BY <1>11 DEF DropRow
    <2>2. PICK n \in Name : n = job[t].name
      BY <1>3, <2>1
    <2>3. rows' \subseteq Name /\ \A m \in Name : m # n => (m \in rows' <=> m \in rows)
      BY <1>1, <2>1, <2>2 DEF TypeOK
    <2>4. ASSUME Careful
          PROVE  Good(n)'
      <3>1. Stage(t) /\ Busy(t) /\ ~Saving(t) /\ CareInv
        BY <1>1, <1>3, <2>1, <2>4
      <3>2. disk[n] = Secret(t)
        BY <1>1, <2>2, <3>1, DiskFacts
      <3>3. disk[n] = NoCred
        BY <2>1, <3>1, <3>2 DEF Stage
      <3>4. QED
        BY <2>1, <2>2, <3>3 DEF Good
    <2>5. QED
      BY <1>3, <2>1, <2>2, <2>3, <2>4, EndsWell
  <1>12. QED
    BY <1>2, <1>4, <1>5, <1>7, <1>8, <1>9, <1>10, <1>11 DEF Onboarding

\* A provider is used, and its token renewed.
LEMMA UsingInv ==
    ASSUME CredentialsInv, NEW t \in Task, Using(t)
    PROVE  CredentialsInv'
  <1>1. TypeOK /\ (Careful => CareInv)
    BY DEF CredentialsInv
  <1>2. ASSUME NEW n \in Name, StartUse(t, n)
        PROVE  CredentialsInv'
    <2>1. PICK v \in Index : Given(t, v) /\ Become(t, Starting("use", "using", n, v, vaults'[v][n]))
      BY <1>2 DEF StartUse
    <2>2. /\ ~Busy(t) /\ Alone(t, n) /\ n \in rows
          /\ UNCHANGED <<rows, disk, temp, current, accepted, issued, cutShort>>
      BY <1>2 DEF StartUse
    <2>3. PICK c \in Cred \cup {NoCred} : c = vaults'[v][n]
      BY <1>1, <2>1, GivenFacts DEF Secrets
    <2>4. QED
      BY <2>1, <2>2, <2>3, StartInv
  <1>3. ASSUME job[t].at \in {"using", "redeemed"}
        PROVE  /\ Busy(t) /\ ~Saving(t) /\ job[t] \in Work /\ job[t].name \in Name
               /\ job[t].cred \in Cred \cup {NoCred}
               /\ Careful => Stage(t)
               /\ Exposed(t) <=> job[t].at = "redeemed"
    BY <1>1, <1>3, TaskFacts DEF CareInv, Busy, Saving, Exposed
  <1>4. CASE Redeem(t)
    <2>1. PICK c : c = issued + 1
      OBVIOUS
    <2>2. PICK n : n = job[t].name
      OBVIOUS
    <2> DEFINE j == [job[t] EXCEPT !.at = "redeemed", !.cred = c]
               a == (accepted[n] \ {job[t].cred}) \cup {c}
    <2>3. /\ job[t].at = "using" /\ c \in Cred /\ issued' = c
          /\ accepted' = [accepted EXCEPT ![n] = a]
          /\ Become(t, j)
          /\ UNCHANGED <<rows, disk, temp, vaults, current, cutShort>>
      BY <1>1, <1>4, <2>1, <2>2 DEF Redeem, TypeOK, Become
    <2>4. c \in 0..MaxCreds /\ c # NoCred
      BY <1>1, <2>1, <2>3, NextCred
    <2>5. /\ j \in Work /\ j.at = "redeemed" /\ j.cred = c /\ j.op = job[t].op /\ j.name = job[t].name
          /\ j.vault = job[t].vault /\ j.handle = job[t].handle
      BY <1>3, <2>3 DEF Work, Phase
    <2>6. n \in Name /\ a \in SUBSET Cred /\ c \in a
      BY <1>1, <1>3, <2>2, <2>3 DEF TypeOK
    <2> HIDE DEF j, a
    <2>7. /\ job' \in [Task -> Work \cup {Idle}] /\ job'[t] = j
          /\ \A u \in Task : u # t => job'[u] = job[u]
      BY <1>1, <2>3, <2>5, OneMoves
    <2>8. /\ accepted' \in [Name -> SUBSET Cred] /\ accepted'[n] = a
          /\ \A m \in Name : m # n => accepted'[m] = accepted[m]
      BY <1>1, <2>3, <2>6 DEF TypeOK
    <2>9. TypeOK'
      BY <1>1, <2>3, <2>4, <2>7, <2>8 DEF TypeOK
    <2>10. ASSUME Careful
           PROVE  CareInv'
      <3>1. Stage(t) /\ Busy(t) /\ ~Saving(t) /\ CareInv
        BY <1>1, <1>3, <2>3, <2>10
      <3>2. Busy(t)' /\ ~Saving(t)' /\ Exposed(t)'
        BY <2>5, <2>7 DEF Busy, Saving, Exposed
      <3>3. Registered(t)' /\ Works(t)' /\ job'[t].op = "use"
        BY <2>2, <2>3, <2>4, <2>5, <2>6, <2>7, <2>8, <3>1 DEF Stage, Registered, Works
      <3>4. Stage(t)'
        BY <2>5, <2>7, <3>2, <3>3 DEF Stage
      <3>5. ~Quiet(n)'
        BY <2>2, <2>5, <2>7, <3>2 DEF Quiet
      <3>6. rows' \subseteq Name
        BY <1>1, <2>3 DEF TypeOK
      <3>7. \A m \in Name : m # n => /\ m \in rows' <=> m \in rows
                                     /\ accepted'[m] = accepted[m]
                                     /\ m \in cutShort => m \in cutShort'
        BY <2>3, <2>8
      <3>8. UNCHANGED <<disk, temp, vaults, current>>
        BY <2>3
      <3>9. /\ job'[t].name = job[t].name /\ job'[t].vault = job[t].vault
            /\ job'[t].handle = job[t].handle
        BY <2>5, <2>7
      <3>10. QED
        BY <1>1, <2>2, <2>6, <2>7, <3>1, <3>2, <3>4, <3>5, <3>6, <3>7, <3>8, <3>9, TaskStep
    <2>11. QED
      BY <2>9, <2>10 DEF CredentialsInv
  <1>5. CASE WriteBack(t)
    <2>1. PICK c \in Cred \cup {NoCred} : c = job[t].cred
      BY <1>3, <1>5 DEF WriteBack
    <2>2. /\ job[t].at = "redeemed" /\ SetSecret(t, c, "using")
          /\ UNCHANGED <<rows, disk, temp, current, accepted, issued, cutShort>>
      BY <1>5, <2>1 DEF WriteBack
    <2>3. PICK n \in Name : n = job[t].name
      BY <1>3, <2>2
    <2>4. "using" \in Phase \cup {"idle"}
      BY DEF Phase
    <2>5. accepted' \in [Name -> SUBSET Cred] /\ issued' \in 0..MaxCreds
      BY <1>1, <2>2 DEF TypeOK
    <2>6. Careful => job[t].op = "use" /\ c # NoCred /\ c \in accepted'[n]
      BY <1>3, <2>1, <2>2, <2>3 DEF Stage, Works
    <2>7. Careful => Stage(t)' /\ (~Exposed(t)' /\ n \notin cutShort => Good(n)')
      BY <1>1, <1>3, <2>2, <2>3, <2>4, <2>6, SecretStage
    <2>8. QED
      BY <1>3, <2>2, <2>3, <2>4, <2>5, <2>7, SecretInv
  <1>6. CASE AnswerLost(t)
    BY <1>3, <1>6, BreaksInv DEF AnswerLost
  <1>7. CASE EndUse(t)
    BY <1>3, <1>7, EndsQuietly DEF EndUse
  <1>8. QED
    BY <1>2, <1>4, <1>5, <1>6, <1>7 DEF Using


----------------------------------------------------------------------------
(* The invariant of the specification, and what follows from it.           *)

\* The daemon's copy comes and goes; everything stops.
LEMMA ProgramInv ==
    ASSUME CredentialsInv, Unlock \/ Lock \/ Crash
    PROVE  CredentialsInv'
  <1>1. TypeOK /\ (Careful => CareInv)
    BY DEF CredentialsInv
  <1>2. CASE Unlock
    <2>1. PICK v \in Index : /\ Whole(disk) /\ vaults' = [vaults EXCEPT ![v] = disk] /\ current' = v
                             /\ UNCHANGED <<rows, disk, temp, job, accepted, issued, cutShort>>
      BY <1>2 DEF Unlock, Loaded
    <2>2. TypeOK'
      BY <1>1, <2>1 DEF TypeOK, Whole, File
    <2>3. ASSUME Careful
          PROVE  CareInv'
      <3>1. CareInv /\ \A t \in Task : ~Busy(t) /\ ~Busy(t)'
        BY <1>1, <1>2, <2>1, <2>3 DEF Unlock, Busy
      <3>2. \A t \in Task : ~Saving(t)' /\ ~Writing(t)'
        BY <3>1 DEF Busy, Saving, Writing
      <3>3. Orderly' /\ (\A t \in Task : Writes(t)') /\ \A t \in Task : Busy(t)' => Stage(t)'
        BY <3>1, <3>2 DEF Orderly, Writes
      <3>4. \A w \in Index : w \in InUse' => w = v
        BY <2>1, <3>1 DEF InUse, Index
      <3>5. vaults'[v] = disk'
        BY <1>1, <2>1 DEF TypeOK
      <3>6. Same'
        BY <3>4, <3>5 DEF Same
      <3>7. \A n \in Name : Quiet(n)' => Good(n)'
        BY <2>1, <3>1 DEF CareInv, Quiet, Good
      <3>8. QED
        BY <2>1, <3>1, <3>3, <3>6, <3>7 DEF CareInv
    <2>4. QED
      BY <2>2, <2>3 DEF CredentialsInv
  <1>3. CASE Lock
    <2>1. current' = 0 /\ UNCHANGED <<rows, disk, temp, vaults, job, accepted, issued, cutShort>>
      BY <1>3 DEF Lock
    <2>2. TypeOK'
      BY <1>1, <2>1 DEF TypeOK
    <2>3. ASSUME CareInv
          PROVE  CareInv'
      <3>1. \A w \in Index : w \in InUse' => w \in InUse
        BY <2>1 DEF InUse, Index, Busy
      <3>2. Same'
        BY <2>1, <2>3, <3>1 DEF CareInv, Same, SavingAt, Saving
      <3>3. Orderly'
        BY <2>1, <2>3 DEF CareInv, Orderly, Busy, Writing
      <3>4. \A t \in Task : Writes(t)' /\ (Busy(t)' => Stage(t)')
        BY <2>1, <2>3 DEF CareInv, Writes, Writing, Copy, OpenAt, Busy, Stage, Saving, Secret,
                          Registered, Works
      <3>5. \A n \in Name : Quiet(n)' => Good(n)'
        BY <2>1, <2>3 DEF CareInv, Quiet, Good, Busy, Exposed, Saving
      <3>6. QED
        BY <2>1, <2>3, <3>2, <3>3, <3>4, <3>5 DEF CareInv
    <2>4. QED
      BY <1>1, <2>2, <2>3 DEF CredentialsInv
  <1>4. CASE Crash
    <2>1. /\ job' = [t \in Task |-> Idle] /\ vaults' = [v \in Index |-> Blank] /\ current' = 0
          /\ cutShort' = cutShort \cup {n \in Name : \E t \in Task : Busy(t) /\ job[t].name = n /\ Exposed(t)}
          /\ UNCHANGED <<rows, disk, temp, accepted, issued>>
      BY <1>4 DEF Crash
    <2>2. Blank \in Secrets
      BY DEF Blank, Secrets
    <2>3. TypeOK'
      BY <1>1, <2>1, <2>2 DEF TypeOK
    <2>4. ASSUME CareInv
          PROVE  CareInv'
      <3>1. \A t \in Task : ~Busy(t)' /\ ~Writing(t)'
        BY <2>1 DEF Busy, Writing, Idle
      <3>2. \A w \in Index : w \notin InUse'
        BY <2>1, <3>1 DEF InUse, Index
      <3>3. Same' /\ Orderly' /\ \A t \in Task : Writes(t)'
        BY <3>1, <3>2 DEF Same, Orderly, Writes
      <3>4. \A n \in Name : Quiet(n)' => Quiet(n)
        BY <2>1 DEF Quiet
      <3>5. \A n \in Name : Quiet(n)' => Good(n)'
        BY <2>1, <2>4, <3>4 DEF CareInv, Good
      <3>6. QED
        BY <2>1, <2>4, <3>1, <3>3, <3>5 DEF CareInv
    <2>5. QED
      BY <1>1, <2>3, <2>4 DEF CredentialsInv
  <1>5. QED
    BY <1>2, <1>3, <1>4

\* It holds of an empty vault.
LEMMA CredentialsInit ==
    ASSUME Init
    PROVE  CredentialsInv
  <1>1. \A t \in Task : job[t] = Idle /\ ~Busy(t) /\ ~Writing(t)
    BY DEF Init, Busy, Writing, Idle
  <1>2. Blank \in Secrets
    BY DEF Blank, Secrets
  <1>3. TypeOK
    <2>1. 0 \in 0..MaxCreds
      BY CredentialsAssumption DEF CredentialsAssumption
    <2>2. QED
      BY <1>2, <2>1 DEF Init, TypeOK, File
  <1>4. \A w \in Index : w \notin InUse
    BY <1>1 DEF Init, InUse, Index
  <1>5. Same /\ Orderly /\ \A t \in Task : Writes(t)
    BY <1>1, <1>4 DEF Same, Orderly, Writes
  <1>6. \A n \in Name : Good(n)
    BY DEF Init, Good, Blank
  <1>7. QED
    BY <1>1, <1>2, <1>3, <1>5, <1>6 DEF CredentialsInv, CareInv, Init

LEMMA CredentialsNext ==
    ASSUME CredentialsInv, [Next]_vars
    PROVE  CredentialsInv'
  <1>1. CASE Unlock \/ Lock \/ Crash
    BY <1>1, ProgramInv
  <1>2. ASSUME NEW t \in Task, Save(t) \/ Onboarding(t) \/ Using(t)
        PROVE  CredentialsInv'
    BY <1>2, SaveInv, OnboardingInv, UsingInv
  <1>3. CASE UNCHANGED vars
    BY <1>3 DEF vars, CredentialsInv, TypeOK, CareInv, Orderly, Same, Writes, Writing, Copy, OpenAt,
                SavingAt, InUse, Busy, Stage, Saving, Secret, Registered, Works, Quiet, Good, Exposed
  <1>4. QED
    BY <1>1, <1>2, <1>3 DEF Next

LEMMA CredentialsInvHolds == Spec => []CredentialsInv
  BY CredentialsInit, CredentialsNext, PTL DEF Spec

\* The file changes where a task is at work only.
LEMMA OthersAreKept ==
    ASSUME CredentialsInv, Careful, [Next]_vars, NEW n \in Name, disk'[n] # disk[n]
    PROVE  \E t \in Task : Busy(t) /\ job[t].name = n
  <1>1. TypeOK /\ CareInv
    BY DEF CredentialsInv
  <1>2. PICK t \in Task : SaveWrites(t) \/ SaveReplaces(t)
    <2>1. disk' # disk
      OBVIOUS
    <2>2. ~ UNCHANGED disk
      BY <2>1
    <2>3. ~(Unlock \/ Lock \/ Crash \/ UNCHANGED vars)
      BY <2>2 DEF Unlock, Lock, Crash, vars
    <2>4. \A t \in Task : ~Onboarding(t)
      BY <2>2 DEF Onboarding, StartAdd, StartReauth, StartRemove, Start, Consent, Abandoned,
                  TestPasses, TestFails, TestBreaks, Breaks, RemoveSecret, DropRow
    <2>5. \A t \in Task : ~Using(t)
      BY <2>2 DEF Using, StartUse, Redeem, WriteBack, AnswerLost, Breaks, EndUse
    <2>6. \A t \in Task : ~SaveOpens(t)
      BY <2>2 DEF SaveOpens, Breaks
    <2>7. QED
      BY <2>3, <2>4, <2>5, <2>6 DEF Next, Save
  <1>3. Busy(t) /\ Writing(t) /\ Writes(t)
    BY <1>1, <1>2 DEF CareInv, SaveWrites, SaveReplaces, Busy, Writing
  <1>4. ~SaveWrites(t)
    BY <1>3 DEF SaveWrites, Writes, Writing
  <1>5. job[t].at = "replace" /\ temp = job[t].map /\ temp # NoFile
    BY <1>2, <1>3, <1>4, AbsenceAssumption DEF SaveReplaces, Writes, AbsenceAssumption
  <1>6. disk' = job[t].map
    BY <1>2, <1>4, <1>5 DEF SaveReplaces
  <1>7. job[t].map[n] = Copy(t)[n] \/ OpenAt(n)
    BY <1>3 DEF Writes
  <1>8. Copy(t)[n] = disk[n] \/ SavingAt(n)
    <2>1. job[t].vault \in Index /\ job[t].vault \in InUse
      BY <1>1, <1>3, TaskFacts DEF InUse
    <2>2. QED
      BY <1>1, <2>1 DEF CareInv, Same, Copy
  <1>9. QED
    BY <1>6, <1>7, <1>8 DEF OpenAt, SavingAt, Saving, Busy

\* TypeOK, careful or not, for any tasks, providers and copies of the vault.
THEOREM CredentialsTypeCorrect == Spec => []TypeOK
  BY CredentialsInvHolds, PTL DEF CredentialsInv

\* VaultWhole: the file is whole whenever a program stops, since the one that
\* saves writes beside it what it then moves in its place (vault.py:132).
THEOREM VaultStaysWhole ==
    ASSUME Careful
    PROVE  Spec => []VaultWhole
  <1>1. CredentialsInv => VaultWhole
    BY AbsenceAssumption DEF CredentialsInv, CareInv, VaultWhole, Whole, AbsenceAssumption
  <1>2. QED
    BY <1>1, CredentialsInvHolds, PTL

\* RowsMatchSecrets: rows and secrets go together, except where an operation
\* was cut short, whatever else is added, removed or refreshed meanwhile.
THEOREM RowsHaveSecrets ==
    ASSUME Careful
    PROVE  Spec => []RowsMatchSecrets
  <1>1. CredentialsInv => RowsMatchSecrets
    BY DEF CredentialsInv, CareInv, RowsMatchSecrets, Good
  <1>2. QED
    BY <1>1, CredentialsInvHolds, PTL

\* SecretsWork: what the file says of a provider is accepted there, through
\* any number of refreshes of its token.
THEOREM SecretsKeepWorking ==
    ASSUME Careful
    PROVE  Spec => []SecretsWork
  <1>1. CredentialsInv => SecretsWork
    <2>1. SUFFICES ASSUME CredentialsInv
                   PROVE  SecretsWork
      OBVIOUS
    <2>2. rows \subseteq Name /\ \A n \in Name : Quiet(n) => Good(n)
      BY <2>1 DEF CredentialsInv, CareInv, TypeOK
    <2>3. QED
      BY <2>2 DEF SecretsWork, Good
  <1>2. QED
    BY <1>1, CredentialsInvHolds, PTL

\* OthersKept: saving the whole map loses no other task's update, though the
\* map may be older than the copy it was taken from.
THEOREM NoUpdateIsLost ==
    ASSUME Careful
    PROVE  Spec => OthersKept
  <1>1. CredentialsInv /\ [Next]_vars =>
           [\A n \in Name : Whole(disk) /\ Whole(disk') /\ disk'[n] # disk[n]
              => \E t \in Task : Busy(t) /\ job[t].name = n]_vars
    BY OthersAreKept
  <1>2. QED
    BY <1>1, CredentialsInvHolds, PTL DEF Spec, OthersKept

==================================================================================
