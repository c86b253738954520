------------------------------ MODULE Credentials ------------------------------
(***************************************************************************)
(* Providers' credentials: the vault file and the copies of it that        *)
(* programs hold (vault.py), adding, reauthorising and removing a provider *)
(* (onboarding.py and the handlers and commands that call it), and the     *)
(* refresh of rotating tokens (oauth.py).  A provider is registered in a   *)
(* row of the register, and its credential is a secret of the vault.       *)
(*                                                                         *)
(* A copy writes back the whole map it has in memory.  The handlers of the *)
(* daemon run these operations on threads, so their steps interleave.      *)
(***************************************************************************)
EXTENDS Naturals

CONSTANTS
    Name,           \* provider names; the secret of n is "provider:n"
    Task, CliTask,  \* operations that run at once, those of the CLI among them
    Rotating,       \* providers that accept a refresh token once
    Careful,        \* one copy of the vault, one save and one operation per
                    \* provider at a time
    NoFile, Empty, Torn,    \* a file that is absent, truncated, unreadable
    MaxCreds,       \* bound: credentials issued
    MaxVaults       \* bound: copies of the vault in memory at once

ASSUME CredentialsAssumption ==
    /\ CliTask \subseteq Task /\ Rotating \subseteq Name /\ Careful \in BOOLEAN
    /\ MaxCreds \in Nat /\ MaxVaults \in Nat

VARIABLES
    rows,           \* the providers table: names of secret-backed providers
    disk, temp,     \* vault.json and vault.json.tmp
    vaults,         \* copies of the vault in memory, those out of use included
    current,        \* the daemon's copy; 0 when it is locked
    job,            \* where each task stands
    accepted,       \* the credentials each provider's server accepts
    issued,         \* how many credentials there have been
    cutShort        \* history: providers whose last operation was cut short

vars == <<rows, disk, temp, vaults, current, job, accepted, issued, cutShort>>

NoCred == 0
Cred == 1..MaxCreds
Secrets == [Name -> Cred \cup {NoCred}]
Blank == [n \in Name |-> NoCred]
Index == 1..MaxVaults
ASSUME AbsenceAssumption == {NoFile, Empty, Torn} \cap Secrets = {}
File == Secrets \cup {NoFile, Empty, Torn}
Whole(file) == file \notin {NoFile, Empty, Torn}

(***************************************************************************)
(* A task: what it does, at which provider, on which copy of the vault,    *)
(* with which credential, and, while it saves, the map it writes, the file *)
(* its handle writes to and where it goes on.                              *)
(***************************************************************************)
Phase == {"consenting", "testing", "removing", "dropping", "using", "redeemed",
          "open", "write", "replace"}
Idle == [at |-> "idle"]
Work == [at : Phase, op : {"add", "reauth", "remove", "use"}, name : Name, vault : Index,
         cred : Cred \cup {NoCred}, map : Secrets \cup {NoFile},
         handle : {"none", "temp", "disk", "gone"}, then : Phase \cup {"idle"}]
Starting(op, phase, n, v, c) ==
    [at |-> phase, op |-> op, name |-> n, vault |-> v, cred |-> c,
     map |-> NoFile, handle |-> "none", then |-> "idle"]

Busy(t) == job[t].at # "idle"
Saving(t) == job[t].at \in {"open", "write", "replace"}
Become(t, j) == job' = [job EXCEPT ![t] = j]
Secret(t) == vaults[job[t].vault][job[t].name]

(***************************************************************************)
(* The vault.                                                              *)
(***************************************************************************)

\* unlock_vault: another copy, of what the file says.
InUse == {current} \cup {job[t].vault : t \in {u \in Task : Busy(u)}}
Loaded(v) ==
    /\ Whole(disk)
    /\ v \notin InUse /\ \A u \in Index \ InUse : v <= u
    /\ vaults' = [vaults EXCEPT ![v] = disk]

\* Mutant: a copy still in memory is taken for what the file says.
UnlockAgain ==
    /\ current = 0
    /\ Careful => \A t \in Task : ~Busy(t)
    /\ \E v \in Index : current' = v
    /\ UNCHANGED <<rows, disk, temp, vaults, job, accepted, issued, cutShort>>

Unlock ==
    /\ current = 0
    /\ Careful => \A t \in Task : ~Busy(t)
    /\ \E v \in Index : Loaded(v) /\ current' = v
    /\ UNCHANGED <<rows, disk, temp, job, accepted, issued, cutShort>>

Lock ==
    /\ current # 0
    /\ current' = 0
    /\ UNCHANGED <<rows, disk, temp, vaults, job, accepted, issued, cutShort>>

\* The copy a task is given: the daemon's, or one that the command opens.
Given(t, v) ==
    IF t \in CliTask
    THEN Loaded(v) /\ (Careful => current = 0 /\ \A u \in Task : ~Busy(u))
    ELSE v = current /\ current # 0 /\ UNCHANGED vaults

\* set_secret and delete_secret: the copy in memory, then the save.
SetSecret(t, c, then) ==
    /\ vaults' = [vaults EXCEPT ![job[t].vault][job[t].name] = c]
    /\ job' = [job EXCEPT ![t].at = "open", ![t].then = then, ![t].cred = c]

\* Stopped here, the task leaves a row without a secret, a secret without a
\* row, or a secret that is spent.  (Another task's save may already have
\* written what this one is still to save.)
Exposed(t) ==
    \/ Saving(t) /\ job[t].op # "reauth"
    \/ job[t].at = "testing" /\ job[t].op = "add"
    \/ job[t].at \in {"dropping", "redeemed"}

\* The task ends in an exception that no handler of the library expects.
Breaks(t) ==
    /\ Become(t, Idle)
    /\ cutShort' = cutShort \cup {n \in {job[t].name} : Exposed(t)}
    /\ UNCHANGED <<rows, disk, temp, vaults, current, accepted, issued>>

\* Mutant: the file is written in place.
SaveOpensInPlace(t) ==
    /\ job[t].at = "open" /\ Whole(disk)
    /\ disk' = Empty /\ temp' = Empty
    /\ job' = [job EXCEPT ![t].at = "write", ![t].map = vaults[job[t].vault],
                          ![t].handle = "disk"]
    /\ UNCHANGED <<rows, vaults, current, accepted, issued, cutShort>>

\* _save reads the file, whose other parts it keeps, and takes its own map.
\* Opening the temporary file truncates it, whoever has it open already.
SaveOpens(t) ==
    /\ job[t].at = "open"
    /\ Careful => \A u \in Task \ {t} : job[u].at \notin {"write", "replace"}
    /\ IF Whole(disk)
       THEN /\ temp' = Empty
            /\ job' = [job EXCEPT ![t].at = "write", ![t].map = vaults[job[t].vault],
                                  ![t].handle = "temp"]
            /\ UNCHANGED <<rows, disk, vaults, current, accepted, issued, cutShort>>
       ELSE Breaks(t)

\* Written over what another writer left, the rest of which may stay behind.
Written(old, map) == IF old = Empty THEN {map} ELSE {map, Torn}

SaveWrites(t) ==
    /\ job[t].at = "write"
    /\ CASE job[t].handle = "temp" -> temp' \in Written(temp, job[t].map) /\ UNCHANGED disk
         [] job[t].handle = "disk" -> disk' \in Written(disk, job[t].map) /\ UNCHANGED temp
         [] OTHER -> UNCHANGED <<disk, temp>>
    /\ job' = [job EXCEPT ![t].at = "replace", ![t].handle = "none"]
    /\ UNCHANGED <<rows, vaults, current, accepted, issued, cutShort>>

\* Whoever has the temporary file open now has the vault file open.
Moved(handle) == CASE handle = "temp" -> "disk" [] handle = "disk" -> "gone" [] OTHER -> handle

Resumed(t) == IF job[t].then = "idle" THEN Idle
              ELSE [job[t] EXCEPT !.at = job[t].then, !.map = NoFile, !.then = "idle"]

SaveReplaces(t) ==
    /\ job[t].at = "replace"
    /\ IF temp # NoFile
       THEN /\ disk' = temp /\ temp' = NoFile
            /\ job' = [u \in Task |-> IF u = t THEN Resumed(t)
                                      ELSE IF Busy(u) THEN [job[u] EXCEPT !.handle = Moved(@)]
                                      ELSE job[u]]
            /\ UNCHANGED <<rows, vaults, current, accepted, issued, cutShort>>
       ELSE Breaks(t)

Save(t) == SaveOpens(t) \/ SaveWrites(t) \/ SaveReplaces(t)

(***************************************************************************)
(* Adding, reauthorising and removing a provider.                          *)
(***************************************************************************)

Alone(t, n) == Careful => \A u \in Task \ {t} : Busy(u) => job[u].name # n

Start(t, op, phase, n) ==
    /\ ~Busy(t) /\ Alone(t, n)
    /\ \E v \in Index : Given(t, v) /\ Become(t, Starting(op, phase, n, v, NoCred))
    /\ UNCHANGED <<rows, disk, temp, current, accepted, issued, cutShort>>

\* _ensure_name_free, then the consent or the prompt.
StartAdd(t, n) == n \notin rows /\ Start(t, "add", "consenting", n)
StartReauth(t, n) == n \in rows /\ Start(t, "reauth", "consenting", n)

StartRemove(t, n) == n \in rows /\ Start(t, "remove", "removing", n)

\* The secret goes before the row.
RemoveSecret(t) ==
    /\ job[t].at = "removing"
    /\ SetSecret(t, NoCred, "dropping")
    /\ UNCHANGED <<rows, disk, temp, current, accepted, issued, cutShort>>

\* acquire_oauth_blob: the user agrees and the server issues a credential,
\* which is stored before it is tested.
Consent(t) ==
    LET c == issued + 1 IN
    /\ job[t].at = "consenting" /\ c \in Cred
    /\ issued' = c
    /\ accepted' = [accepted EXCEPT ![job[t].name] = @ \cup {c}]
    /\ SetSecret(t, c, "testing")
    /\ UNCHANGED <<rows, disk, temp, current, cutShort>>

Abandoned(t) ==
    /\ job[t].at = "consenting"
    /\ Become(t, Idle)
    /\ UNCHANGED <<rows, disk, temp, vaults, current, accepted, issued, cutShort>>

Ends(t) == Become(t, Idle) /\ cutShort' = cutShort \ {job[t].name}

\* The connection test passes; a row is added, whose name must still be free.
TestPasses(t) ==
    /\ job[t].at = "testing"
    /\ IF job[t].op = "add" /\ job[t].name \in rows
       THEN SetSecret(t, NoCred, "idle") /\ UNCHANGED <<rows, cutShort>>
       ELSE rows' = rows \cup {n \in {job[t].name} : job[t].op = "add"} /\ Ends(t) /\ UNCHANGED vaults
    /\ UNCHANGED <<disk, temp, current, accepted, issued>>

\* Mutant: the secret stays.
TestFailsKeeping(t) ==
    /\ job[t].at = "testing"
    /\ Become(t, Idle) /\ UNCHANGED vaults
    /\ UNCHANGED <<rows, disk, temp, current, accepted, issued, cutShort>>

\* An error of the library's takes the secret of an addition back.
TestFails(t) ==
    /\ job[t].at = "testing"
    /\ IF job[t].op = "add" THEN SetSecret(t, NoCred, "idle") ELSE Become(t, Idle) /\ UNCHANGED vaults
    /\ UNCHANGED <<rows, disk, temp, current, accepted, issued, cutShort>>

\* Any other error, a connection that fails among them, does not.
TestBreaks(t) == job[t].at = "testing" /\ Breaks(t)

DropRow(t) ==
    /\ job[t].at = "dropping"
    /\ rows' = rows \ {job[t].name}
    /\ Ends(t)
    /\ UNCHANGED <<disk, temp, vaults, current, accepted, issued>>

Onboarding(t) ==
    \/ \E n \in Name : StartAdd(t, n) \/ StartReauth(t, n) \/ StartRemove(t, n)
    \/ Consent(t) \/ Abandoned(t) \/ TestPasses(t) \/ TestFails(t) \/ TestBreaks(t)
    \/ RemoveSecret(t) \/ DropRow(t)

(***************************************************************************)
(* Using a provider: load_providers and the adapter's TokenManager.        *)
(***************************************************************************)

\* Every registered provider's adapter is made, or the operation fails; the
\* adapter keeps its own copy of the credential.
StartUse(t, n) ==
    /\ ~Busy(t) /\ Alone(t, n) /\ n \in rows
    /\ \E v \in Index :
         /\ Given(t, v)
         /\ \A m \in rows : vaults'[v][m] # NoCred
         /\ Become(t, Starting("use", "using", n, v, vaults'[v][n]))
    /\ UNCHANGED <<rows, disk, temp, current, accepted, issued, cutShort>>

\* The server trades the refresh token for another one.
Redeem(t) ==
    LET c == issued + 1  n == job[t].name IN
    /\ job[t].at = "using" /\ n \in Rotating /\ c \in Cred
    /\ job[t].cred \in accepted[n]
    /\ issued' = c
    /\ accepted' = [accepted EXCEPT ![n] = (@ \ {job[t].cred}) \cup {c}]
    /\ job' = [job EXCEPT ![t].at = "redeemed", ![t].cred = c]
    /\ UNCHANGED <<rows, disk, temp, vaults, current, cutShort>>

\* Mutant: the rotated token stays with the adapter.
WriteBackNothing(t) ==
    /\ job[t].at = "redeemed"
    /\ Become(t, [job[t] EXCEPT !.at = "using"])
    /\ UNCHANGED <<rows, disk, temp, vaults, current, accepted, issued, cutShort>>

\* The answer arrives and the rotated token is written back.
WriteBack(t) ==
    /\ job[t].at = "redeemed"
    /\ SetSecret(t, job[t].cred, "using")
    /\ UNCHANGED <<rows, disk, temp, current, accepted, issued, cutShort>>

AnswerLost(t) == job[t].at = "redeemed" /\ Breaks(t)

\* The work is done, or its token was refused.
EndUse(t) ==
    /\ job[t].at = "using"
    /\ Become(t, Idle)
    /\ UNCHANGED <<rows, disk, temp, vaults, current, accepted, issued, cutShort>>

Using(t) ==
    \/ \E n \in Name : StartUse(t, n)
    \/ Redeem(t) \/ WriteBack(t) \/ AnswerLost(t) \/ EndUse(t)

(***************************************************************************)
(* The programs stop between any two steps; files stay as they are.        *)
(***************************************************************************)
Crash ==
    /\ current # 0 \/ \E t \in Task : Busy(t)
    /\ job' = [t \in Task |-> Idle]
    /\ vaults' = [v \in Index |-> Blank] /\ current' = 0
    /\ cutShort' = cutShort \cup {n \in Name : \E t \in Task : Busy(t) /\ job[t].name = n /\ Exposed(t)}
    /\ UNCHANGED <<rows, disk, temp, accepted, issued>>

Init ==
    /\ rows = {} /\ cutShort = {}
    /\ disk = Blank /\ temp = NoFile
    /\ vaults = [v \in Index |-> Blank] /\ current = 0
    /\ job = [t \in Task |-> Idle]
    /\ accepted = [n \in Name |-> {}] /\ issued = 0

Next ==
    \/ Unlock \/ Lock \/ Crash
    \/ \E t \in Task : Save(t) \/ Onboarding(t) \/ Using(t)

Spec == Init /\ [][Next]_vars

(***************************************************************************)
(* Properties.                                                             *)
(***************************************************************************)

\* Every variable has its type.
TypeOK ==
    /\ rows \subseteq Name /\ cutShort \subseteq Name
    /\ disk \in File /\ temp \in File
    /\ vaults \in [Index -> Secrets] /\ current \in Index \cup {0}
    /\ job \in [Task -> Work \cup {Idle}]
    /\ accepted \in [Name -> SUBSET Cred] /\ issued \in 0..MaxCreds

\* "The vault file is never half-written" (vault.py:132), whenever a program
\* stops.
VaultWhole == Whole(disk)

\* Nothing is under way at the provider that could not be stopped, and nothing
\* was cut short there since its last operation that ended.
Quiet(n) == n \notin cutShort /\ \A t \in Task : Busy(t) /\ job[t].name = n => ~Exposed(t)

\* A provider is registered if and only if the vault file has its secret,
\* without which no file could be put, scrubbed or snapshotted: no error,
\* refusal or crash loses it, and a failed addition leaves none behind
\* (_store_test_register: "rolling the secret back if anything fails after it
\* was stored"), except where an operation was cut short.
RowsMatchSecrets == \A n \in Name : Quiet(n) => (n \in rows <=> disk[n] # NoCred)

\* What the vault file says is accepted by the provider: a rotated token is
\* written back before anything can need it.
SecretsWork == \A n \in rows : Quiet(n) /\ disk[n] # NoCred => disk[n] \in accepted[n]

\* Saving the whole map never changes what the file says of a provider at
\* which nothing is under way: no update of another task is lost.
OthersKept ==
    [][\A n \in Name : Whole(disk) /\ Whole(disk') /\ disk'[n] # disk[n]
          => \E t \in Task : Busy(t) /\ job[t].name = n]_vars

================================================================================
