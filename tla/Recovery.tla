-------------------------------- MODULE Recovery --------------------------------
(***************************************************************************)
(* A home (vault.json and register.db) and the ways to bring an archive    *)
(* back to one: import of an export, of its vault alone or of a snapshot   *)
(* alone, restore from the snapshots the vault knows of, and cold recovery *)
(* with the passphrase and one provider (portability.py, and the handlers  *)
(* and commands around it).  Each replaces two files in several steps.     *)
(*                                                                         *)
(* A file of the archive can be read with the key it was wrapped under,    *)
(* which the passphrase gives only with the salt of the right vault.  How  *)
(* a snapshot is written is the business of module Snapshot.               *)
(***************************************************************************)
EXTENDS Naturals, FiniteSets

CONSTANTS
    File, Provider,
    Careful,        \* the user brings an archive back before anything else,
                    \* from the newest copy there is, and takes force only to
                    \* repeat what was cut short
    NoVault, TornVault, NoRegister, Nothing,    \* absent and unreadable files
    MaxKeys,        \* bound: vaults with a salt of their own
    MaxLosses,      \* bound: losses of the home
    MaxCrashes      \* bound: crashes

ASSUME RecoveryAssumption ==
    /\ IsFiniteSet(File) /\ IsFiniteSet(Provider) /\ Careful \in BOOLEAN
    /\ MaxKeys \in Nat /\ MaxLosses \in Nat /\ MaxCrashes \in Nat
    /\ NoVault # TornVault

VARIABLES
    vault, register,    \* the two files
    remote,             \* the snapshot each provider has
    backup,             \* the last export
    daemon,             \* "down", "locked" or "unlocked"
    job,                \* the import, restore or recovery under way
    wrapped,            \* the key each stored file is wrapped under
    keys, losses, crashes,
    cut,                \* history: an installation ended half way, or failed
                        \* with the home changed
    safe                \* history: files a snapshot or an export has had

vars == <<vault, register, remote, backup, daemon, job, wrapped, keys, losses, crashes, cut, safe>>
home == <<vault, register>>
World == <<remote, backup, wrapped, keys, losses, crashes, safe>>

NoKey == 0
Key == 1..MaxKeys
Vault == [key : Key, secrets : SUBSET Provider, locs : SUBSET Provider]
Register == [files : SUBSET File, rows : SUBSET Provider]
Empty == [files |-> {}, rows |-> {}]
Blob == [key : Key, register : Register]    \* an encrypted snapshot
CreatedVault(k) == [key |-> k, secrets |-> {}, locs |-> {}]
ASSUME AbsenceAssumption ==
    /\ NoVault \notin Vault /\ TornVault \notin Vault /\ NoRegister \notin Register
    /\ Nothing \notin Blob /\ Nothing \notin [vault : Vault, blob : Blob]

(***************************************************************************)
(* The job: what it installs (a vault, a snapshot or a register's bytes),  *)
(* the locations it has still to try, and the provider it recovers from.   *)
(***************************************************************************)
Idle == [at |-> "idle"]
Phase == {"check", "writing", "vault", "unlock", "fetch", "find", "create", "register", "adopt"}
Job == [at : Phase, op : {"import", "vaultImport", "snapshotImport", "restore", "recover"},
        by : {"cli", "daemon"}, force : BOOLEAN,
        vault : Vault \cup {NoVault}, blob : Blob \cup {Nothing},
        todo : SUBSET Provider, from : SUBSET Provider,
        before : {<<v, r>> : v \in Vault \cup {NoVault, TornVault}, r \in Register \cup {NoRegister}}]
Starting(op, phase, by, force, v, b, from) ==
    [at |-> phase, op |-> op, by |-> by, force |-> force, vault |-> v, blob |-> b,
     todo |-> {}, from |-> from, before |-> home]

Busy == job.at # "idle"
Goto(phase) == job' = [job EXCEPT !.at = phase]
\* Commands are run while the daemon is down, handlers while it is up.
MayRun(by) == ~Busy /\ IF by = "cli" THEN daemon = "down" ELSE daemon # "down"
MayForce(force) == Careful /\ force => cut
Newest(reg) == Careful => safe \subseteq reg.files
NewestAt(providers) == \A p \in providers : remote[p] # Nothing => Newest(remote[p].register)

\* A handler reopens the register, which creates one that is missing.
Reopened(r) == IF job.by = "daemon" /\ r = NoRegister THEN Empty ELSE r

Fails ==
    /\ job' = Idle
    /\ register' = Reopened(register)
    /\ cut' = (cut \/ home # job.before)
    /\ UNCHANGED <<vault, daemon, World>>

\* The vault is unlocked with what it was given; a handler keeps it.
Done ==
    /\ job' = Idle /\ cut' = FALSE
    /\ daemon' = IF job.by = "daemon" THEN "unlocked" ELSE daemon

(***************************************************************************)
(* import_archive: everything is checked before the register is replaced,  *)
(* and the vault, which marks the home as initialised, comes last.         *)
(***************************************************************************)
\* Mutant: the vault is put in its place to be unlocked there.
StartImportInPlace(by, force) ==
    /\ MayRun(by) /\ MayForce(force) /\ backup # Nothing /\ Newest(backup.blob.register)
    /\ vault = NoVault \/ (force /\ by = "cli")
    /\ job' = Starting("import", "check", by, force, backup.vault, backup.blob, {})
    /\ vault' = backup.vault
    /\ UNCHANGED <<register, daemon, cut, World>>

StartImport(by, force) ==
    /\ MayRun(by) /\ MayForce(force) /\ backup # Nothing /\ Newest(backup.blob.register)
    /\ vault = NoVault \/ (force /\ by = "cli")
    /\ job' = Starting("import", "check", by, force, backup.vault, backup.blob, {})
    /\ UNCHANGED <<home, daemon, cut, World>>

ImportRegister ==
    /\ job.at = "check" /\ job.op = "import"
    /\ job.blob.key = job.vault.key
    /\ register' = job.blob.register
    /\ Goto("vault")
    /\ UNCHANGED <<vault, daemon, cut, World>>

ImportVault ==
    /\ job.at = "vault" /\ job.op = "import"
    /\ vault' = job.vault
    /\ Done
    /\ UNCHANGED <<register, World>>

\* Wrong passphrase, bytes that are no register.
ImportFails == job.at = "check" /\ job.op = "import" /\ Fails

Import ==
    \/ \E by \in {"cli", "daemon"}, force \in BOOLEAN : StartImport(by, force)
    \/ ImportRegister \/ ImportVault \/ ImportFails

(***************************************************************************)
(* restore_register_from_snapshot, with a vault that is installed first:   *)
(* the import of a vault alone, after unlocking it; the restore command,   *)
(* before, and not by a replace.                                           *)
(***************************************************************************)
StartVaultImport ==
    /\ MayRun("daemon") /\ vault = NoVault /\ backup # Nothing /\ NewestAt(backup.vault.locs)
    /\ job' = Starting("vaultImport", "unlock", "daemon", TRUE, backup.vault, Nothing, {})
    /\ UNCHANGED <<home, daemon, cut, World>>

StartRestore(given, force) ==
    /\ MayRun("cli") /\ MayForce(force)
    /\ IF given THEN backup # Nothing /\ (vault = NoVault \/ force) /\ NewestAt(backup.vault.locs)
       ELSE vault \in Vault => NewestAt(vault.locs)
    /\ job' = Starting("restore", IF given THEN "writing" ELSE "unlock", "cli", force,
                       IF given THEN backup.vault ELSE NoVault, Nothing, {})
    /\ UNCHANGED <<home, daemon, cut, World>>

WriteVault ==
    /\ job.at = "writing" /\ job.op = "restore"
    /\ vault' = job.vault
    /\ Goto("unlock")
    /\ UNCHANGED <<register, daemon, cut, World>>

UnlockToRestore ==
    LET v == IF job.op = "vaultImport" THEN job.vault ELSE vault IN
    /\ job.at = "unlock" /\ v \in Vault
    /\ register = NoRegister \/ job.force
    /\ v.locs # {}
    /\ vault' = v
    /\ job' = [job EXCEPT !.at = "fetch", !.todo = v.locs]
    /\ UNCHANGED <<register, daemon, cut, World>>

\* The vault knows of no snapshot, which the import finds out when it has
\* replaced the file.
NoLocations ==
    /\ job.at = "unlock" /\ job.op = "vaultImport" /\ job.vault.locs = {}
    /\ vault' = job.vault /\ register' = Reopened(register)
    /\ job' = Idle /\ cut' = TRUE
    /\ UNCHANGED <<daemon, World>>

\* Wrong passphrase, no vault, or a register in the way.
RestoreRefused == job.at = "unlock" /\ Fails

FetchHit(p) ==
    /\ job.at = "fetch" /\ p \in job.todo \cap vault.secrets
    /\ remote[p] # Nothing /\ remote[p].key = vault.key
    /\ register' = remote[p].register
    /\ Done
    /\ UNCHANGED <<vault, World>>

\* The provider cannot be reached, or what it has does not decrypt.
FetchMiss(p) ==
    /\ job.at = "fetch" /\ p \in job.todo
    /\ job' = [job EXCEPT !.todo = @ \ {p}]
    /\ UNCHANGED <<home, daemon, cut, World>>

FetchFails == job.at = "fetch" /\ job.todo = {} /\ Fails

Restore ==
    \/ StartVaultImport \/ \E given, force \in BOOLEAN : StartRestore(given, force)
    \/ WriteVault \/ UnlockToRestore \/ NoLocations \/ RestoreRefused
    \/ \E p \in Provider : FetchHit(p) \/ FetchMiss(p)
    \/ FetchFails

(***************************************************************************)
(* Cold recovery, and the import of a snapshot alone: the vault is created *)
(* anew, with the salt that the snapshot carries, and the register is      *)
(* replaced after it.                                                      *)
(***************************************************************************)
StartRecover(by, force, p) ==
    /\ MayRun(by) /\ MayForce(force) /\ NewestAt({p})
    /\ vault = NoVault \/ (force /\ by = "cli")
    /\ job' = Starting("recover", "find", by, force \/ by = "daemon", NoVault, Nothing, {p})
    /\ UNCHANGED <<home, daemon, cut, World>>

FindSnapshot ==
    /\ job.at = "find" /\ \E p \in job.from :
         remote[p] # Nothing /\ job' = [job EXCEPT !.at = "create", !.blob = remote[p]]
    /\ UNCHANGED <<home, daemon, cut, World>>

StartSnapshotImport ==
    /\ MayRun("daemon") /\ vault = NoVault /\ backup # Nothing /\ Newest(backup.blob.register)
    /\ job' = Starting("snapshotImport", "create", "daemon", TRUE, NoVault, backup.blob, {})
    /\ UNCHANGED <<home, daemon, cut, World>>

\* Nothing found, unreadable with this passphrase, or no register.
RecoverFails == job.at \in {"find", "create"} /\ vault = job.before[1] /\ Fails

\* Mutant: the vault gets a salt of its own.
CreateVaultAnew ==
    /\ job.at = "create"
    /\ vault = NoVault \/ job.force
    /\ vault' = CreatedVault(CHOOSE k \in Key : k # job.blob.key)
    /\ Goto("register")
    /\ UNCHANGED <<register, daemon, cut, World>>

\* Decrypted and validated, then create_vault, for which force makes room.
CreateVault ==
    /\ job.at = "create"
    /\ vault = NoVault \/ job.force
    /\ vault' = CreatedVault(job.blob.key)
    /\ Goto("register")
    /\ UNCHANGED <<register, daemon, cut, World>>

InstallRegister ==
    /\ job.at = "register"
    /\ register' = job.blob.register
    /\ IF job.from = {} THEN Done ELSE Goto("adopt") /\ UNCHANGED <<daemon, cut>>
    /\ UNCHANGED <<vault, World>>

\* adopt_recovered_credentials: the credential goes to the row it is for, when
\* there is one and no other could be meant.
Adopt ==
    /\ job.at = "adopt" /\ job.from \subseteq register.rows
    /\ vault' = [vault EXCEPT !.secrets = @ \cup job.from]
    /\ Done
    /\ UNCHANGED <<register, World>>

\* The command fails, the archive is there.
AdoptFails ==
    /\ job.at = "adopt"
    /\ job' = Idle /\ cut' = FALSE
    /\ UNCHANGED <<home, daemon, World>>

Recover ==
    \/ \E by \in {"cli", "daemon"}, force \in BOOLEAN, p \in Provider : StartRecover(by, force, p)
    \/ FindSnapshot \/ StartSnapshotImport \/ RecoverFails
    \/ CreateVault \/ InstallRegister \/ Adopt \/ AdoptFails

(***************************************************************************)
(* The life of a home: the daemon, the first start, what is stored, the    *)
(* snapshots and exports made of it, and the end of the machine.           *)
(***************************************************************************)
StartDaemon ==
    /\ daemon = "down" /\ ~Busy
    /\ daemon' = "locked"
    /\ register' = IF register = NoRegister THEN Empty ELSE register
    /\ UNCHANGED <<vault, job, cut, World>>

StopDaemon ==
    /\ daemon # "down" /\ ~Busy
    /\ daemon' = "down"
    /\ UNCHANGED <<home, job, cut, World>>

Unlock ==
    /\ daemon = "locked" /\ ~Busy /\ vault \in Vault
    /\ Careful => ~cut
    /\ daemon' = "unlocked"
    /\ UNCHANGED <<home, job, cut, World>>

\* The vault is the mark of an initialised home; any register is adopted.
InitHome(by) ==
    /\ MayRun(by) /\ vault = NoVault /\ keys < MaxKeys
    /\ Careful => ~cut /\ safe = {}
    /\ keys' = keys + 1
    /\ vault' = CreatedVault(keys + 1)
    /\ register' = IF register = NoRegister THEN Empty ELSE register
    /\ daemon' = IF by = "daemon" THEN "unlocked" ELSE daemon
    /\ UNCHANGED <<remote, backup, job, wrapped, losses, crashes, cut, safe>>

Serving == daemon = "unlocked" /\ ~Busy
\* load_providers: every row's credential is there.
Loadable == register.rows # {} /\ register.rows \subseteq vault.secrets

AddProvider(p) ==
    /\ Serving /\ p \notin register.rows
    /\ register' = [register EXCEPT !.rows = @ \cup {p}]
    /\ vault' = [vault EXCEPT !.secrets = @ \cup {p}]
    /\ UNCHANGED <<daemon, job, cut, World>>

Reauth(p) ==
    /\ Serving /\ p \in register.rows \ vault.secrets
    /\ vault' = [vault EXCEPT !.secrets = @ \cup {p}]
    /\ UNCHANGED <<register, daemon, job, cut, World>>

PutFile(f) ==
    /\ Serving /\ Loadable /\ wrapped[f] = NoKey
    /\ register' = [register EXCEPT !.files = @ \cup {f}]
    /\ wrapped' = [wrapped EXCEPT ![f] = vault.key]
    /\ UNCHANGED <<vault, remote, backup, daemon, job, keys, losses, crashes, cut, safe>>

TheSnapshot == [key |-> vault.key, register |-> register]

\* Mutant: the objects recorded before are deleted, the new one among them.
PrunedAll(previous, targets) == previous

\* The locations recorded before that have no new object.
Pruned(previous, targets) == previous \ targets

\* Old objects go when the new locations are in the vault, if they can be
\* deleted.
TakeSnapshot ==
    /\ Serving /\ Loadable
    /\ \E targets \in (SUBSET register.rows) \ {{}} :
       \E gone \in SUBSET Pruned(vault.locs, targets) :
         /\ remote' = [p \in Provider |-> IF p \in gone THEN Nothing
                                          ELSE IF p \in targets THEN TheSnapshot ELSE remote[p]]
         /\ vault' = [vault EXCEPT !.locs = targets]
    /\ safe' = safe \cup register.files
    /\ UNCHANGED <<register, backup, daemon, job, wrapped, keys, losses, crashes, cut>>

Export ==
    /\ Serving
    /\ backup' = [vault |-> vault, blob |-> TheSnapshot]
    /\ safe' = safe \cup register.files
    /\ UNCHANGED <<home, remote, daemon, job, wrapped, keys, losses, crashes, cut>>

LoseHome ==
    /\ losses < MaxLosses /\ ~Busy
    /\ losses' = losses + 1
    /\ vault' = NoVault /\ register' = NoRegister
    /\ daemon' = "down" /\ cut' = FALSE
    /\ UNCHANGED <<remote, backup, job, wrapped, keys, crashes, safe>>

\* A vault that is created or copied, rather than replaced, can be cut short.
Crash ==
    /\ crashes < MaxCrashes /\ Busy
    /\ crashes' = crashes + 1
    /\ \/ UNCHANGED vault /\ cut' = (cut \/ home # job.before)
       \/ job.at \in {"writing", "create"} /\ vault' = TornVault /\ cut' = TRUE
    /\ job' = Idle /\ daemon' = "down"
    /\ UNCHANGED <<register, remote, backup, wrapped, keys, losses, safe>>

Living ==
    \/ StartDaemon \/ StopDaemon \/ Unlock \/ \E by \in {"cli", "daemon"} : InitHome(by)
    \/ \E p \in Provider : AddProvider(p) \/ Reauth(p)
    \/ \E f \in File : PutFile(f)
    \/ TakeSnapshot \/ Export \/ LoseHome \/ Crash

Init ==
    /\ vault = NoVault /\ register = NoRegister
    /\ remote = [p \in Provider |-> Nothing] /\ backup = Nothing
    /\ daemon = "down" /\ job = Idle
    /\ wrapped = [f \in File |-> NoKey]
    /\ keys = 0 /\ losses = 0 /\ crashes = 0
    /\ cut = FALSE /\ safe = {}

Next == Import \/ Restore \/ Recover \/ Living
Spec == Init /\ [][Next]_vars

(***************************************************************************)
(* Properties.                                                             *)
(***************************************************************************)

\* Every variable has its type.
TypeOK ==
    /\ vault \in Vault \cup {NoVault, TornVault} /\ register \in Register \cup {NoRegister}
    /\ remote \in [Provider -> Blob \cup {Nothing}]
    /\ backup = Nothing \/ backup \in [vault : Vault, blob : Blob]
    /\ daemon \in {"down", "locked", "unlocked"} /\ (Busy => job \in Job)
    /\ wrapped \in [File -> Key \cup {NoKey}] /\ keys \in 0..MaxKeys
    /\ losses \in 0..MaxLosses /\ crashes \in 0..MaxCrashes
    /\ cut \in BOOLEAN /\ safe \subseteq File

\* The vault of an unlocked daemon has the key of every file in the register
\* (create_vault: "cold recovery MUST keep the original salt, or the restored
\* register's wrapped file keys would no longer unwrap").
Readable ==
    Serving => /\ vault \in Vault /\ register \in Register
               /\ \A f \in register.files : wrapped[f] = vault.key

\* A file that a snapshot or an export has had can still be had: it is in the
\* home's register, in a snapshot or in the export, with its key.
Recoverable ==
    \A f \in safe :
        LET Has(blob) == f \in blob.register.files /\ wrapped[f] = blob.key IN
        \/ register # NoRegister /\ f \in register.files
        \/ backup # Nothing /\ Has(backup.blob)
        \/ \E p \in Provider : remote[p] # Nothing /\ Has(remote[p])

\* The vault is the one there was, or the one the job was given to install.
Given(v) == v = job.before[1] \/ (job.vault # NoVault /\ v = job.vault)
KeepsRegister == register' = Reopened(job.before[2])
Untouched == KeepsRegister /\ vault' = job.before[1]
Installed(blob) == register' = blob.register /\ vault'.key = blob.key
\* The job ends, well or not, and not in a crash.
JobEnds == Busy /\ ~Busy' /\ crashes' = crashes

\* An import of both files, of a snapshot, or a recovery, that ends, well or not,
\* has installed its register with a vault that can read it, or left the home as
\* it was ("a failed import leaves the home untouched", portability.py:216) but
\* for a handler's empty register.  A restore, and the import of a vault alone,
\* ends with a snapshot that the vault decrypts, or with the register as it was;
\* the vault it was given may stay, but no other, and none that it made up.
AllOrNothing ==
    [][JobEnds =>
         IF job.op \in {"import", "snapshotImport", "recover"}
         THEN Untouched \/ Installed(job.blob)
         ELSE Given(vault') /\ (KeepsRegister \/ \E p \in job.todo : Installed(remote[p]))]_vars

=================================================================================
