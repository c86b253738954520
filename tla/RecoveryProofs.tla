------------------------------ MODULE RecoveryProofs ------------------------------
(***************************************************************************)
(* Imports, restores and recoveries of Recovery, for any files, providers, *)
(* losses and crashes.  What makes them right: the two files of a home are *)
(* changed in an order that a job remembers, so that either the job ends   *)
(* with the pair it meant to install or the home counts as cut short; and  *)
(* a home that is not cut short has a vault that reads its register, and   *)
(* every file that a snapshot or an export has had.                        *)
(***************************************************************************)
EXTENDS Recovery, TLAPS

\* What a job has done so far, for each place it may be at.
Progress ==
    /\ job.at \in {"check", "vault"} =>
          job.op = "import" /\ job.vault \in Vault /\ job.blob \in Blob
    /\ job.at \in {"check", "find", "create"} => home = job.before
    /\ job.at = "vault" => register = job.blob.register /\ job.vault.key = job.blob.key
    /\ job.at \in {"writing", "unlock", "fetch"} =>
          /\ job.op \in {"restore", "vaultImport"} /\ register = job.before[2]
          /\ job.at = "writing" \/ job.op = "vaultImport" => job.vault \in Vault
          /\ Given(vault)
    /\ job.at = "fetch" => vault \in Vault
    /\ job.at \in {"find", "create", "register", "adopt"} => job.op \in {"recover", "snapshotImport"}
    /\ job.at \in {"create", "register", "adopt"} => job.blob \in Blob
    /\ job.at \in {"register", "adopt"} => vault \in Vault /\ vault.key = job.blob.key
    /\ job.at = "adopt" => register = job.blob.register

\* The register is there while the daemon is up; nothing is installed while it
\* is unlocked.
Up ==
    /\ daemon # "down" => register \in Register
    /\ daemon = "unlocked" => ~Busy /\ vault \in Vault

JobsInv == TypeOK /\ Progress /\ Up

\* A snapshot can be read with the key it is encrypted under.
Sound(blob) == \A f \in blob.register.files : wrapped[f] = blob.key

\* A home that is whole: new, or with all that was ever safe, readable.
Whole(v, r) ==
    /\ v # TornVault
    /\ v = NoVault => r \in {NoRegister, Empty}
    /\ v \in Vault => /\ r \in Register /\ safe \subseteq r.files
                      /\ \A f \in r.files : wrapped[f] = v.key

Copies ==
    /\ \A p \in Provider : remote[p] # Nothing => Sound(remote[p])
    /\ backup # Nothing => Sound(backup.blob)
    /\ Busy /\ job.blob # Nothing => Sound(job.blob)

\* What was safe is in a snapshot or in the export.
Kept ==
    \A f \in safe :
        \/ backup # Nothing /\ f \in backup.blob.register.files
        \/ \E p \in Provider : remote[p] # Nothing /\ f \in remote[p].register.files

\* Who is careful installs the newest copy.
Latest ==
    /\ job.at \in {"check", "vault", "create", "register", "adopt"} => Newest(job.blob.register)
    /\ job.at = "writing" \/ (job.at = "unlock" /\ job.op = "vaultImport") => NewestAt(job.vault.locs)
    /\ job.at = "unlock" /\ job.op = "restore" => (vault \in Vault => NewestAt(vault.locs))
    /\ job.at = "fetch" => NewestAt(job.todo)
    /\ job.at = "find" => NewestAt(job.from)

CareInv ==
    /\ Copies /\ Kept /\ Latest
    /\ ~cut => IF Busy THEN Whole(job.before[1], job.before[2]) ELSE Whole(vault, register)
    /\ daemon = "unlocked" => ~cut

RecoveryInv == JobsInv /\ (Careful => CareInv)

----------------------------------------------------------------------------
(* Jobs.                                                                   *)

Operations == {"import", "vaultImport", "snapshotImport", "restore", "recover"}

\* A job as it starts.
LEMMA StartingFacts ==
    ASSUME TypeOK, NEW op \in Operations, NEW phase \in Phase, NEW by \in {"cli", "daemon"},
           NEW force \in BOOLEAN, NEW v \in Vault \cup {NoVault}, NEW b \in Blob \cup {Nothing},
           NEW from \in SUBSET Provider, NEW j, j = Starting(op, phase, by, force, v, b, from)
    PROVE  /\ j \in Job /\ j.at = phase /\ j.op = op /\ j.vault = v /\ j.blob = b
           /\ j.from = from /\ j.todo = {} /\ j.before = home
           /\ j.before[1] = vault /\ j.before[2] = register
  <1>1. home \in {<<w, r>> : w \in Vault \cup {NoVault, TornVault}, r \in Register \cup {NoRegister}}
    BY DEF TypeOK, home
  <1>2. home[1] = vault /\ home[2] = register
    BY DEF home
  <1>3. QED
    BY <1>1, <1>2 DEF Starting, Job, Operations

\* A job goes on at another place, and is otherwise what it was.
LEMMA GotoFacts ==
    ASSUME job \in Job, NEW phase \in Phase, NEW j, j = [job EXCEPT !.at = phase]
    PROVE  /\ j \in Job /\ j.at = phase /\ j.op = job.op /\ j.vault = job.vault /\ j.blob = job.blob
           /\ j.by = job.by /\ j.from = job.from /\ j.todo = job.todo /\ j.before = job.before
  BY DEF Job

\* A job with other locations to try.
LEMMA FetchingFacts ==
    ASSUME NEW k \in Job, NEW l \in SUBSET Provider, NEW j, j = [k EXCEPT !.todo = l]
    PROVE  /\ j \in Job /\ j.at = k.at /\ j.op = k.op /\ j.vault = k.vault
           /\ j.by = k.by /\ j.from = k.from /\ j.before = k.before
           /\ j.todo = l /\ j.blob = k.blob
  BY DEF Job

\* A job with the snapshot it has found.
LEMMA FoundFacts ==
    ASSUME NEW k \in Job, NEW b \in Blob, NEW j, j = [k EXCEPT !.blob = b]
    PROVE  /\ j \in Job /\ j.at = k.at /\ j.op = k.op /\ j.vault = k.vault
           /\ j.by = k.by /\ j.from = k.from /\ j.before = k.before
           /\ j.blob = b /\ j.todo = k.todo
  BY DEF Job

\* What a job is.
LEMMA JobFacts ==
    ASSUME JobsInv, Busy
    PROVE  /\ job \in Job /\ job.at \in Phase /\ job.op \in Operations /\ job.by \in {"cli", "daemon"}
           /\ job.vault \in Vault \cup {NoVault} /\ job.blob \in Blob \cup {Nothing}
           /\ job.todo \in SUBSET Provider /\ job.from \in SUBSET Provider
           /\ job.before[1] \in Vault \cup {NoVault, TornVault}
           /\ job.before[2] \in Register \cup {NoRegister}
           /\ (home = job.before <=> vault = job.before[1] /\ register = job.before[2])
           /\ daemon # "unlocked"
  <1>1. job \in Job
    BY DEF JobsInv, TypeOK
  <1>2. /\ job.at \in Phase /\ job.op \in Operations /\ job.by \in {"cli", "daemon"}
        /\ job.vault \in Vault \cup {NoVault} /\ job.blob \in Blob \cup {Nothing}
        /\ job.todo \in SUBSET Provider /\ job.from \in SUBSET Provider
    BY <1>1 DEF Job, Operations
  <1>3. PICK v \in Vault \cup {NoVault, TornVault}, r \in Register \cup {NoRegister} :
            job.before = <<v, r>>
    BY <1>1 DEF Job
  <1>4. /\ job.before[1] \in Vault \cup {NoVault, TornVault}
        /\ job.before[2] \in Register \cup {NoRegister}
        /\ (home = job.before <=> vault = job.before[1] /\ register = job.before[2])
    BY <1>3 DEF home
  <1>5. daemon # "unlocked"
    BY DEF JobsInv, Up
  <1>6. QED
    BY <1>1, <1>2, <1>4, <1>5

\* The parts of vaults, registers and snapshots.
LEMMA PartsFacts ==
    /\ \A v \in Vault : v.key \in Key /\ v.secrets \in SUBSET Provider /\ v.locs \in SUBSET Provider
    /\ \A b \in Blob : b.key \in Key /\ b.register \in Register
    /\ \A r \in Register : r.files \in SUBSET File /\ r.rows \in SUBSET Provider
    /\ Empty \in Register /\ Empty.files = {}
    /\ \A k \in Key : CreatedVault(k) \in Vault /\ CreatedVault(k).key = k
    /\ \A k \in Key, r \in Register :
          LET b == [key |-> k, register |-> r] IN b \in Blob /\ b.key = k /\ b.register = r
  BY DEF Vault, Blob, Register, Empty, CreatedVault

\* What an export is.
LEMMA BackupFacts ==
    ASSUME TypeOK, backup # Nothing
    PROVE  backup.vault \in Vault /\ backup.blob \in Blob
  BY DEF TypeOK

\* While the rest of the world stands still, the copies are as good as they were.
LEMMA QuietWorld ==
    ASSUME Copies, Kept, UNCHANGED World,
           Busy' => \/ Busy /\ job'.blob = job.blob
                    \/ job'.blob = Nothing
                    \/ backup # Nothing /\ job'.blob = backup.blob
                    \/ \E p \in Provider : remote[p] # Nothing /\ remote[p] = job'.blob
    PROVE  Copies' /\ Kept'
  BY DEF Copies, Kept, World, Sound

\* And a whole home is still one.
LEMMA StaysWhole ==
    ASSUME UNCHANGED World, NEW v, NEW r, Whole(v, r)
    PROVE  Whole(v, r)'
  BY DEF World, Whole

\* A handler that fails leaves a register, if only an empty one.
LEMMA ReopenedFacts ==
    ASSUME TypeOK
    PROVE  /\ Reopened(register) \in Register \cup {NoRegister}
           /\ register \in Register => Reopened(register) = register
           /\ \A v : Whole(v, register) => Whole(v, Reopened(register))
  BY PartsFacts, AbsenceAssumption DEF Reopened, TypeOK, Whole, AbsenceAssumption

\* What a step of a job has to keep.
LEMMA JobStep ==
    ASSUME RecoveryInv, UNCHANGED World,
           vault' \in Vault \cup {NoVault, TornVault}, register' \in Register \cup {NoRegister},
           register \in Register => register' \in Register,
           \/ UNCHANGED daemon
           \/ daemon' = "unlocked" /\ ~Busy' /\ vault' \in Vault /\ register' \in Register /\ ~cut',
           cut' \in BOOLEAN, Busy' => job' \in Job, Progress',
           Busy' => \/ Busy /\ job'.blob = job.blob
                    \/ job'.blob = Nothing
                    \/ backup # Nothing /\ job'.blob = backup.blob
                    \/ \E p \in Provider : remote[p] # Nothing /\ remote[p] = job'.blob,
           Careful => /\ Latest'
                      /\ ~cut' => IF Busy' THEN Whole(job.before[1], job.before[2])'
                                  ELSE Whole(vault, register)',
           daemon # "unlocked"
    PROVE  RecoveryInv'
  <1>1. TypeOK'
    BY DEF RecoveryInv, JobsInv, TypeOK, World
  <1>2. Up'
    BY DEF RecoveryInv, JobsInv, Up
  <1>3. Careful => Copies' /\ Kept'
    BY QuietWorld DEF RecoveryInv, CareInv
  <1>4. Careful => CareInv'
    BY <1>3 DEF CareInv
  <1>5. QED
    BY <1>1, <1>2, <1>4 DEF RecoveryInv, JobsInv

----------------------------------------------------------------------------
(* Jobs begin.                                                             *)

\* Commands run while the daemon is down; handlers that bring an archive back
\* find no vault.
LEMMA StartStep ==
    ASSUME RecoveryInv, NEW by \in {"cli", "daemon"}, MayRun(by), by = "daemon" => vault = NoVault,
           UNCHANGED <<home, daemon, cut, World>>,
           NEW op \in Operations, NEW phase \in Phase, NEW force \in BOOLEAN,
           NEW v \in Vault \cup {NoVault}, NEW b \in Blob \cup {Nothing},
           NEW from \in SUBSET Provider,
           job' = Starting(op, phase, by, force, v, b, from),
           b = Nothing \/ (backup # Nothing /\ b = backup.blob),
           Progress', Careful => Latest'
    PROVE  RecoveryInv'
  <1>1. daemon # "unlocked" /\ ~Busy
    BY AbsenceAssumption DEF MayRun, RecoveryInv, JobsInv, Up, AbsenceAssumption
  <1>2. TypeOK
    BY DEF RecoveryInv, JobsInv
  <1>3. /\ job' \in Job /\ job'.blob = b /\ job'.before[1] = vault /\ job'.before[2] = register
    BY <1>2, StartingFacts
  <1>4. job'.at \in Phase
    BY <1>3 DEF Job
  <1>5. Busy'
    BY <1>4 DEF Busy, Phase
  <1>6. UNCHANGED <<vault, register>>
    BY DEF home
  <1>7. Careful /\ ~cut' => Whole(job.before[1], job.before[2])'
    BY <1>1, <1>3 DEF RecoveryInv, CareInv, Whole, World
  <1>8. /\ vault' \in Vault \cup {NoVault, TornVault} /\ register' \in Register \cup {NoRegister}
        /\ register \in Register => register' \in Register
        /\ cut' \in BOOLEAN
    BY <1>2, <1>6 DEF TypeOK
  <1>9. QED
    BY <1>1, <1>3, <1>5, <1>7, <1>8, JobStep

\* An import has its vault and its snapshot, and nothing of the home changed.
LEMMA StartImportInv ==
    ASSUME RecoveryInv, NEW by \in {"cli", "daemon"}, NEW force \in BOOLEAN, StartImport(by, force)
    PROVE  RecoveryInv'
  <1>0. "import" \in Operations /\ "check" \in Phase
    BY DEF Operations, Phase
  <1>1. TypeOK /\ backup # Nothing /\ backup.vault \in Vault /\ backup.blob \in Blob
    BY BackupFacts DEF RecoveryInv, JobsInv, StartImport
  <1>2. /\ MayRun(by) /\ (by = "daemon" => vault = NoVault)
        /\ UNCHANGED <<home, daemon, cut, World>>
        /\ job' = Starting("import", "check", by, force, backup.vault, backup.blob, {})
    BY DEF StartImport
  <1>3. /\ job'.at = "check" /\ job'.op = "import" /\ job'.vault = backup.vault
        /\ job'.blob = backup.blob /\ job'.before = home
    BY <1>0, <1>1, <1>2, StartingFacts
  <1>4. Progress'
    BY <1>1, <1>2, <1>3 DEF Progress
  <1>5. Careful => Latest'
    BY <1>3 DEF Latest, Newest, StartImport, World
  <1>6. QED
    BY <1>0, <1>1, <1>2, <1>4, <1>5, StartStep

\* The import of a vault alone.
LEMMA StartVaultImportInv ==
    ASSUME RecoveryInv, StartVaultImport
    PROVE  RecoveryInv'
  <1> DEFINE f == TRUE
  <1>0. "vaultImport" \in Operations /\ "unlock" \in Phase /\ f \in BOOLEAN /\ {} \in SUBSET Provider
        /\ NoVault \in Vault \cup {NoVault} /\ Nothing \in Blob \cup {Nothing}
    BY DEF Operations, Phase
  <1>1. TypeOK /\ backup # Nothing /\ backup.vault \in Vault
    BY BackupFacts DEF RecoveryInv, JobsInv, StartVaultImport
  <1>2. /\ MayRun("daemon") /\ vault = NoVault
        /\ UNCHANGED <<home, daemon, cut, World>>
        /\ job' = Starting("vaultImport", "unlock", "daemon", f, backup.vault, Nothing, {})
    BY DEF StartVaultImport
  <1> HIDE DEF f
  <1>3. /\ job'.at = "unlock" /\ job'.op = "vaultImport" /\ job'.vault = backup.vault
        /\ job'.before[1] = vault /\ job'.before[2] = register
    BY <1>0, <1>1, <1>2, StartingFacts
  <1>4. Progress'
    BY <1>1, <1>2, <1>3 DEF Progress, Given, home
  <1>5. Careful => Latest'
    BY <1>3 DEF Latest, NewestAt, Newest, StartVaultImport, World
  <1>6. QED
    BY <1>0, <1>1, <1>2, <1>4, <1>5, StartStep

\* A restore, with a vault that is given or with the one that is there.
LEMMA StartRestoreInv ==
    ASSUME RecoveryInv, NEW given \in BOOLEAN, NEW force \in BOOLEAN, StartRestore(given, force)
    PROVE  RecoveryInv'
  <1> DEFINE v == IF given THEN backup.vault ELSE NoVault
             phase == IF given THEN "writing" ELSE "unlock"
  <1>1. TypeOK /\ v \in Vault \cup {NoVault} /\ (given => v \in Vault)
    BY BackupFacts DEF RecoveryInv, JobsInv, StartRestore
  <1>2. /\ MayRun("cli") /\ UNCHANGED <<home, daemon, cut, World>>
        /\ job' = Starting("restore", phase, "cli", force, v, Nothing, {})
    BY DEF StartRestore
  <1>3. phase \in Phase /\ (IF given THEN phase = "writing" ELSE phase = "unlock")
    BY DEF Phase
  <1>4. given => v = backup.vault
    OBVIOUS
  <1> HIDE DEF v, phase
  <1>5. /\ job'.at = phase /\ job'.op = "restore" /\ job'.vault = v
        /\ job'.before[1] = vault /\ job'.before[2] = register
    BY <1>1, <1>2, <1>3, StartingFacts DEF Operations
  <1>6. Progress'
    BY <1>1, <1>2, <1>3, <1>5 DEF Progress, Given, home
  <1>7. IF given THEN NewestAt(v.locs) ELSE vault \in Vault => NewestAt(vault.locs)
    BY <1>4 DEF StartRestore
  <1>8. Careful => Latest'
    BY <1>2, <1>3, <1>5, <1>7 DEF Latest, NewestAt, Newest, World, home
  <1>9. QED
    BY <1>1, <1>2, <1>3, <1>6, <1>8, StartStep DEF Operations

\* A cold recovery looks for a snapshot with one provider.
LEMMA StartRecoverInv ==
    ASSUME RecoveryInv, NEW by \in {"cli", "daemon"}, NEW force \in BOOLEAN, NEW p \in Provider,
           StartRecover(by, force, p)
    PROVE  RecoveryInv'
  <1> DEFINE f == (force \/ by = "daemon")
  <1>0. "recover" \in Operations /\ "find" \in Phase /\ {p} \in SUBSET Provider
        /\ NoVault \in Vault \cup {NoVault} /\ Nothing \in Blob \cup {Nothing}
    BY DEF Operations, Phase
  <1>1. TypeOK /\ f \in BOOLEAN
    BY DEF RecoveryInv, JobsInv
  <1>2. /\ MayRun(by) /\ (by = "daemon" => vault = NoVault)
        /\ UNCHANGED <<home, daemon, cut, World>>
        /\ job' = Starting("recover", "find", by, f, NoVault, Nothing, {p})
    BY DEF StartRecover
  <1> HIDE DEF f
  <1>3. job'.at = "find" /\ job'.op = "recover" /\ job'.from = {p} /\ job'.before = home
    BY <1>0, <1>1, <1>2, StartingFacts
  <1>4. Progress'
    BY <1>2, <1>3 DEF Progress
  <1>5. Careful => Latest'
    BY <1>3 DEF Latest, NewestAt, Newest, StartRecover, World
  <1>6. QED
    BY <1>0, <1>1, <1>2, <1>4, <1>5, StartStep

\* The import of a snapshot alone.
LEMMA StartSnapshotImportInv ==
    ASSUME RecoveryInv, StartSnapshotImport
    PROVE  RecoveryInv'
  <1> DEFINE f == TRUE
  <1>0. "snapshotImport" \in Operations /\ "create" \in Phase /\ f \in BOOLEAN /\ {} \in SUBSET Provider
        /\ NoVault \in Vault \cup {NoVault} /\ Nothing \in Blob \cup {Nothing}
    BY DEF Operations, Phase
  <1>1. TypeOK /\ backup # Nothing /\ backup.blob \in Blob
    BY BackupFacts DEF RecoveryInv, JobsInv, StartSnapshotImport
  <1>2. /\ MayRun("daemon") /\ vault = NoVault
        /\ UNCHANGED <<home, daemon, cut, World>>
        /\ job' = Starting("snapshotImport", "create", "daemon", f, NoVault, backup.blob, {})
    BY DEF StartSnapshotImport
  <1> HIDE DEF f
  <1>3. /\ job'.at = "create" /\ job'.op = "snapshotImport" /\ job'.blob = backup.blob
        /\ job'.before = home
    BY <1>0, <1>1, <1>2, StartingFacts
  <1>4. Progress'
    BY <1>1, <1>2, <1>3 DEF Progress
  <1>5. Careful => Latest'
    BY <1>3 DEF Latest, Newest, StartSnapshotImport, World
  <1>6. QED
    BY <1>0, <1>1, <1>2, <1>4, <1>5, StartStep

----------------------------------------------------------------------------
(* Jobs go on and end.                                                     *)

\* What a job that goes on has to keep.
LEMMA GoStep ==
    ASSUME RecoveryInv, Busy, UNCHANGED <<daemon, cut, World>>,
           vault' \in Vault \cup {NoVault, TornVault}, register' \in Register \cup {NoRegister},
           register \in Register => register' \in Register,
           job' \in Job, job'.before = job.before, Progress', Careful => Latest',
           job'.blob = job.blob \/ \E p \in Provider : remote[p] # Nothing /\ remote[p] = job'.blob
    PROVE  RecoveryInv'
  <1>1. daemon # "unlocked" /\ cut' \in BOOLEAN
    BY JobFacts DEF RecoveryInv, JobsInv, TypeOK
  <1>2. Busy'
    BY DEF Busy, Job, Phase
  <1>3. Careful /\ ~cut => Whole(job.before[1], job.before[2])
    BY DEF RecoveryInv, CareInv
  <1>4. Careful /\ ~cut' => Whole(job.before[1], job.before[2])'
    BY <1>3 DEF Whole, World
  <1>5. QED
    BY <1>1, <1>2, <1>4, JobStep

\* And one that ends.
LEMMA EndStep ==
    ASSUME RecoveryInv, Busy, job' = Idle, UNCHANGED World,
           vault' \in Vault \cup {NoVault, TornVault}, register' \in Register \cup {NoRegister},
           register \in Register => register' \in Register,
           \/ UNCHANGED daemon
           \/ daemon' = "unlocked" /\ vault' \in Vault /\ register' \in Register /\ ~cut',
           cut' \in BOOLEAN, Careful /\ ~cut' => Whole(vault, register)'
    PROVE  RecoveryInv'
  <1>1. ~Busy' /\ job'.at = "idle"
    BY DEF Busy, Idle
  <1>2. Progress' /\ Latest'
    BY <1>1 DEF Progress, Latest
  <1>3. daemon # "unlocked"
    BY JobFacts DEF RecoveryInv
  <1>4. QED
    BY <1>1, <1>2, <1>3, JobStep

\* A failure leaves the home whole if it had not been changed.
LEMMA FailsInv ==
    ASSUME RecoveryInv, Busy, Fails
    PROVE  RecoveryInv'
  <1>1. TypeOK /\ register' = Reopened(register) /\ UNCHANGED <<vault, daemon, World>> /\ job' = Idle
        /\ cut' = (cut \/ home # job.before)
    BY DEF RecoveryInv, JobsInv, Fails
  <1>2. cut' \in BOOLEAN
    BY <1>1 DEF TypeOK
  <1>3. vault' \in Vault \cup {NoVault, TornVault} /\ register' \in Register \cup {NoRegister}
        /\ (register \in Register => register' \in Register)
    BY <1>1, ReopenedFacts DEF TypeOK
  <1>4. ASSUME Careful, ~cut'
        PROVE  Whole(vault, register)'
    <2>1. ~cut /\ vault = job.before[1] /\ register = job.before[2]
      BY <1>1, <1>4, JobFacts DEF RecoveryInv
    <2>2. Whole(vault, register)
      BY <1>4, <2>1 DEF RecoveryInv, CareInv
    <2>3. Whole(vault, Reopened(register))
      BY <1>1, <2>2, ReopenedFacts
    <2>4. QED
      BY <1>1, <2>3 DEF Whole, World
  <1>5. QED
    BY <1>1, <1>2, <1>3, <1>4, EndStep

\* What Done leaves of the home.
LEMMA DoneInv ==
    ASSUME RecoveryInv, Busy, Done, UNCHANGED World, vault' \in Vault, register' \in Register,
           Careful => Whole(vault, register)'
    PROVE  RecoveryInv'
  <1>1. job' = Idle /\ cut' = FALSE
        /\ (UNCHANGED daemon \/ (daemon' = "unlocked" /\ vault' \in Vault /\ register' \in Register /\ ~cut'))
    BY DEF Done
  <1>2. QED
    BY <1>1, EndStep

\* A snapshot that was the newest there is makes a home whole with its key.
LEMMA InstalledIsWhole ==
    ASSUME Careful, CareInv, UNCHANGED World, NEW b \in Blob, Sound(b), Newest(b.register),
           vault' \in Vault, vault'.key = b.key, register' = b.register
    PROVE  Whole(vault, register)'
  <1>1. register' \in Register /\ vault' # TornVault /\ vault' # NoVault
    BY PartsFacts, AbsenceAssumption DEF AbsenceAssumption
  <1>2. safe' \subseteq register'.files
    BY DEF Newest, World
  <1>3. \A f \in register'.files : wrapped'[f] = vault'.key
    BY DEF Sound, World
  <1>4. QED
    BY <1>1, <1>2, <1>3 DEF Whole

\* The snapshot that a job carries.
LEMMA CarriedBlob ==
    ASSUME RecoveryInv, Busy, Careful, job.blob \in Blob
    PROVE  Sound(job.blob)
  BY AbsenceAssumption DEF RecoveryInv, CareInv, Copies, AbsenceAssumption

\* The import of an export.
LEMMA ImportInv ==
    ASSUME RecoveryInv, Import
    PROVE  RecoveryInv'
  <1>1. ASSUME job.at \in {"check", "vault"}
        PROVE  /\ Busy /\ job \in Job /\ job.op = "import" /\ job.vault \in Vault /\ job.blob \in Blob
               /\ TypeOK
               /\ Careful => Newest(job.blob.register) /\ Sound(job.blob)
    <2>1. Busy
      BY <1>1 DEF Busy
    <2>2. job \in Job /\ job.op = "import" /\ job.vault \in Vault /\ job.blob \in Blob /\ TypeOK
      BY <1>1, <2>1, JobFacts DEF RecoveryInv, JobsInv, Progress
    <2>3. Careful => Newest(job.blob.register)
      BY <1>1 DEF RecoveryInv, CareInv, Latest
    <2>4. QED
      BY <2>1, <2>2, <2>3, CarriedBlob
  <1>2. CASE ImportRegister
    <2>1. job.at = "check" /\ job.blob.key = job.vault.key /\ register' = job.blob.register
          /\ UNCHANGED <<vault, daemon, cut, World>>
      BY <1>2 DEF ImportRegister
    <2>2. /\ job' \in Job /\ job'.at = "vault" /\ job'.op = job.op /\ job'.vault = job.vault
          /\ job'.blob = job.blob /\ job'.before = job.before
      BY <1>1, <1>2, <2>1, GotoFacts DEF ImportRegister, Goto, Phase
    <2>3. vault' \in Vault \cup {NoVault, TornVault} /\ register' \in Register
      BY <1>1, <2>1, PartsFacts DEF TypeOK
    <2>4. Progress'
      BY <1>1, <2>1, <2>2 DEF Progress
    <2>5. Careful => Latest'
      BY <1>1, <2>1, <2>2 DEF Latest, Newest, World
    <2>6. QED
      BY <1>1, <2>1, <2>2, <2>3, <2>4, <2>5, GoStep
  <1>3. CASE ImportVault
    <2>1. job.at = "vault" /\ vault' = job.vault /\ Done /\ UNCHANGED <<register, World>>
      BY <1>3 DEF ImportVault
    <2>2. register = job.blob.register /\ job.vault.key = job.blob.key
      BY <2>1 DEF RecoveryInv, JobsInv, Progress
    <2>3. vault' \in Vault /\ register' \in Register
      BY <1>1, <2>1, <2>2, PartsFacts
    <2>4. Careful => Whole(vault, register)'
      BY <1>1, <2>1, <2>2, <2>3, InstalledIsWhole DEF RecoveryInv
    <2>5. QED
      BY <1>1, <2>1, <2>3, <2>4, DoneInv
  <1>4. CASE ImportFails
    BY <1>1, <1>4, FailsInv DEF ImportFails
  <1>5. QED
    BY <1>2, <1>3, <1>4, StartImportInv DEF Import

\* The restore from the snapshots that a vault knows of.
LEMMA RestoreInv ==
    ASSUME RecoveryInv, Restore
    PROVE  RecoveryInv'
  <1>1. ASSUME job.at \in {"writing", "unlock", "fetch"}
        PROVE  /\ Busy /\ job \in Job /\ job.op \in {"restore", "vaultImport"} /\ TypeOK
               /\ register = job.before[2] /\ job.todo \in SUBSET Provider
               /\ job.at = "writing" \/ job.op = "vaultImport" => job.vault \in Vault
               /\ Given(vault)
    <2>1. Busy
      BY <1>1 DEF Busy
    <2>2. QED
      BY <1>1, <2>1, JobFacts DEF RecoveryInv, JobsInv, Progress
  <1>2. CASE WriteVault
    <2>1. job.at = "writing" /\ vault' = job.vault /\ job.op = "restore"
          /\ UNCHANGED <<register, daemon, cut, World>>
      BY <1>2 DEF WriteVault
    <2>2. /\ job' \in Job /\ job'.at = "unlock" /\ job'.op = job.op /\ job'.vault = job.vault
          /\ job'.blob = job.blob /\ job'.before = job.before
      BY <1>1, <1>2, <2>1, GotoFacts DEF WriteVault, Goto, Phase
    <2>3. vault' \in Vault /\ register' \in Register \cup {NoRegister}
      BY <1>1, <2>1 DEF TypeOK
    <2>4. Progress'
      <3>1. Given(vault)'
        BY <1>1, <2>1, <2>2, AbsenceAssumption DEF Given, AbsenceAssumption
      <3>2. QED
        BY <1>1, <2>1, <2>2, <3>1 DEF Progress
    <2>5. Careful => Latest'
      BY <2>1, <2>2 DEF RecoveryInv, CareInv, Latest, Newest, NewestAt, World
    <2>6. QED
      BY <1>1, <2>1, <2>2, <2>3, <2>4, <2>5, GoStep
  <1>3. CASE UnlockToRestore
    <2> DEFINE v == IF job.op = "vaultImport" THEN job.vault ELSE vault
               l == v.locs
    <2>1. /\ job.at = "unlock" /\ v \in Vault /\ vault' = v
          /\ job' = [job EXCEPT !.at = "fetch", !.todo = l]
          /\ UNCHANGED <<register, daemon, cut, World>>
      BY <1>3 DEF UnlockToRestore
    <2>2. l \in SUBSET Provider
      BY <2>1, PartsFacts
    <2>3. Careful => NewestAt(l)
      BY <1>1, <2>1 DEF RecoveryInv, CareInv, Latest
    <2>8. Given(vault')
      BY <1>1, <2>1, AbsenceAssumption DEF Given, AbsenceAssumption
    <2> HIDE DEF v, l
    <2>4. /\ job' \in Job /\ job'.at = "fetch" /\ job'.op = job.op /\ job'.vault = job.vault
          /\ job'.blob = job.blob /\ job'.before = job.before /\ job'.todo = l
      <3> DEFINE k == [job EXCEPT !.at = "fetch"]
      <3>1. /\ k \in Job /\ k.at = "fetch" /\ k.op = job.op /\ k.vault = job.vault /\ k.blob = job.blob
            /\ k.before = job.before
        BY <1>1, <2>1, GotoFacts DEF Phase
      <3>2. job' = [k EXCEPT !.todo = l]
        BY <2>1
      <3> HIDE DEF k
      <3>3. l \in SUBSET Provider
        BY <1>1, <2>1, <2>2
      <3>4. QED
        BY <3>1, <3>2, <3>3, FetchingFacts
    <2>5. Progress'
      <3>1. Given(vault)'
        BY <2>4, <2>8 DEF Given
      <3>2. QED
        BY <1>1, <2>1, <2>4, <3>1 DEF Progress
    <2>6. Careful => Latest'
      BY <2>1, <2>3, <2>4 DEF Latest, Newest, NewestAt, World
    <2>7. QED
      BY <1>1, <2>1, <2>4, <2>5, <2>6, GoStep DEF TypeOK
  <1>4. CASE NoLocations
    <2>1. /\ job.at = "unlock" /\ job.op = "vaultImport" /\ vault' = job.vault
          /\ register' = Reopened(register) /\ job' = Idle /\ cut' = TRUE
          /\ UNCHANGED <<daemon, World>>
      BY <1>4 DEF NoLocations
    <2>2. /\ vault' \in Vault /\ register' \in Register \cup {NoRegister}
          /\ register \in Register => register' \in Register
      BY <1>1, <2>1, ReopenedFacts
    <2>3. QED
      BY <1>1, <2>1, <2>2, EndStep
  <1>5. CASE RestoreRefused \/ FetchFails
    BY <1>1, <1>5, FailsInv DEF RestoreRefused, FetchFails
  <1>6. ASSUME NEW p \in Provider, FetchHit(p)
        PROVE  RecoveryInv'
    <2>1. /\ job.at = "fetch" /\ p \in job.todo /\ remote[p] # Nothing /\ remote[p].key = vault.key
          /\ register' = remote[p].register /\ Done /\ UNCHANGED <<vault, World>>
      BY <1>6 DEF FetchHit
    <2>2. vault \in Vault
      BY <2>1 DEF RecoveryInv, JobsInv, Progress
    <2>3. remote[p] \in Blob
      BY <1>1, <2>1 DEF TypeOK
    <2>4. register' \in Register
      BY <2>1, <2>3, PartsFacts
    <2>5. Careful => Sound(remote[p]) /\ Newest(remote[p].register)
      BY <2>1 DEF RecoveryInv, CareInv, Copies, Latest, NewestAt
    <2>6. Careful => Whole(vault, register)'
      BY <2>1, <2>2, <2>3, <2>5, InstalledIsWhole DEF RecoveryInv
    <2>7. QED
      BY <1>1, <2>1, <2>2, <2>4, <2>6, DoneInv
  <1>7. ASSUME NEW p \in Provider, FetchMiss(p)
        PROVE  RecoveryInv'
    <2> DEFINE d == job.todo \ {p}
    <2>1. job.at = "fetch" /\ job' = [job EXCEPT !.todo = d] /\ UNCHANGED <<home, daemon, cut, World>>
      BY <1>7 DEF FetchMiss
    <2>2. d \in SUBSET Provider /\ d \subseteq job.todo
      BY <1>1, <2>1
    <2> HIDE DEF d
    <2>3. /\ job' \in Job /\ job'.at = "fetch" /\ job'.op = job.op /\ job'.vault = job.vault
          /\ job'.blob = job.blob /\ job'.before = job.before /\ job'.todo = d
      BY <1>1, <2>1, <2>2 DEF Job
    <2>4. UNCHANGED <<vault, register>> /\ vault \in Vault
      BY <2>1 DEF home, RecoveryInv, JobsInv, Progress
    <2>5. Progress'
      <3>1. Given(vault)'
        BY <1>1, <2>1, <2>3, <2>4 DEF Given
      <3>2. QED
        BY <1>1, <2>1, <2>3, <2>4, <3>1 DEF Progress
    <2>6. Careful => Latest'
      BY <2>1, <2>2, <2>3 DEF RecoveryInv, CareInv, Latest, Newest, NewestAt, World
    <2>7. QED
      BY <1>1, <2>1, <2>3, <2>4, <2>5, <2>6, GoStep DEF TypeOK
  <1>8. QED
    BY <1>2, <1>3, <1>4, <1>5, <1>6, <1>7, StartVaultImportInv, StartRestoreInv DEF Restore

\* The cold recovery, and the import of a snapshot alone.
LEMMA RecoverInv ==
    ASSUME RecoveryInv, Recover
    PROVE  RecoveryInv'
  <1>1. ASSUME job.at \in {"find", "create", "register", "adopt"}
        PROVE  /\ Busy /\ job \in Job /\ job.op \in {"recover", "snapshotImport"} /\ TypeOK
               /\ job.from \in SUBSET Provider
               /\ job.at # "find" => /\ job.blob \in Blob
                                     /\ Careful => Newest(job.blob.register) /\ Sound(job.blob)
               /\ job.at \in {"register", "adopt"} => vault \in Vault /\ vault.key = job.blob.key
               /\ job.at = "adopt" => register = job.blob.register
    <2>1. Busy
      BY <1>1 DEF Busy
    <2>2. job \in Job /\ job.from \in SUBSET Provider /\ TypeOK
      BY <2>1, JobFacts DEF RecoveryInv, JobsInv
    <2>3. /\ job.op \in {"recover", "snapshotImport"}
          /\ job.at # "find" => job.blob \in Blob
          /\ job.at \in {"register", "adopt"} => vault \in Vault /\ vault.key = job.blob.key
          /\ job.at = "adopt" => register = job.blob.register
      BY <1>1 DEF RecoveryInv, JobsInv, Progress
    <2>4. Careful /\ job.at # "find" => Newest(job.blob.register)
      BY <1>1 DEF RecoveryInv, CareInv, Latest
    <2>5. QED
      BY <2>1, <2>2, <2>3, <2>4, CarriedBlob
  <1>2. CASE FindSnapshot
    <2>1. PICK p \in job.from : remote[p] # Nothing /\ job' = [job EXCEPT !.at = "create", !.blob = remote[p]]
      BY <1>2 DEF FindSnapshot
    <2>2. job.at = "find" /\ UNCHANGED <<home, daemon, cut, World>>
      BY <1>2 DEF FindSnapshot
    <2>3. p \in Provider /\ remote[p] \in Blob
      BY <1>1, <2>1, <2>2 DEF TypeOK
    <2> DEFINE b == remote[p]
    <2>4. b = remote[p]
      OBVIOUS
    <2> HIDE DEF b
    <2>5. /\ job' \in Job /\ job'.at = "create" /\ job'.op = job.op /\ job'.blob = b
          /\ job'.before = job.before
      <3> DEFINE k == [job EXCEPT !.at = "create"]
      <3>1. /\ k \in Job /\ k.at = "create" /\ k.op = job.op /\ k.vault = job.vault /\ k.blob = job.blob
            /\ k.before = job.before
        BY <1>1, <2>1, <2>2, GotoFacts DEF Phase
      <3>2. job' = [k EXCEPT !.blob = b]
        BY <2>1, <2>4
      <3> HIDE DEF k
      <3>3. b \in Blob
        BY <1>1, <2>1, <2>2, <2>3, <2>4
      <3>4. QED
        BY <3>1, <3>2, <3>3, FoundFacts
    <2>6. home = job.before /\ UNCHANGED <<vault, register>>
      BY <2>2 DEF RecoveryInv, JobsInv, Progress, home
    <2>7. Progress'
      BY <1>1, <2>2, <2>3, <2>4, <2>5, <2>6 DEF Progress
    <2>8. Careful => Newest(b.register)
      BY <2>1, <2>2, <2>4 DEF RecoveryInv, CareInv, Latest, NewestAt
    <2>9. Careful => Latest'
      BY <2>2, <2>5, <2>8 DEF Latest, Newest, World
    <2>10. QED
      BY <1>1, <2>1, <2>2, <2>3, <2>4, <2>5, <2>6, <2>7, <2>9, GoStep DEF TypeOK
  <1>3. CASE RecoverFails
    BY <1>1, <1>3, FailsInv DEF RecoverFails
  <1>4. CASE CreateVault
    <2>1. job.at = "create" /\ vault' = CreatedVault(job.blob.key) /\ UNCHANGED <<register, daemon, cut, World>>
      BY <1>4 DEF CreateVault
    <2>2. vault' \in Vault /\ vault'.key = job.blob.key
      BY <1>1, <2>1, PartsFacts
    <2>3. /\ job' \in Job /\ job'.at = "register" /\ job'.op = job.op /\ job'.blob = job.blob
          /\ job'.before = job.before
      BY <1>1, <1>4, <2>1, GotoFacts DEF CreateVault, Goto, Phase
    <2>4. Progress'
      BY <1>1, <2>1, <2>2, <2>3 DEF Progress
    <2>5. Careful => Latest'
      BY <1>1, <2>1, <2>3 DEF Latest, Newest, World
    <2>6. QED
      BY <1>1, <2>1, <2>2, <2>3, <2>4, <2>5, GoStep DEF TypeOK
  <1>5. CASE InstallRegister
    <2>1. job.at = "register" /\ register' = job.blob.register /\ UNCHANGED <<vault, World>>
      BY <1>5 DEF InstallRegister
    <2>2. register' \in Register /\ vault' \in Vault
      BY <1>1, <2>1, PartsFacts
    <2>3. CASE job.from = {}
      <3>1. Careful => Whole(vault, register)'
        BY <1>1, <2>1, <2>2, InstalledIsWhole DEF RecoveryInv
      <3>2. Done
        BY <1>5, <2>3 DEF InstallRegister
      <3>3. QED
        BY <1>1, <2>1, <2>2, <3>1, <3>2, DoneInv
    <2>4. CASE job.from # {}
      <3>1. UNCHANGED <<daemon, cut>> /\ Goto("adopt")
        BY <1>5, <2>4 DEF InstallRegister
      <3>2. /\ job' \in Job /\ job'.at = "adopt" /\ job'.op = job.op /\ job'.blob = job.blob
            /\ job'.before = job.before
        BY <1>1, <2>1, <3>1, GotoFacts DEF Goto, Phase
      <3>3. Progress'
        BY <1>1, <2>1, <3>2 DEF Progress
      <3>4. Careful => Latest'
        BY <1>1, <2>1, <3>2 DEF Latest, Newest, World
      <3>5. QED
        BY <1>1, <2>1, <2>2, <3>1, <3>2, <3>3, <3>4, GoStep
    <2>5. QED
      BY <2>3, <2>4
  <1>6. CASE Adopt
    <2> DEFINE s == vault.secrets \cup job.from
    <2>1. job.at = "adopt" /\ vault' = [vault EXCEPT !.secrets = @ \cup job.from] /\ Done
          /\ UNCHANGED <<register, World>>
      BY <1>6 DEF Adopt
    <2>2. s \in SUBSET Provider /\ vault' = [vault EXCEPT !.secrets = s]
      BY <1>1, <2>1, PartsFacts DEF Vault
    <2> HIDE DEF s
    <2>3. vault' \in Vault /\ vault'.key = vault.key
      BY <1>1, <2>1, <2>2 DEF Vault
    <2>4. register' \in Register
      BY <1>1, <2>1, PartsFacts
    <2>5. Careful => Whole(vault, register)'
      BY <1>1, <2>1, <2>3, InstalledIsWhole DEF RecoveryInv
    <2>6. QED
      BY <1>1, <2>1, <2>3, <2>4, <2>5, DoneInv
  <1>7. CASE AdoptFails
    <2>1. job.at = "adopt" /\ job' = Idle /\ cut' = FALSE /\ UNCHANGED <<home, daemon, World>>
      BY <1>7 DEF AdoptFails
    <2>2. UNCHANGED <<vault, register>>
      BY <2>1 DEF home
    <2>3. vault' \in Vault /\ register' \in Register
      BY <1>1, <2>1, <2>2, PartsFacts
    <2>4. Careful => Whole(vault, register)'
      BY <1>1, <2>1, <2>2, <2>3, InstalledIsWhole DEF RecoveryInv
    <2>5. QED
      BY <1>1, <2>1, <2>3, <2>4, EndStep
  <1>8. QED
    BY <1>2, <1>3, <1>4, <1>5, <1>6, <1>7, StartRecoverInv, StartSnapshotImportInv DEF Recover

----------------------------------------------------------------------------
(* The life of a home.                                                     *)

\* A part of a vault or of a register is replaced.
LEMMA ReplacedFacts ==
    /\ \A v \in Vault, s \in SUBSET Provider :
          [v EXCEPT !.secrets = s] \in Vault /\ [v EXCEPT !.secrets = s].key = v.key
    /\ \A v \in Vault, l \in SUBSET Provider :
          [v EXCEPT !.locs = l] \in Vault /\ [v EXCEPT !.locs = l].key = v.key
    /\ \A r \in Register, m \in SUBSET Provider :
          [r EXCEPT !.rows = m] \in Register /\ [r EXCEPT !.rows = m].files = r.files
    /\ \A r \in Register, g \in SUBSET File :
          [r EXCEPT !.files = g] \in Register /\ [r EXCEPT !.files = g].files = g
  BY DEF Vault, Register

\* What a step of a home without a job has to keep.
LEMMA LifeStep ==
    ASSUME ~Busy', TypeOK', Up',
           Careful => /\ Copies' /\ Kept' /\ (~cut' => Whole(vault, register)')
                      /\ (daemon' = "unlocked" => ~cut')
    PROVE  RecoveryInv'
  <1>1. job'.at = "idle"
    BY DEF Busy
  <1>2. Progress' /\ Latest'
    BY <1>1 DEF Progress, Latest
  <1>3. QED
    BY <1>2 DEF RecoveryInv, JobsInv, CareInv

\* A home that serves.
LEMMA ServingFacts ==
    ASSUME RecoveryInv, Serving
    PROVE  /\ vault \in Vault /\ register \in Register
           /\ vault.key \in Key /\ vault.secrets \in SUBSET Provider /\ vault.locs \in SUBSET Provider
           /\ register.files \in SUBSET File /\ register.rows \in SUBSET Provider
           /\ TheSnapshot \in Blob /\ TheSnapshot.key = vault.key /\ TheSnapshot.register = register
           /\ Careful => /\ ~cut /\ Whole(vault, register) /\ Copies /\ Kept
                         /\ safe \subseteq register.files /\ Sound(TheSnapshot)
  <1>1. vault \in Vault /\ register \in Register /\ ~Busy
    BY DEF RecoveryInv, JobsInv, Up, Serving
  <1>2. /\ vault.key \in Key /\ vault.secrets \in SUBSET Provider /\ vault.locs \in SUBSET Provider
        /\ register.files \in SUBSET File /\ register.rows \in SUBSET Provider
    BY <1>1, PartsFacts
  <1>3. TheSnapshot \in Blob /\ TheSnapshot.key = vault.key /\ TheSnapshot.register = register
    BY <1>1, <1>2 DEF TheSnapshot, Blob
  <1>4. Careful => ~cut /\ Whole(vault, register) /\ Copies /\ Kept
    BY <1>1 DEF RecoveryInv, CareInv, Serving
  <1>5. Careful => safe \subseteq register.files /\ Sound(TheSnapshot)
    BY <1>1, <1>3, <1>4 DEF Whole, Sound
  <1>6. QED
    BY <1>1, <1>2, <1>3, <1>4, <1>5

\* The daemon comes up, goes down, and is unlocked.
LEMMA DaemonInv ==
    ASSUME RecoveryInv, StartDaemon \/ StopDaemon \/ Unlock
    PROVE  RecoveryInv'
  <1>1. TypeOK /\ Up /\ ~Busy /\ UNCHANGED <<vault, job, cut, World>>
    BY DEF RecoveryInv, JobsInv, StartDaemon, StopDaemon, Unlock, home
  <1>2. ~Busy'
    BY <1>1 DEF Busy
  <1>3. /\ register' \in Register \cup {NoRegister} /\ daemon' \in {"down", "locked", "unlocked"}
        /\ daemon' # "down" => register' \in Register
        /\ register' = register \/ (register = NoRegister /\ register' = Empty)
    BY <1>1, PartsFacts DEF TypeOK, Up, StartDaemon, StopDaemon, Unlock, home
  <1>4. TypeOK'
    BY <1>1, <1>2, <1>3 DEF TypeOK, World
  <1>5. Up'
    BY <1>1, <1>2, <1>3 DEF Up, StartDaemon, StopDaemon, Unlock
  <1>6. ASSUME Careful
        PROVE  /\ Copies' /\ Kept' /\ (~cut' => Whole(vault, register)')
               /\ (daemon' = "unlocked" => ~cut')
    <2>1. Copies' /\ Kept'
      BY <1>1, <1>2, <1>6, QuietWorld DEF RecoveryInv, CareInv
    <2>2. ~cut => Whole(vault, register)
      BY <1>1, <1>6 DEF RecoveryInv, CareInv
    <2>3. ~cut => Whole(vault, register')
      BY <1>3, <2>2, AbsenceAssumption DEF Whole, AbsenceAssumption
    <2>4. ~cut' => Whole(vault, register)'
      BY <1>1, <2>3 DEF Whole, World
    <2>5. daemon' = "unlocked" => ~cut'
      BY <1>1, <1>6 DEF RecoveryInv, CareInv, StartDaemon, StopDaemon, Unlock
    <2>6. QED
      BY <2>1, <2>4, <2>5
  <1>7. QED
    BY <1>2, <1>4, <1>5, <1>6, LifeStep

\* A home is made where nothing was safe.
LEMMA InitHomeInv ==
    ASSUME RecoveryInv, NEW by \in {"cli", "daemon"}, InitHome(by)
    PROVE  RecoveryInv'
  <1>1. /\ TypeOK /\ Up /\ ~Busy /\ vault = NoVault /\ keys \in Nat /\ keys + 1 \in Key
        /\ keys' = keys + 1 /\ vault' = CreatedVault(keys + 1)
        /\ register' = IF register = NoRegister THEN Empty ELSE register
        /\ UNCHANGED <<remote, backup, job, wrapped, losses, crashes, cut, safe>>
    <2>1. keys \in 0..MaxKeys /\ keys < MaxKeys
      BY DEF RecoveryInv, JobsInv, TypeOK, InitHome
    <2>2. keys \in Nat /\ keys + 1 \in Key
      BY <2>1, RecoveryAssumption DEF RecoveryAssumption, Key
    <2>3. QED
      BY <2>2 DEF RecoveryInv, JobsInv, InitHome, MayRun
  <1>2. ~Busy'
    BY <1>1 DEF Busy
  <1>3. vault' \in Vault /\ vault'.key = keys + 1 /\ register' \in Register
    BY <1>1, PartsFacts DEF TypeOK
  <1>4. keys' \in 0..MaxKeys
    BY <1>1, RecoveryAssumption DEF RecoveryAssumption, Key
  <1>5. daemon' \in {"down", "locked", "unlocked"} /\ (daemon' = "unlocked" => by = "daemon" \/ daemon = "unlocked")
    BY <1>1 DEF TypeOK, InitHome
  <1>6. TypeOK'
    BY <1>1, <1>2, <1>3, <1>4, <1>5 DEF TypeOK
  <1>7. Up'
    BY <1>2, <1>3 DEF Up
  <1>8. ASSUME Careful
        PROVE  Copies' /\ Kept' /\ Whole(vault, register)' /\ ~cut'
    <2>1. ~cut /\ safe = {} /\ Copies /\ Whole(vault, register)
      BY <1>1, <1>8 DEF InitHome, RecoveryInv, CareInv
    <2>2. Copies' /\ Kept'
      BY <1>1, <1>2, <2>1 DEF Copies, Kept, Sound
    <2>3. register \in {NoRegister, Empty}
      BY <1>1, <2>1 DEF Whole
    <2>4. register'.files = {}
      BY <1>1, <2>3, PartsFacts
    <2>5. Whole(vault, register)'
      BY <1>1, <1>3, <2>1, <2>4, AbsenceAssumption DEF Whole, AbsenceAssumption
    <2>6. QED
      BY <1>1, <2>1, <2>2, <2>5
  <1>9. QED
    BY <1>2, <1>6, <1>7, <1>8, LifeStep

\* The credential of a provider comes into the vault, with its row or for it.
LEMMA ProvidersInv ==
    ASSUME RecoveryInv, NEW p \in Provider, AddProvider(p) \/ Reauth(p)
    PROVE  RecoveryInv'
  <1> DEFINE s == vault.secrets \cup {p}
             m == register.rows \cup {p}
  <1>1. Serving /\ TypeOK
    BY DEF AddProvider, Reauth, RecoveryInv, JobsInv
  <1>2. /\ vault' = [vault EXCEPT !.secrets = s]
        /\ register' = register \/ register' = [register EXCEPT !.rows = m]
        /\ UNCHANGED <<daemon, job, cut, World>>
    BY <1>1, ServingFacts DEF AddProvider, Reauth, Vault, Register
  <1>3. s \in SUBSET Provider /\ m \in SUBSET Provider
    BY <1>1, ServingFacts
  <1> HIDE DEF s, m
  <1>4. vault' \in Vault /\ vault'.key = vault.key /\ register' \in Register /\ register'.files = register.files
    <2>1. vault \in Vault /\ register \in Register
      BY <1>1, ServingFacts
    <2>2. vault' \in Vault /\ vault'.key = vault.key
      BY <1>2, <1>3, <2>1, ReplacedFacts
    <2>3. register' \in Register /\ register'.files = register.files
      <3>1. CASE register' = register
        BY <2>1, <3>1
      <3>2. CASE register' = [register EXCEPT !.rows = m]
        BY <1>3, <2>1, <3>2, ReplacedFacts
      <3>3. QED
        BY <1>2, <3>1, <3>2
    <2>4. QED
      BY <2>2, <2>3
  <1>5. ~Busy'
    BY <1>1, <1>2 DEF Busy, Serving
  <1>6. TypeOK'
    BY <1>1, <1>2, <1>4, <1>5 DEF TypeOK, World
  <1>7. Up'
    BY <1>4, <1>5 DEF Up
  <1>8. ASSUME Careful
        PROVE  Copies' /\ Kept' /\ Whole(vault, register)' /\ ~cut'
    <2>1. ~cut /\ Copies /\ Kept /\ Whole(vault, register) /\ vault \in Vault
      BY <1>1, <1>8, ServingFacts
    <2>2. Copies' /\ Kept'
      BY <1>2, <1>5, <2>1, QuietWorld
    <2>3. Whole(vault, register)'
      BY <1>2, <1>4, <2>1, AbsenceAssumption DEF Whole, AbsenceAssumption, World
    <2>4. QED
      BY <1>2, <2>1, <2>2, <2>3
  <1>9. QED
    BY <1>5, <1>6, <1>7, <1>8, LifeStep

\* A file is wrapped once, under the key of the vault that is there.
LEMMA PutFileInv ==
    ASSUME RecoveryInv, NEW f \in File, PutFile(f)
    PROVE  RecoveryInv'
  <1> DEFINE g == register.files \cup {f}
  <1>1. /\ Serving /\ TypeOK /\ wrapped[f] = NoKey
        /\ register' = [register EXCEPT !.files = g]
        /\ wrapped' = [wrapped EXCEPT ![f] = vault.key]
        /\ UNCHANGED <<vault, remote, backup, daemon, job, keys, losses, crashes, cut, safe>>
    BY ServingFacts DEF PutFile, RecoveryInv, JobsInv, Register
  <1>2. g \in SUBSET File
    BY <1>1, ServingFacts
  <1>3. g = register.files \cup {f}
    OBVIOUS
  <1> HIDE DEF g
  <1>4. register' \in Register /\ register'.files = g
    BY <1>1, <1>2, ServingFacts, ReplacedFacts
  <1>5. /\ wrapped' \in [File -> Key \cup {NoKey}]
        /\ \A h \in File : wrapped'[h] = IF h = f THEN vault.key ELSE wrapped[h]
    BY <1>1, ServingFacts DEF TypeOK
  <1>6. ~Busy'
    BY <1>1 DEF Busy, Serving
  <1>7. TypeOK'
    BY <1>1, <1>4, <1>5, <1>6 DEF TypeOK
  <1>8. Up'
    BY <1>1, <1>4, <1>6, ServingFacts DEF Up
  <1>9. ASSUME Careful
        PROVE  Copies' /\ Kept' /\ Whole(vault, register)' /\ ~cut'
    <2>1. /\ ~cut /\ Copies /\ Kept /\ Whole(vault, register) /\ vault \in Vault
          /\ safe \subseteq register.files
      BY <1>1, <1>9, ServingFacts
    <2>2. ASSUME NEW b \in Blob, Sound(b)
          PROVE  Sound(b)'
      <3>1. b.key # NoKey /\ b.register.files \in SUBSET File
        <4>1. b.key \in Key /\ b.register \in Register
          BY PartsFacts
        <4>2. b.key # NoKey
          BY <4>1, RecoveryAssumption DEF Key, NoKey, RecoveryAssumption
        <4>3. QED
          BY <4>1, <4>2, PartsFacts
      <3>2. \A h \in b.register.files : wrapped[h] = b.key /\ h # f
        BY <1>1, <2>2, <3>1 DEF Sound
      <3>3. QED
        BY <1>5, <3>1, <3>2 DEF Sound
    <2>3. \A p \in Provider : remote[p] # Nothing => remote[p] \in Blob
      BY <1>1 DEF TypeOK
    <2>4. backup # Nothing => backup.blob \in Blob
      BY <1>1, BackupFacts
    <2>5. Copies'
      BY <1>1, <1>6, <2>1, <2>2, <2>3, <2>4 DEF Copies
    <2>6. Kept'
      BY <1>1, <2>1 DEF Kept
    <2>7. \A h \in register.files : wrapped[h] = vault.key /\ h \in File
      BY <1>1, <2>1, ServingFacts DEF Whole
    <2>8. \A h \in register'.files : wrapped'[h] = vault'.key
      BY <1>1, <1>3, <1>4, <1>5, <2>7
    <2>9. safe' \subseteq register'.files
      BY <1>1, <1>3, <1>4, <2>1
    <2>10. Whole(vault, register)'
      BY <1>1, <1>4, <2>1, <2>8, <2>9, AbsenceAssumption DEF Whole, AbsenceAssumption
    <2>11. QED
      BY <1>1, <2>1, <2>5, <2>6, <2>10
  <1>10. QED
    BY <1>6, <1>7, <1>8, <1>9, LifeStep


\* A snapshot has all that is safe, and goes to other places than the old one.
LEMMA TakeSnapshotInv ==
    ASSUME RecoveryInv, TakeSnapshot
    PROVE  RecoveryInv'
  <1>1. /\ Serving /\ TypeOK /\ safe' = safe \cup register.files
        /\ UNCHANGED <<register, backup, daemon, job, wrapped, keys, losses, crashes, cut>>
    BY DEF TakeSnapshot, RecoveryInv, JobsInv
  <1>2. PICK targets \in (SUBSET register.rows) \ {{}} :
          \E gone \in SUBSET Pruned(vault.locs, targets) :
             /\ remote' = [p \in Provider |-> IF p \in gone THEN Nothing
                                              ELSE IF p \in targets THEN TheSnapshot ELSE remote[p]]
             /\ vault' = [vault EXCEPT !.locs = targets]
    BY DEF TakeSnapshot
  <1>3. PICK gone \in SUBSET Pruned(vault.locs, targets) :
             /\ remote' = [p \in Provider |-> IF p \in gone THEN Nothing
                                              ELSE IF p \in targets THEN TheSnapshot ELSE remote[p]]
             /\ vault' = [vault EXCEPT !.locs = targets]
    BY <1>2
  <1>4. targets \in SUBSET Provider /\ targets # {} /\ gone \cap targets = {}
    BY <1>1, ServingFacts DEF Pruned
  <1>5. vault' \in Vault /\ vault'.key = vault.key
    BY <1>1, <1>3, <1>4, ServingFacts, ReplacedFacts
  <1>6. TheSnapshot \in Blob
    BY <1>1, ServingFacts
  <1>7. remote' \in [Provider -> Blob \cup {Nothing}]
    BY <1>1, <1>3, <1>6 DEF TypeOK
  <1>8. ~Busy'
    BY <1>1 DEF Busy, Serving
  <1>9. TypeOK'
    BY <1>1, <1>5, <1>7, <1>8, ServingFacts DEF TypeOK
  <1>10. Up'
    BY <1>1, <1>5, <1>8, ServingFacts DEF Up
  <1>11. ASSUME Careful
         PROVE  Copies' /\ Kept' /\ Whole(vault, register)' /\ ~cut'
    <2>1. /\ ~cut /\ Copies /\ Whole(vault, register) /\ vault \in Vault
          /\ safe \subseteq register.files /\ Sound(TheSnapshot) /\ TheSnapshot.register = register
      BY <1>1, <1>11, ServingFacts
    <2>2. \A p \in Provider : remote'[p] = Nothing \/ remote'[p] = TheSnapshot \/ remote'[p] = remote[p]
      BY <1>3
    <2>3. Copies'
      <3> DEFINE t == TheSnapshot
      <3>1. Sound(t)' <=> \A f \in t'.register.files : wrapped'[f] = t'.key
        BY DEF Sound
      <3>2. \A f \in t.register.files : wrapped[f] = t.key
        BY <2>1 DEF Sound
      <3> HIDE DEF t
      <3>3. \A p \in Provider : remote'[p] = Nothing \/ remote'[p] = t \/ remote'[p] = remote[p]
        BY <2>2 DEF t
      <3>4. QED
        BY <1>1, <1>8, <2>1, <3>2, <3>3 DEF Copies, Sound
    <2>4. Kept'
      <3>1. PICK q \in targets : q \in Provider /\ q \notin gone
        BY <1>4
      <3>2. remote'[q] = TheSnapshot
        BY <1>3, <3>1
      <3>3. remote'[q] # Nothing /\ remote'[q].register = register
        BY <1>6, <2>1, <3>2, AbsenceAssumption DEF AbsenceAssumption
      <3>4. safe' \subseteq register.files
        BY <1>1, <2>1
      <3>5. QED
        BY <3>1, <3>3, <3>4 DEF Kept
    <2>5. Whole(vault, register)'
      BY <1>1, <1>5, <2>1, AbsenceAssumption DEF Whole, AbsenceAssumption
    <2>6. QED
      BY <1>1, <2>1, <2>3, <2>4, <2>5
  <1>12. QED
    BY <1>8, <1>9, <1>10, <1>11, LifeStep

\* So does an export.
LEMMA ExportInv ==
    ASSUME RecoveryInv, Export
    PROVE  RecoveryInv'
  <1> DEFINE e == [vault |-> vault, blob |-> TheSnapshot]
  <1>1. /\ Serving /\ TypeOK /\ safe' = safe \cup register.files /\ backup' = e
        /\ UNCHANGED <<home, remote, daemon, job, wrapped, keys, losses, crashes, cut>>
    BY DEF Export, RecoveryInv, JobsInv
  <1>2. e \in [vault : Vault, blob : Blob] /\ e.blob = TheSnapshot
    BY <1>1, ServingFacts
  <1> HIDE DEF e
  <1>3. UNCHANGED <<vault, register>>
    BY <1>1 DEF home
  <1>4. ~Busy'
    BY <1>1 DEF Busy, Serving
  <1>5. TypeOK'
    BY <1>1, <1>2, <1>3, <1>4, ServingFacts DEF TypeOK
  <1>6. Up'
    BY <1>1, <1>3, <1>4, ServingFacts DEF Up
  <1>7. ASSUME Careful
        PROVE  Copies' /\ Kept' /\ Whole(vault, register)' /\ ~cut'
    <2>1. /\ ~cut /\ Copies /\ Whole(vault, register) /\ vault \in Vault
          /\ safe \subseteq register.files /\ Sound(TheSnapshot) /\ TheSnapshot.register = register
      BY <1>1, <1>7, ServingFacts
    <2>2. backup' # Nothing /\ backup'.blob.register = register
      BY <1>1, <1>2, <2>1, AbsenceAssumption DEF AbsenceAssumption
    <2>3. \A f \in backup'.blob.register.files : wrapped'[f] = backup'.blob.key
      BY <1>1, <1>2, <2>1 DEF Sound
    <2>4. Copies'
      BY <1>1, <1>4, <2>1, <2>3 DEF Copies, Sound
    <2>5. Kept'
      BY <1>1, <2>1, <2>2 DEF Kept
    <2>6. Whole(vault, register)'
      BY <1>1, <1>3, <2>1, AbsenceAssumption DEF Whole, AbsenceAssumption
    <2>7. QED
      BY <1>1, <2>1, <2>4, <2>5, <2>6
  <1>8. QED
    BY <1>4, <1>5, <1>6, <1>7, LifeStep

\* The end of the machine, and of the program.
LEMMA EndInv ==
    ASSUME RecoveryInv, LoseHome \/ Crash
    PROVE  RecoveryInv'
  <1>1. /\ TypeOK /\ daemon' = "down" /\ register' \in Register \cup {NoRegister}
        /\ UNCHANGED <<remote, backup, wrapped, keys, safe>>
    BY DEF RecoveryInv, JobsInv, TypeOK, LoseHome, Crash
  <1>2. ~Busy'
    BY DEF Busy, Idle, LoseHome, Crash
  <1>3. vault' \in Vault \cup {NoVault, TornVault}
    BY <1>1 DEF TypeOK, LoseHome, Crash
  <1>4. cut' \in BOOLEAN
    BY <1>1 DEF TypeOK, LoseHome, Crash
  <1>5. losses' \in 0..MaxLosses /\ crashes' \in 0..MaxCrashes
    <2>1. /\ losses' = losses \/ (losses < MaxLosses /\ losses' = losses + 1)
          /\ crashes' = crashes \/ (crashes < MaxCrashes /\ crashes' = crashes + 1)
      BY DEF LoseHome, Crash
    <2>2. losses \in 0..MaxLosses /\ crashes \in 0..MaxCrashes
      BY <1>1 DEF TypeOK
    <2>3. QED
      BY <2>1, <2>2, RecoveryAssumption DEF RecoveryAssumption
  <1>6. TypeOK'
    BY <1>1, <1>2, <1>3, <1>4, <1>5 DEF TypeOK
  <1>7. Up'
    BY <1>1 DEF Up
  <1>8. ASSUME Careful
        PROVE  Copies' /\ Kept' /\ (~cut' => Whole(vault, register)')
    <2>1. Copies /\ Kept /\ (~cut /\ Busy => Whole(job.before[1], job.before[2]))
      BY <1>8 DEF RecoveryInv, CareInv
    <2>2. Copies' /\ Kept'
      BY <1>1, <1>2, <2>1 DEF Copies, Kept, Sound
    <2>3. ASSUME LoseHome
          PROVE  Whole(vault, register)'
      BY <2>3, RecoveryAssumption, AbsenceAssumption
      DEF LoseHome, Whole, RecoveryAssumption, AbsenceAssumption
    <2>4. ASSUME Crash, ~cut'
          PROVE  Whole(vault, register)'
      <3>1. ~cut /\ Busy /\ home = job.before /\ UNCHANGED <<vault, register>>
        BY <2>4 DEF Crash
      <3>2. Whole(vault, register)
        BY <2>1, <3>1, JobFacts DEF RecoveryInv
      <3>3. QED
        BY <1>1, <3>1, <3>2 DEF Whole
    <2>5. ~cut' => Whole(vault, register)'
      BY <2>3, <2>4
    <2>6. QED
      BY <1>8, <2>2, <2>5
  <1>9. QED
    BY <1>1, <1>2, <1>6, <1>7, <1>8, LifeStep

----------------------------------------------------------------------------
(* The invariant of the specification, and what follows from it.           *)

\* It holds of a machine that has no home yet.
LEMMA RecoveryInit ==
    ASSUME Init
    PROVE  RecoveryInv
  <1>1. ~Busy /\ job.at = "idle"
    BY DEF Init, Busy, Idle
  <1>2. TypeOK
    <2>1. 0 \in 0..MaxKeys /\ 0 \in 0..MaxLosses /\ 0 \in 0..MaxCrashes
      BY RecoveryAssumption DEF RecoveryAssumption
    <2>2. remote \in [Provider -> Blob \cup {Nothing}] /\ wrapped \in [File -> Key \cup {NoKey}]
      BY DEF Init
    <2>3. QED
      BY <1>1, <2>1, <2>2 DEF Init, TypeOK
  <1>3. Progress /\ Up /\ Latest
    BY <1>1 DEF Init, Progress, Up, Latest
  <1>4. Copies /\ Kept
    BY <1>1 DEF Init, Copies, Kept
  <1>5. Whole(vault, register)
    BY RecoveryAssumption, AbsenceAssumption DEF Init, Whole, RecoveryAssumption, AbsenceAssumption
  <1>6. QED
    BY <1>1, <1>2, <1>3, <1>4, <1>5 DEF RecoveryInv, JobsInv, CareInv, Init

\* Every step keeps it.
LEMMA RecoveryNext ==
    ASSUME RecoveryInv, [Next]_vars
    PROVE  RecoveryInv'
  <1>1. CASE Import
    BY <1>1, ImportInv
  <1>2. CASE Restore
    BY <1>2, RestoreInv
  <1>3. CASE Recover
    BY <1>3, RecoverInv
  <1>4. CASE Living
    BY <1>4, DaemonInv, InitHomeInv, ProvidersInv, PutFileInv, TakeSnapshotInv, ExportInv, EndInv
    DEF Living
  <1>5. CASE UNCHANGED vars
    BY <1>5 DEF vars, World, home, RecoveryInv, JobsInv, TypeOK, Progress, Given, Up, CareInv, Copies, Kept,
                Latest, Whole, Sound, Busy, Newest, NewestAt
  <1>6. QED
    BY <1>1, <1>2, <1>3, <1>4, <1>5 DEF Next

LEMMA RecoveryInvHolds == Spec => []RecoveryInv
  BY RecoveryInit, RecoveryNext, PTL DEF Spec


\* How a job that is not cut short by a crash ends.
EndsRight ==
    IF job.op \in {"import", "snapshotImport", "recover"}
    THEN Untouched \/ Installed(job.blob)
    ELSE Given(vault') /\ (KeepsRegister \/ \E p \in job.todo : Installed(remote[p]))

\* Only some steps end a job.
LEMMA EndingSteps ==
    ASSUME TypeOK, Next, Busy, ~Busy', crashes' = crashes
    PROVE  \/ ImportVault \/ ImportFails
           \/ NoLocations \/ RestoreRefused \/ FetchFails \/ \E p \in Provider : FetchHit(p)
           \/ RecoverFails \/ InstallRegister \/ Adopt \/ AdoptFails
  <1>1. ~Living
    <2>1. crashes \in Nat
      BY RecoveryAssumption DEF TypeOK, RecoveryAssumption
    <2>2. ~Crash
      BY <2>1 DEF Crash
    <2>3. QED
      BY <2>2 DEF Living, StartDaemon, StopDaemon, Unlock, InitHome, MayRun, AddProvider, Reauth,
                  PutFile, TakeSnapshot, Export, LoseHome, Serving
  <1>2. job \in Job
    BY DEF TypeOK
  <1>3. \A phase \in Phase : ~Goto(phase)
    BY <1>2, GotoFacts DEF Goto, Busy, Phase
  <1>4. CASE Import
    BY <1>3, <1>4 DEF Import, StartImport, MayRun, ImportRegister, Phase
  <1>5. CASE Restore
    <2>1. ~UnlockToRestore
      <3>1. SUFFICES ASSUME UnlockToRestore
                     PROVE  FALSE
        OBVIOUS
      <3>2. PICK l : job' = [job EXCEPT !.at = "fetch", !.todo = l]
        BY <3>1 DEF UnlockToRestore
      <3>3. job'.at = "fetch"
        BY <1>2, <3>2 DEF Job
      <3>4. QED
        BY <3>3 DEF Busy
    <2>2. \A p \in Provider : ~FetchMiss(p)
      <3>1. SUFFICES ASSUME NEW p \in Provider, FetchMiss(p)
                     PROVE  FALSE
        OBVIOUS
      <3>2. job.at = "fetch" /\ \E l : job' = [job EXCEPT !.todo = l]
        BY <3>1 DEF FetchMiss
      <3>3. job'.at = "fetch"
        BY <1>2, <3>2 DEF Job
      <3>4. QED
        BY <3>3 DEF Busy
    <2>3. QED
      BY <1>3, <1>5, <2>1, <2>2 DEF Restore, StartVaultImport, StartRestore, MayRun, WriteVault, Phase
  <1>6. CASE Recover
    <2>1. ~FindSnapshot
      <3>1. SUFFICES ASSUME FindSnapshot
                     PROVE  FALSE
        OBVIOUS
      <3>2. PICK b : job' = [job EXCEPT !.at = "create", !.blob = b]
        BY <3>1 DEF FindSnapshot
      <3>3. job'.at = "create"
        BY <1>2, <3>2 DEF Job
      <3>4. QED
        BY <3>3 DEF Busy
    <2>2. QED
      BY <1>3, <1>6, <2>1 DEF Recover, StartRecover, StartSnapshotImport, MayRun, CreateVault, Phase
  <1>7. QED
    BY <1>1, <1>4, <1>5, <1>6 DEF Next

LEMMA EndingIsRight ==
    ASSUME RecoveryInv, Next, Busy, ~Busy', crashes' = crashes
    PROVE  EndsRight
  <1>1. TypeOK /\ Progress
    BY DEF RecoveryInv, JobsInv
  <1>2. home = job.before => vault = job.before[1] /\ register = job.before[2]
    BY DEF home
  <1>3. CASE ImportVault
    BY <1>1, <1>3 DEF ImportVault, Progress, EndsRight, Installed
  <1>4. CASE ImportFails \/ RecoverFails
    <2>1. /\ job.op \in {"import", "snapshotImport", "recover"}
          /\ vault = job.before[1] /\ register = job.before[2]
      BY <1>1, <1>2, <1>4 DEF ImportFails, RecoverFails, Progress
    <2>2. vault' = vault /\ register' = Reopened(register)
      BY <1>4 DEF ImportFails, RecoverFails, Fails
    <2>3. QED
      BY <2>1, <2>2 DEF EndsRight, Untouched, KeepsRegister
  <1>5. CASE NoLocations \/ RestoreRefused \/ FetchFails
    <2>1. job.op \in {"restore", "vaultImport"} /\ register = job.before[2] /\ Given(vault)
      BY <1>1, <1>5 DEF NoLocations, RestoreRefused, FetchFails, Progress
    <2>2. register' = Reopened(register)
      BY <1>5 DEF NoLocations, RestoreRefused, FetchFails, Fails
    <2>3. Given(vault')
      <3>1. CASE vault' = vault
        BY <2>1, <3>1
      <3>2. CASE NoLocations
        <4>1. vault' = job.vault /\ job.vault \in Vault
          BY <1>1, <3>2 DEF NoLocations, Progress
        <4>2. QED
          BY <4>1, AbsenceAssumption DEF Given, AbsenceAssumption
      <3>3. QED
        BY <1>5, <3>1, <3>2 DEF RestoreRefused, FetchFails, Fails
    <2>4. QED
      BY <2>1, <2>2, <2>3 DEF EndsRight, KeepsRegister
  <1>6. ASSUME NEW p \in Provider, FetchHit(p)
        PROVE  EndsRight
    <2>1. job.op \in {"restore", "vaultImport"} /\ p \in job.todo /\ Given(vault) /\ vault' = vault
      BY <1>1, <1>6 DEF FetchHit, Progress
    <2>2. Installed(remote[p])
      BY <1>6 DEF FetchHit, Installed
    <2>3. QED
      BY <2>1, <2>2 DEF EndsRight
  <1>7. CASE InstallRegister \/ Adopt \/ AdoptFails
    <2>1. /\ job.op \in {"recover", "snapshotImport"}
          /\ vault \in Vault /\ vault.key = job.blob.key
          /\ register' = job.blob.register
      BY <1>1, <1>7 DEF InstallRegister, Adopt, AdoptFails, Progress, home
    <2>2. vault'.key = vault.key
      BY <1>7, <2>1 DEF InstallRegister, Adopt, AdoptFails, Vault, home
    <2>3. QED
      BY <2>1, <2>2 DEF EndsRight, Installed
  <1>8. QED
    BY <1>1, <1>3, <1>4, <1>5, <1>6, <1>7, EndingSteps

\* Who is careful can read what is in the register, and get what was safe.
LEMMA CareImplies ==
    ASSUME RecoveryInv, Careful
    PROVE  Readable /\ Recoverable
  <1>1. Readable
    BY ServingFacts DEF Readable, Whole
  <1>2. ASSUME NEW f \in safe
        PROVE  \/ backup # Nothing /\ f \in backup.blob.register.files /\ wrapped[f] = backup.blob.key
               \/ \E p \in Provider : /\ remote[p] # Nothing /\ f \in remote[p].register.files
                                      /\ wrapped[f] = remote[p].key
    BY DEF RecoveryInv, CareInv, Copies, Kept, Sound
  <1>3. QED
    BY <1>1, <1>2 DEF Recoverable

\* TypeOK, for any files, providers, vaults, losses and crashes: in particular
\* the register is never half a file, and a torn vault is not taken for one.
THEOREM RecoveryTypeCorrect == Spec => []TypeOK
  BY RecoveryInvHolds, PTL DEF RecoveryInv, JobsInv

\* Readable: an unlocked daemon of a careful user has the key of every file in
\* its register, through losses, imports, restores and recoveries cut short.
THEOREM RegisterStaysReadable ==
    ASSUME Careful
    PROVE  Spec => []Readable
  BY RecoveryInvHolds, CareImplies, PTL

\* Recoverable: whatever a careful user's snapshots and exports have had can
\* still be had, with its key.
THEOREM ArchiveStaysRecoverable ==
    ASSUME Careful
    PROVE  Spec => []Recoverable
  BY RecoveryInvHolds, CareImplies, PTL

\* AllOrNothing: careful or not, an import of both files, of a snapshot, or a
\* recovery that is not cut short installs both files or leaves both, as
\* portability.py:216 says; a restore and the import of a vault alone leave the
\* register or put a snapshot there that the vault reads, and leave no vault but
\* the old one or the one they were given.
THEOREM JobsAreAllOrNothing == Spec => AllOrNothing
  <1>1. RecoveryInv /\ [Next]_vars => [JobEnds => EndsRight]_vars
    BY EndingIsRight DEF JobEnds
  <1>2. QED
    BY <1>1, RecoveryInvHolds, PTL DEF Spec, AllOrNothing, EndsRight

===================================================================================
