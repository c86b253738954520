\* The daemon: one worker that may crash, a download beside it, a provider that
\* may be removed.
CONSTANTS
    f1 = f1  f2 = f2  c1 = c1  c2 = c2  c3 = c3
    Provider = {pa, pb}
    File = {f1}
    Chunk = {c1}
    VPathOf <- SamePath
    FileOf <- MCFileOf
    SeqOf <- MCSeqOf
    ReplicaTarget = 1
    MinSpread = 1
    SpreadCap = 1
    MaxRows = 2
    NoRow = NoRow
    Flaky = {pa}
    MaxFaults = 1
    Worker = {w1}
    Reader = {r1}
    Removable = {pb}
    CrashProne = {w1}
SPECIFICATION Spec
INVARIANTS
    TypeOK
PROPERTIES
    LostIsFinal
    RemovalLeavesNothing
    NoSecondLiveRow
