\* One worker alone: scrubs and repairs of one chunk with two copies, which end.
CONSTANTS
    f1 = f1  f2 = f2  c1 = c1  c2 = c2  c3 = c3
    Provider = {pa, pb, pc}
    File = {f1}
    Chunk = {c1}
    VPathOf <- SamePath
    FileOf <- MCFileOf
    SeqOf <- MCSeqOf
    ReplicaTarget = 2
    MinSpread = 1
    SpreadCap = 1
    MaxRows = 4
    NoRow = NoRow
    Flaky = {pa, pb}
    MaxFaults = 2
    Worker = {w1}
    Reader = {}
    Removable = {}
    CrashProne = {}
SPECIFICATION FairSpec
INVARIANTS
    RepairAccountsForAll
PROPERTIES
    SuspicionNeedsBytes
    TwoStrikes
    RepairHeals
