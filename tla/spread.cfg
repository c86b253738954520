\* One daemon worker, a file split over two shard groups, two flaky providers.
CONSTANTS
    f1 = f1  f2 = f2  c1 = c1  c2 = c2  c3 = c3
    Provider = {pa, pb, pc}
    File = {f1}
    Chunk = {c1, c2}
    VPathOf <- SamePath
    FileOf <- MCFileOf
    SeqOf <- MCSeqOf
    ReplicaTarget = 1
    MinSpread = 2
    SpreadCap = 1
    MaxRows = 4
    NoRow = NoRow
    Flaky = {pa, pb}
    MaxFaults = 0
    Worker = {w1}
    Reader = {}
    Removable = {}
    CrashProne = {}
SPECIFICATION Spec
INVARIANTS
    SpreadCapHeld
