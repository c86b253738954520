\* Two processes upload to one path; either a call, a process or a provider may fail.
CONSTANTS
    f1 = f1  f2 = f2  c1 = c1  c2 = c2  c3 = c3
    Provider = {pa, pb}
    File = {f1, f2}
    Chunk = {c1, c2, c3}
    VPathOf <- SamePath
    FileOf <- MCFileOf
    SeqOf <- MCSeqOf
    ReplicaTarget = 2
    MinSpread = 1
    SpreadCap = 1
    MaxRows = 6
    NoRow = NoRow
    Flaky = {pa}
    MaxFaults = 0
    Worker = {w1, w2}
    Reader = {}
    Removable = {pb}
    CrashProne = {w1}
SPECIFICATION UploadsSpec
INVARIANTS
    RowsWereUploaded
    OneFilePerPath
    PutProgress
PROPERTIES
    BornAtFloor
\* Every upload of the bound has been made.
CHECK_DEADLOCK FALSE
