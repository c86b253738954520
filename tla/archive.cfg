\* Three files in a tree of two names, four unlike providers.
CONSTANTS
    a = a  b = b
    Name = {a, b}
    MaxDepth = 3
    MaxFiles = 3
    Putter = {p1}
    Mover = {m1}
    p1 = p1  m1 = m1
    PutPath <- MCPutPath
    Source <- MCSource
    Destination <- MCDestination
    Override <- MCOverride
    FolderPolicy <- MCFolderPolicy
    Fleet <- MCFleet
    Provider = {1, 2, 3, 4}
    Unset = Unset
    Unlimited = Unlimited
    Failed = Failed
    NoFile = NoFile
    NoPolicy = NoPolicy
CHECK_DEADLOCK FALSE
SPECIFICATION Spec
INVARIANTS
    EveryFileListed
    NobodyHoldsWhole
PROPERTIES
    FilesStay
    MovesWhole
    DurableOrNobodyElse
