\* Two of three shares on four providers, one of which, with a share or spare, may be removed.
CONSTANTS
    pa = pa  pb = pb  pc = pc  pd = pd  r1 = r1
    Provider = {pa, pb, pc, pd}
    K = 2
    N = 3
    Reader = {r1}
    Removable = {pa, pd}
    Homes <- MCHomes
    NoRow = NoRow
    MaxRows = 5
    MaxLosses = 1
    MaxFailures = 1
CHECK_DEADLOCK FALSE
SPECIFICATION FairSpec
INVARIANTS
    OneSharePerProvider
    FloorIsWhole
PROPERTIES
    RepairTells
    ShortOnlyIfShort
    Heals
