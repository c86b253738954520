\* Two uploads, a deletion and a scrub through two crashes or shutdowns.
CONSTANTS
    up1 = up1  up2 = up2  del = del  scr = scr  a = a  b = b
    Request = {up1, up2, del, scr}
    VPath = {a, b}
    KindOf <- MCKindOf
    PathOf <- OnePath
    NoFile = NoFile
    ListLimit = 1000
    MaxStops = 2
SPECIFICATION FairSpec
INVARIANTS
    TypeOK
PROPERTIES
    ServesInOrder
    RestartKeepsSpool
    JobsFinish
