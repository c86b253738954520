\* One program at a time: a file store and a store of duplicates, either may fail.
CONSTANTS
    pa = pa  pb = pb
    Provider = {pa, pb}
    Duplicating = {pb}
    Flaky = {pa, pb}
    Adjustable = {pb}
    Daemon = Daemon
    Cli = Cli
    NoRegister = NoRegister
    NoObject = NoObject
    Closed = Closed
    OneVault = TRUE
    MinTargets = 2
    MaxChanges = 2
    MaxPuts = 2
    MaxStarts = 2
SPECIFICATION FairSpec
INVARIANTS
    RecordedHolds
PROPERTIES
    CatchesUp
CHECK_DEADLOCK FALSE
