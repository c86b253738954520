\* provider set between two snapshots to a provider that names its objects.
CONSTANTS
    pa = pa  pb = pb
    Provider = {pa, pb}
    Duplicating = {pb}
    Flaky = {pb}
    Adjustable = {pa}
    Daemon = Daemon
    Cli = Cli
    NoRegister = NoRegister
    NoObject = NoObject
    Closed = Closed
    OneVault = TRUE
    MinTargets = 2
    MaxChanges = 2
    MaxPuts = 3
    MaxStarts = 2
SPECIFICATION Spec
INVARIANTS
    RecordedHolds
CHECK_DEADLOCK FALSE
