\* Two files, two providers; a home that is lost once, two crashes.
CONSTANTS
    f1 = f1  f2 = f2  pa = pa  pb = pb
    File = {f1, f2}
    Provider = {pa, pb}
    Careful = TRUE
    NoVault = NoVault
    TornVault = TornVault
    NoRegister = NoRegister
    Nothing = Nothing
    MaxKeys = 2
    MaxLosses = 1
    MaxCrashes = 2
SYMMETRY Twins
SPECIFICATION Spec
INVARIANTS
    Readable
    Recoverable
PROPERTIES
    AllOrNothing
