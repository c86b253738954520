\* Two threads of the daemon and a command, two providers, one with rotating tokens.
CONSTANTS
    n1 = n1  n2 = n2  t1 = t1  t2 = t2  t3 = t3
    Name = {n1, n2}
    Task = {t1, t2, t3}
    CliTask = {t3}
    Rotating = {n1}
    Careful = TRUE
    NoFile = NoFile
    Empty = Empty
    Torn = Torn
    MaxCreds = 4
    MaxVaults = 2
SYMMETRY Threads
SPECIFICATION Spec
INVARIANTS
    VaultWhole
    RowsMatchSecrets
    SecretsWork
PROPERTIES
    OthersKept
