\* Two tasks, three operations of three tries, four faults.
CONSTANTS
    t1 = t1  t2 = t2
    Task = {t1, t2}
    NoTask = NoTask
    MaxTries = 3
    MaxOperations = 3
    MaxFaults = 4
CHECK_DEADLOCK FALSE
SPECIFICATION FairSpec
INVARIANTS
    SpentOnce
    RefreshedOnce
    EndsAsAsked
PROPERTIES
    EveryoneEnds
