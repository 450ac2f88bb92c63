SPECIFICATION FairSpec
CHECK_DEADLOCK FALSE
CONSTANTS
    a = a
    b = b
    c = c
    NoOne = NoOne
    Callers = {a, b}
    May <- Running
    Levels = {"Info"}
    kWorkQueueLimit = 2
    NeverDrop = FALSE
    FlushErrors = FALSE
    SpuriousWakeups = FALSE
    MaxCalls = 3
INVARIANTS
    FlushDelivers
    PerThreadOrder
PROPERTIES
    AllComesOut
