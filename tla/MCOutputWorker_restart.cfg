SPECIFICATION FairSpec
CHECK_DEADLOCK FALSE
CONSTANTS
    a = a
    b = b
    c = c
    NoOne = NoOne
    Callers = {a, b}
    May <- Restarted
    Levels = {"Error"}
    kWorkQueueLimit = 1
    NeverDrop = FALSE
    FlushErrors = TRUE
    SpuriousWakeups = TRUE
    MaxCalls = 3
INVARIANTS
    OneWorker
PROPERTIES
    ImplementsAbstractLog
    CallsReturn
