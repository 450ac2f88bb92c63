SPECIFICATION FairSpec
CHECK_DEADLOCK FALSE
CONSTANTS
    a = a
    b = b
    c = c
    NoOne = NoOne
    Callers = {a, b}
    May <- Running
    Levels = {"Info"}
    kWorkQueueLimit = 1
    NeverDrop = TRUE
    FlushErrors = FALSE
    SpuriousWakeups = TRUE
    MaxCalls = 3
INVARIANTS
    NothingDropped
PROPERTIES
    CallsReturn
