SPECIFICATION Spec
CHECK_DEADLOCK FALSE
CONSTANTS
    a = a
    b = b
    c = c
    NoOne = NoOne
    Callers = {a, b}
    May <- Flushing
    Levels = {"Info"}
    kWorkQueueLimit = 2
    NeverDrop = FALSE
    FlushErrors = FALSE
    SpuriousWakeups = FALSE
    MaxCalls = 2
INVARIANTS
    FlushDelivers
