SPECIFICATION Spec
CHECK_DEADLOCK FALSE
CONSTANTS
    a = a
    b = b
    c = c
    NoOne = NoOne
    Callers = {a, b, c}
    May <- Shared
    Levels = {"Info"}
    kWorkQueueLimit = 1
    NeverDrop = FALSE
    FlushErrors = FALSE
    SpuriousWakeups = TRUE
    MaxCalls = 2
INVARIANTS
    TypeOK
    NoSilentLoss
    FlusherWillBeWoken
    WorkerWillBeWoken
