SPECIFICATION Spec
CHECK_DEADLOCK FALSE
CONSTANTS
    kWindowMaxUnits = 8
    kUnitSize = 2
    UintModulus = 256
    w1 = w1
    w2 = w2
    c1 = c1
    c2 = c2
    Chunks = {w1, c1, c2}
    HugeChunk <- Huge1
    ByteSizes = {0, 2, 3}
    ShrinkSizes = {}
    MaxLive = 7
    NULL = NULL
INVARIANTS
    ListsConsistent
    UsedBytesExact
    DestructorFreesWindows
PROPERTIES
    FreePromotes
