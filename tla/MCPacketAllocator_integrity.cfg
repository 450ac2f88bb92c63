SPECIFICATION Spec
CHECK_DEADLOCK FALSE
CONSTANTS
    kWindowMaxUnits = 8
    kUnitSize = 2
    UintModulus = 256
    w1 = w1
    w2 = w2
    c1 = c1
    c2 = c2
    Chunks = {w1}
    HugeChunk <- Huge1
    ByteSizes = {2}
    ShrinkSizes = {}
    MaxLive = 4
    NULL = NULL
INVARIANTS
    IntegrityHolds
