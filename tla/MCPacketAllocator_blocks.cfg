SPECIFICATION Spec
CHECK_DEADLOCK FALSE
CONSTANTS
    kWindowMaxUnits = 12
    kUnitSize = 2
    UintModulus = 256
    w1 = w1
    w2 = w2
    c1 = c1
    c2 = c2
    Chunks = {w1, c1}
    HugeChunk <- Huge1
    ByteSizes = {0, 4, 5}
    ShrinkSizes = {0}
    MaxLive = 3
    NULL = NULL
INVARIANTS
    TypeOK
    NoOverlap
    Accounting
    EveryBlockHasAnOwner
    LargeEnough
PROPERTIES
    FreedSpaceIsFound
    ImplementsAbstractHeap
