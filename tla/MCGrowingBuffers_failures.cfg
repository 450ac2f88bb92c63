SPECIFICATION Spec
CHECK_DEADLOCK FALSE
CONSTANTS
    kExtraRows = 1
    kMinExtraColumns = 1
    Alignment = 2
    UintModulus = 64
    Sizes = {1, 2, 4}
    Dimensions = {1, 2, 4}
    NULL = NULL
    ZERO = ZERO
    FILLED = FILLED
    JUNK = JUNK
INVARIANTS
    TypeOK
    BufferKeepsData
    MatrixFits
    CellsKept
