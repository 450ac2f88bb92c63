----------------------------- MODULE GrowingBuffers -----------------------------
(***************************************************************************)
(* The growing buffer and the growing matrix of SiameseCommon.h and        *)
(* SiameseCommon.cpp, on the malloc() allocator of pktalloc.h, any call of *)
(* which may fail.  A block of memory is the function of its bytes; a      *)
(* pointer is the block it points to, or NULL.                             *)
(*                                                                         *)
(* One buffer and one matrix, and the client that uses them as their       *)
(* comments say: sizes are at least 1, and the matrix grows.  Sums and     *)
(* products of sizes are of type `unsigned` and wrap: a block can be       *)
(* smaller than what it was asked for, and what is written behind it is    *)
(* not in it.                                                              *)
(***************************************************************************)
EXTENDS Serializers

CONSTANTS
    kExtraRows,        \* rows allocated for later
    kMinExtraColumns,  \* columns allocated for later
    Alignment,         \* PKTALLOC_ALIGN_BYTES
    UintModulus,       \* 2^32: arithmetic on `unsigned` wraps here
    Sizes,             \* bound: the sizes asked of the buffer
    Dimensions,        \* bound: the rows and columns asked of the matrix
    NULL,
    ZERO, FILLED, JUNK \* bytes: zero, written by the client, of unknown value

ASSUME ExtraAssumption == kExtraRows \in Nat /\ kMinExtraColumns \in Nat
ASSUME AlignmentAssumption == Alignment \in Nat \ {0}
ASSUME ModulusAssumption == UintModulus \in Nat \ {0}
ASSUME SizesAssumption == Sizes \cup Dimensions \subseteq 1..(UintModulus - 1)
ASSUME ValuesAssumption == Cardinality({NULL, ZERO, FILLED, JUNK}) = 4

VARIABLES
    buffer,     \* GrowingAlignedDataBuffer: Data, Bytes
    expected,   \* what the client knows of the bytes of the buffer
    matrix,     \* GrowingAlignedByteMatrix
    written,    \* the cells the client wrote and has not dropped
    ready,      \* the last call that sizes the matrix returned true
    unbacked,   \* the allocated sizes are of a reallocation that failed
    crashed     \* memory was copied to NULL

bufferState == <<buffer, expected, crashed>>
matrixState == <<matrix, written, ready, unbacked>>
vars == <<bufferState, matrixState>>

Cells == Dimensions \X Dimensions

\* A sum or product kept in an `unsigned`.
Uint(n) == n % UintModulus
Uints == 0..(UintModulus - 1)

Bytes(n) == 0..(n - 1)
Uninitialized(n) == [i \in Bytes(n) |-> JUNK]
SizeOf(block) == Cardinality(DOMAIN block)

\* On size_t, which does not wrap here.
NextAlignedOffset(size) == ((size + Alignment - 1) \div Alignment) * Alignment

-----------------------------------------------------------------------------
(* pktalloc::Allocator: the blocks a call may return *)

Allocate(size) == {Uninitialized(size), NULL}

\* realloc() of a block whose contents are dropped: what it keeps of them is
\* of unknown value too.
Realloc(size) == Allocate(size)

\* ReallocType::ZeroInitialized copies `size` bytes of a smaller block: what
\* lies behind it is read with it.
ZeroedRealloc(block, size) ==
    {NULL, [i \in Bytes(size) |->
                CASE block = NULL -> ZERO
                  [] block # NULL /\ i \in DOMAIN block -> block[i]
                  [] block # NULL /\ i \notin DOMAIN block -> JUNK]}

-----------------------------------------------------------------------------
(* GrowingAlignedDataBuffer *)

\* memset(Data + from, 0, to - from)
Zeroed(block, from, to) ==
    [i \in DOMAIN block |-> IF i >= from /\ i < to THEN ZERO ELSE block[i]]

\* Mutant of Padded: calloc() is trusted to have zeroed the new bytes.
PaddedByCalloc(block, size) == [Data |-> block, Bytes |-> size]
Padded(block, size) == [Data |-> Zeroed(block, buffer.Bytes, size), Bytes |-> size]

NoBuffer == [Data |-> NULL, Bytes |-> 0]

GrowZeroPadded(size) ==
    /\ IF buffer.Data # NULL /\ size <= buffer.Bytes
       THEN UNCHANGED bufferState
       ELSE \E block \in ZeroedRealloc(buffer.Data, size) :
            IF block # NULL
            THEN /\ buffer' = Padded(block, size)
                 /\ expected' = [i \in Bytes(size) |->
                        IF i < buffer.Bytes THEN expected[i] ELSE ZERO]
                 /\ UNCHANGED crashed
            ELSE /\ buffer' = NoBuffer /\ expected' = <<>>
                 /\ crashed' = (buffer.Data # NULL)
    /\ UNCHANGED matrixState

\* A block realloc() kept is lost when it fails.
Initialize(size) ==
    /\ \E block \in Realloc(size) :
        IF block = NULL THEN buffer' = NoBuffer /\ expected' = <<>>
        ELSE /\ buffer' = [Data |-> block, Bytes |-> size]
             /\ expected' = Uninitialized(size)
    /\ UNCHANGED <<matrixState, crashed>>

\* OriginalPacket::Initialize: room for the longest header, use of a shorter one.
InitializePacket(dataBytes) ==
    /\ LET HeaderBytes == Len(SerializeHeader_PacketLength(dataBytes))
           used == HeaderBytes + dataBytes
       IN  \E block \in Realloc(Uint(kMaxPacketLengthFieldBytes + dataBytes)) :
            IF block = NULL THEN buffer' = NoBuffer /\ expected' = <<>>
            ELSE /\ buffer' = [Data |-> [i \in DOMAIN block |->
                                   IF i < used THEN FILLED ELSE block[i]],
                               Bytes |-> Uint(used)]
                 /\ expected' = [i \in Bytes(Uint(used)) |-> FILLED]
    /\ UNCHANGED <<matrixState, crashed>>

FreeBuffer ==
    /\ buffer' = NoBuffer /\ expected' = <<>>
    /\ UNCHANGED <<matrixState, crashed>>

-----------------------------------------------------------------------------
(* GrowingAlignedByteMatrix *)

Address(m, cell) == Uint((cell[1] - 1) * m.AllocatedColumns + (cell[2] - 1))
InMatrix(rows, columns) == {cell \in Cells : cell[1] <= rows /\ cell[2] <= columns}

\* Mutant of AllocatedFor: the columns are not aligned.
AllocatedUnaligned(rows, columns) ==
    [rows |-> Uint(rows + kExtraRows), columns |-> Uint(columns + kMinExtraColumns)]
\* Rows and columns to allocate for a matrix.
AllocatedFor(rows, columns) ==
    [rows |-> Uint(rows + kExtraRows),
     columns |-> Uint(NextAlignedOffset(Uint(columns + kMinExtraColumns)))]

BlockSize(allocated) == Uint(allocated.rows * allocated.columns)

Sized(block, rows, columns, allocated) ==
    [Data |-> block, Rows |-> rows, Columns |-> columns,
     AllocatedRows |-> allocated.rows, AllocatedColumns |-> allocated.columns]

\* Mutant of FreedMatrix: the sizes stay.
FreedMatrixKeepingSizes == [matrix EXCEPT !.Data = NULL]
FreedMatrix == IF matrix.Data = NULL THEN matrix ELSE Sized(NULL, matrix.Rows, matrix.Columns,
                                                            [rows |-> 0, columns |-> 0])

\* The sizes are recorded before the reallocation that may fail.
InitializeMatrix(rows, columns) ==
    /\ \E block \in Realloc(BlockSize(AllocatedFor(rows, columns))) :
        /\ matrix' = Sized(block, rows, columns, AllocatedFor(rows, columns))
        /\ ready' = (block # NULL) /\ unbacked' = (block = NULL)
    /\ written' = {}
    /\ UNCHANGED bufferState

\* Row by row: where the bytes of the old block go in the new one.
\* Mutant of RowCopies: the source is walked with the new stride.
RowCopiesNewStride(columns, stride) ==
    {<<i * stride + j, i * stride + j>> :
        i \in Bytes(matrix.Rows), j \in Bytes(IF columns < matrix.Columns THEN columns
                                              ELSE matrix.Columns)}
RowCopies(columns, stride) ==
    {<<i * matrix.AllocatedColumns + j, i * stride + j>> :
        i \in Bytes(matrix.Rows), j \in Bytes(IF columns < matrix.Columns THEN columns
                                              ELSE matrix.Columns)}

\* The block after these copies; what falls behind its end is not in it.
CopyInto(block, copies) ==
    [i \in DOMAIN block |->
        IF \E c \in copies : c[2] = i
        THEN LET from == (CHOOSE c \in copies : c[2] = i)[1]
             IN  IF from \in DOMAIN matrix.Data THEN matrix.Data[from] ELSE JUNK
        ELSE block[i]]

\* Resize, when the matrix has to move.
MoveMatrix(rows, columns) ==
    LET allocated == AllocatedFor(rows, columns)
        copies == IF matrix.Data = NULL THEN {} ELSE RowCopies(columns, allocated.columns)
    IN  \E block \in Allocate(BlockSize(allocated)) :
            IF block = NULL
            THEN /\ matrix' = FreedMatrix /\ ready' = FALSE /\ written' = {}
                 /\ UNCHANGED unbacked
            ELSE /\ matrix' = Sized(CopyInto(block, copies), rows, columns, allocated)
                 /\ ready' = TRUE /\ unbacked' = FALSE
                 /\ UNCHANGED written

\* The client grows the matrix.
Resize(rows, columns) ==
    /\ rows >= matrix.Rows /\ columns >= matrix.Columns
    /\ IF rows <= matrix.AllocatedRows /\ columns <= matrix.AllocatedColumns
       THEN /\ matrix' = [matrix EXCEPT !.Rows = rows, !.Columns = columns]
            /\ ready' = TRUE
            /\ UNCHANGED <<written, unbacked>>
       ELSE MoveMatrix(rows, columns)
    /\ UNCHANGED bufferState

ClearMatrix ==
    /\ matrix' = [matrix EXCEPT !.Rows = 0, !.Columns = 0]
    /\ written' = {}
    /\ UNCHANGED <<bufferState, ready, unbacked>>

FreeMatrix ==
    /\ matrix' = FreedMatrix
    /\ written' = {}
    /\ ready' = (ready /\ matrix.Data = NULL)
    /\ UNCHANGED <<bufferState, unbacked>>

\* The client writes every cell: Data[row * AllocatedColumns + column].
WriteCells ==
    LET cells == InMatrix(matrix.Rows, matrix.Columns)
    IN  /\ matrix.Data # NULL
        /\ matrix' = [matrix EXCEPT !.Data = [i \in DOMAIN @ |->
               IF \E cell \in cells : Address(matrix, cell) = i
               THEN CHOOSE cell \in cells : Address(matrix, cell) = i ELSE @[i]]]
        /\ written' = cells
        /\ UNCHANGED <<bufferState, ready, unbacked>>

-----------------------------------------------------------------------------
(* Blocks of memory are not NULL *)

\* The sizes the calls below allocate.
BlockSizes ==
    UNION {Sizes, {Uint(kMaxPacketLengthFieldBytes + size) : size \in Sizes},
           {BlockSize(AllocatedFor(rows, columns)) : rows, columns \in Dimensions}}

ASSUME NullAssumption ==
    \A size \in BlockSizes : NULL \notin [Bytes(size) -> Cells \cup {ZERO, FILLED, JUNK}]

-----------------------------------------------------------------------------

Init ==
    /\ buffer = NoBuffer /\ expected = <<>>
    /\ matrix = Sized(NULL, 0, 0, [rows |-> 0, columns |-> 0])
    /\ written = {} /\ ready = FALSE /\ unbacked = FALSE
    /\ crashed = FALSE

BufferCall == \E size \in Sizes : GrowZeroPadded(size) \/ Initialize(size) \/ InitializePacket(size)

MatrixCall == \E rows, columns \in Dimensions : InitializeMatrix(rows, columns) \/ Resize(rows, columns)

Next ==
    /\ ~crashed
    /\ BufferCall \/ FreeBuffer \/ MatrixCall \/ ClearMatrix \/ FreeMatrix \/ WriteCells

Spec == Init /\ [][Next]_vars

-----------------------------------------------------------------------------
(* Properties *)

\* The fields have their types; the rows of a matrix are aligned.
TypeOK ==
    /\ buffer.Data # NULL => \A i \in DOMAIN buffer.Data : buffer.Data[i] \in {ZERO, JUNK, FILLED}
    /\ matrix.Data # NULL => \A i \in DOMAIN matrix.Data : matrix.Data[i] \in Cells \cup {JUNK}
    /\ matrix.Rows \in Dimensions \cup {0} /\ matrix.Columns \in Dimensions \cup {0}
    /\ {matrix.AllocatedRows, matrix.AllocatedColumns} \subseteq Uints
    /\ matrix.AllocatedColumns % Alignment = 0
    /\ written \subseteq Cells /\ {ready, unbacked} \subseteq BOOLEAN
    /\ crashed \in BOOLEAN

\* The buffer holds Bytes bytes, and each the client knows of is what it knows:
\* kept over growth, zero where it grew (SiameseCommon.h:249), over blocks that
\* are larger than Bytes and copies that read too far.
BufferKeepsData ==
    /\ buffer.Data = NULL => buffer.Bytes = 0
    /\ buffer.Data # NULL => \A i \in Bytes(buffer.Bytes) :
        i \in DOMAIN buffer.Data /\ expected[i] \in {JUNK, buffer.Data[i]}

\* While the matrix has memory, every cell of it, and every cell it has
\* allocated to grow into, is in that memory (SiameseCommon.cpp:41).  After
\* Initialize or Resize returned true it has memory, as Get() asserts
\* (SiameseCommon.h:333), unless an Initialize failed before, whose sizes stay.
\* A product of rows and columns that wraps (SiameseCommon.cpp:51) breaks it.
MatrixFits ==
    /\ matrix.Data # NULL =>
        /\ matrix.Rows <= matrix.AllocatedRows /\ matrix.Columns <= matrix.AllocatedColumns
        /\ matrix.AllocatedRows * matrix.AllocatedColumns <= SizeOf(matrix.Data)
    /\ ready => matrix.Data # NULL \/ unbacked

\* What the client wrote in a cell is there until it drops it, whether the
\* matrix grows in place or moves ("keeping existing data", SiameseCommon.h:303).
CellsKept ==
    \A cell \in written :
        /\ cell \in InMatrix(matrix.Rows, matrix.Columns)
        /\ Address(matrix, cell) \in DOMAIN matrix.Data
        /\ matrix.Data[Address(matrix, cell)] = cell
=============================================================================
