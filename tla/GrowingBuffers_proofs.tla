------------------------- MODULE GrowingBuffers_proofs -------------------------
(***************************************************************************)
(* Proofs about GrowingBuffers: the buffer keeps what the client knows of  *)
(* its bytes, and the matrix what the client wrote in its cells, whichever *)
(* allocations fail, for sizes whose sums and products fit `unsigned`.     *)
(***************************************************************************)
EXTENDS GrowingBuffers, FiniteSetTheorems, TLAPS

\* The room for a packet and the room for a matrix do not wrap.  (The sums of
\* rows and of columns do not wrap either: the product is no smaller.)
SizesFit ==
    /\ \A size \in Sizes : kMaxPacketLengthFieldBytes + size < UintModulus
    /\ \A rows, columns \in Dimensions :
        (rows + kExtraRows) * NextAlignedOffset(columns + kMinExtraColumns) < UintModulus

-----------------------------------------------------------------------------
(* The inductive invariant *)

IsBlock(data, values) == \E size \in BlockSizes : data \in [Bytes(size) -> values]

BufferInv ==
    /\ buffer \in [Data : {buffer.Data}, Bytes : Nat]
    /\ buffer.Data # NULL => IsBlock(buffer.Data, {ZERO, FILLED, JUNK})
    /\ BufferKeepsData

\* A matrix that has memory has as much as its allocated sizes say, and its
\* sizes are within these.
BackedInv ==
    matrix.Data # NULL =>
        /\ IsBlock(matrix.Data, Cells \cup {JUNK})
        /\ DOMAIN matrix.Data = Bytes(matrix.AllocatedRows * matrix.AllocatedColumns)
        /\ matrix.Rows <= matrix.AllocatedRows /\ matrix.Columns <= matrix.AllocatedColumns

\* One that has none can grow into nothing, unless an Initialize failed; and the
\* client knows of no cell.
UnbackedInv ==
    matrix.Data = NULL =>
        /\ matrix.AllocatedRows = 0 \/ unbacked
        /\ ready => unbacked
        /\ written = {}

MatrixInv ==
    /\ matrix \in [Data : {matrix.Data},
                   Rows : Dimensions \cup {0}, Columns : Dimensions \cup {0},
                   AllocatedRows : Uints, AllocatedColumns : Uints]
    /\ matrix.AllocatedColumns % Alignment = 0
    /\ written \subseteq Cells /\ ready \in BOOLEAN /\ unbacked \in BOOLEAN
    /\ BackedInv
    /\ UnbackedInv
    /\ CellsKept

IInv == BufferInv /\ MatrixInv /\ crashed \in BOOLEAN
-----------------------------------------------------------------------------
(* Arithmetic of sizes and addresses *)

LEMMA Times ==
    ASSUME NEW a \in Nat, NEW b \in Nat, NEW s \in Nat, a <= b
    PROVE  a * s <= b * s /\ a * s \in Nat /\ b * s \in Nat
<1>1. b * s = a * s + (b - a) * s
  OBVIOUS
<1>2. (b - a) * s \in Nat /\ a * s \in Nat
  OBVIOUS
<1> QED BY <1>1, <1>2

LEMMA AlignedOffset ==
    ASSUME NEW size \in Nat
    PROVE  /\ NextAlignedOffset(size) \in Nat
           /\ NextAlignedOffset(size) >= size
           /\ NextAlignedOffset(size) % Alignment = 0
<1> DEFINE sum == size + Alignment - 1
           q == sum \div Alignment
           n == q * Alignment
<1>1. Alignment \in Nat /\ Alignment > 0 /\ sum \in Nat
  BY AlignmentAssumption
<1>2. q \in Nat /\ sum = q * Alignment + (sum % Alignment) /\ sum % Alignment \in 0..(Alignment - 1)
  <2> HIDE DEF sum
  <2> QED BY <1>1, SMTT(30)
<1>3. NextAlignedOffset(size) = n
  BY DEF NextAlignedOffset
<1> HIDE DEF q
<1>4. n \in Nat /\ n >= size
  <2>1. n \in Nat
    BY <1>1, <1>2
  <2> HIDE DEF n
  <2> QED BY <1>1, <1>2, <2>1 DEF n
<1>5. n % Alignment = 0
  <2> DEFINE d == n \div Alignment
             r == n % Alignment
  <2>1. d \in Int /\ n = d * Alignment + r /\ r \in 0..(Alignment - 1)
    <3> HIDE DEF n
    <3> QED BY <1>1, <1>4, SMTT(30)
  <2> HIDE DEF d, r
  <2>2. r = (q - d) * Alignment
    BY <1>1, <1>2, <2>1
  <2>3. CASE q - d >= 1
    <3>1. (q - d) * Alignment = Alignment + (q - d - 1) * Alignment
      BY <1>1, <1>2, <2>1
    <3>2. (q - d - 1) * Alignment >= 0
      BY <1>1, <1>2, <2>1, <2>3
    <3> QED BY <1>1, <1>2, <2>1, <2>2, <3>1, <3>2
  <2>4. CASE q - d <= -1
    <3>1. (q - d) * Alignment = (q - d + 1) * Alignment - Alignment
      BY <1>1, <1>2, <2>1
    <3>2. (q - d + 1) * Alignment <= 0
      BY <1>1, <1>2, <2>1, <2>4
    <3> QED BY <1>1, <1>2, <2>1, <2>2, <3>1, <3>2
  <2>5. CASE q - d = 0
    BY <1>1, <2>2, <2>5 DEF r
  <2> QED BY <1>2, <2>1, <2>3, <2>4, <2>5
<1> QED BY <1>3, <1>4, <1>5

\* A row and a column below the stride give an address of the block, and no
\* other pair gives the same one.
LEMMA AddressInBlock ==
    ASSUME NEW rows \in Nat, NEW stride \in Nat, NEW i \in Bytes(rows), NEW j \in Bytes(stride)
    PROVE  i * stride + j \in Bytes(rows * stride)
<1>1. i \in Nat /\ j \in Nat /\ i + 1 <= rows /\ j < stride
  BY DEF Bytes
<1>2. (i + 1) * stride <= rows * stride /\ (i + 1) * stride \in Nat /\ rows * stride \in Nat
  BY <1>1, Times
<1>3. (i + 1) * stride = i * stride + stride /\ i * stride \in Nat
  BY <1>1
<1> QED BY <1>1, <1>2, <1>3 DEF Bytes

At(i, stride, j) == i * stride + j

LEMMA AddressInjective ==
    ASSUME NEW stride \in Nat, NEW i \in Nat, NEW k \in Nat,
           NEW j \in Bytes(stride), NEW l \in Bytes(stride),
           At(i, stride, j) = At(k, stride, l)
    PROVE  i = k /\ j = l
<1>0. i * stride + j = k * stride + l
  BY DEF At
<1>1. ASSUME NEW a \in Nat, NEW b \in Nat, NEW x \in Bytes(stride), NEW y \in Bytes(stride),
             a < b
      PROVE  a * stride + x < b * stride + y
  <2>1. (a + 1) * stride <= b * stride /\ (a + 1) * stride \in Nat /\ b * stride \in Nat
    BY <1>1, Times
  <2>2. (a + 1) * stride = a * stride + stride /\ a * stride \in Nat
    OBVIOUS
  <2> QED BY <1>1, <2>1, <2>2 DEF Bytes
<1>2. i * stride + j \in Int /\ k * stride + l \in Int
  BY DEF Bytes
<1>3. ~(i < k) /\ ~(k < i)
  <2>1. i < k => i * stride + j < k * stride + l
    BY <1>1
  <2>2. k < i => k * stride + l < i * stride + j
    BY <1>1
  <2> QED BY <1>0, <1>2, <2>1, <2>2
<1>4. i = k
  BY <1>3
<1>5. i * stride \in Nat /\ j \in Nat /\ l \in Nat
  BY DEF Bytes
<1> QED BY <1>0, <1>4, <1>5

LEMMA SizeOfBlock ==
    ASSUME NEW block, NEW n \in Nat, DOMAIN block = Bytes(n)
    PROVE  SizeOf(block) = n
<1>1. Cardinality(0..(n - 1)) = IF 0 > n - 1 THEN 0 ELSE (n - 1) - 0 + 1
  BY FS_Interval
<1> QED BY <1>1 DEF SizeOf, Bytes

LEMMA UintFits ==
    ASSUME NEW n \in Nat
    PROVE  /\ Uint(n) \in Uints /\ Uint(n) \in Nat
           /\ n < UintModulus => Uint(n) = n /\ n \in Uints
BY ModulusAssumption DEF Uint, Uints

\* The sizes to allocate are those of the calls and more, and so is their product.
LEMMA AllocatedForRoom ==
    ASSUME SizesFit, NEW rows \in Dimensions, NEW columns \in Dimensions
    PROVE  /\ AllocatedFor(rows, columns).rows \in Uints
           /\ AllocatedFor(rows, columns).columns \in Uints
           /\ AllocatedFor(rows, columns).rows \in Nat
           /\ AllocatedFor(rows, columns).columns \in Nat
           /\ BlockSize(AllocatedFor(rows, columns))
                = AllocatedFor(rows, columns).rows * AllocatedFor(rows, columns).columns
           /\ rows <= AllocatedFor(rows, columns).rows
           /\ columns <= AllocatedFor(rows, columns).columns
           /\ AllocatedFor(rows, columns).columns % Alignment = 0
<1>1. /\ kExtraRows \in Nat /\ kMinExtraColumns \in Nat
      /\ rows \in Nat /\ rows > 0 /\ columns \in Nat /\ columns > 0
      /\ UintModulus \in Nat
  BY ExtraAssumption, SizesAssumption, ModulusAssumption
<1> DEFINE r == rows + kExtraRows
           c == columns + kMinExtraColumns
           a == NextAlignedOffset(c)
<1>2. c \in Nat /\ columns <= c /\ 1 <= c /\ r \in Nat /\ rows <= r /\ 1 <= r
  BY <1>1
<1>3. r * a < UintModulus
  BY DEF SizesFit
<1>4. AllocatedFor(rows, columns) = [rows |-> Uint(r), columns |-> Uint(NextAlignedOffset(Uint(c)))]
  BY DEF AllocatedFor
<1> HIDE DEF r, c
<1>5. a \in Nat /\ a >= c /\ a % Alignment = 0
  BY <1>2, AlignedOffset
<1> HIDE DEF a
<1>6. r < UintModulus /\ a < UintModulus /\ r * a \in Nat
  <2>1. 1 * a <= r * a /\ 1 * r <= a * r /\ r * a \in Nat
    BY <1>2, <1>5, Times
  <2>2. a * r = r * a /\ 1 * a = a /\ 1 * r = r
    BY <1>2, <1>5
  <2> DEFINE product == r * a
  <2>3. a <= product /\ r <= product /\ product < UintModulus /\ product \in Nat
    BY <1>3, <2>1, <2>2
  <2> HIDE DEF product
  <2> QED BY <1>1, <1>2, <1>5, <2>1, <2>3
<1>7. Uint(c) = c /\ Uint(a) = a /\ Uint(r) = r /\ Uint(r * a) = r * a
  <2>1. c < UintModulus
    BY <1>1, <1>2, <1>5, <1>6
  <2> QED BY <1>2, <1>3, <1>5, <1>6, <2>1, UintFits
<1>8. AllocatedFor(rows, columns).rows = r /\ AllocatedFor(rows, columns).columns = a
  BY <1>4, <1>7 DEF a
<1>9. BlockSize(AllocatedFor(rows, columns)) = r * a
  BY <1>7, <1>8 DEF BlockSize
<1>10. r \in Uints /\ a \in Uints
  BY <1>2, <1>5, <1>6, UintFits
<1> QED BY <1>1, <1>2, <1>5, <1>8, <1>9, <1>10

-----------------------------------------------------------------------------
(* Blocks *)

LEMMA BlockIsNotNull ==
    ASSUME NEW data, NEW values \in SUBSET (Cells \cup {ZERO, FILLED, JUNK}), IsBlock(data, values)
    PROVE  data # NULL
BY NullAssumption DEF IsBlock

LEMMA Allocated ==
    ASSUME NEW size \in BlockSizes, NEW block \in Allocate(size), NEW values, JUNK \in values
    PROVE  /\ block = NULL \/ block = Uninitialized(size)
           /\ block # NULL => IsBlock(block, values) /\ DOMAIN block = Bytes(size)
BY DEF Allocate, Uninitialized, IsBlock

\* The bytes of a block have numbers that do not wrap.
LEMMA BlockDoesNotWrap ==
    ASSUME NEW data, NEW values, IsBlock(data, values), NEW i \in DOMAIN data
    PROVE  Uint(i) = i
<1>1. PICK size \in BlockSizes : DOMAIN data = Bytes(size)
  BY DEF IsBlock
<1>2. size \in Uints
  <2>1. kMaxPacketLengthFieldBytes \in Nat
    BY DEF kMaxPacketLengthFieldBytes
  <2>2. \A n \in Sizes : n \in Nat /\ n \in Uints
    BY SizesAssumption DEF Uints
  <2>3. ASSUME NEW n \in Sizes
        PROVE  Uint(kMaxPacketLengthFieldBytes + n) \in Uints
    BY <2>1, <2>2, UintFits
  <2>4. ASSUME NEW rows \in Dimensions, NEW columns \in Dimensions
        PROVE  BlockSize(AllocatedFor(rows, columns)) \in Uints
    <3>1. kExtraRows + rows \in Nat /\ kMinExtraColumns + columns \in Nat
      BY SizesAssumption, ExtraAssumption
    <3> DEFINE allocated == AllocatedFor(rows, columns)
    <3>2. allocated.rows \in Nat
      BY SizesAssumption, ExtraAssumption, UintFits DEF AllocatedFor
    <3>3. Uint(columns + kMinExtraColumns) \in Nat
      BY SizesAssumption, ExtraAssumption, UintFits
    <3>4. NextAlignedOffset(Uint(columns + kMinExtraColumns)) \in Nat
      BY <3>3, AlignedOffset
    <3>5. allocated.columns \in Nat
      BY <3>4, UintFits DEF AllocatedFor
    <3> HIDE DEF allocated
    <3>6. allocated.rows * allocated.columns \in Nat
      BY <3>2, <3>5
    <3> QED BY <3>6, UintFits DEF BlockSize, allocated
  <2> QED BY <2>2, <2>3, <2>4 DEF BlockSizes
<1>3. i \in Nat /\ i < UintModulus
  BY <1>1, <1>2, ModulusAssumption DEF Bytes, Uints
<1> QED BY <1>3, UintFits

LEMMA BlockSizesHere ==
    /\ \A size \in Sizes : size \in BlockSizes /\ size \in Nat /\ size > 0
    /\ \A size \in Sizes : Uint(kMaxPacketLengthFieldBytes + size) \in BlockSizes
    /\ \A rows, columns \in Dimensions :
        /\ BlockSize(AllocatedFor(rows, columns)) \in BlockSizes
        /\ rows \in Nat /\ rows > 0 /\ columns \in Nat /\ columns > 0
BY SizesAssumption DEF BlockSizes

-----------------------------------------------------------------------------
(* The buffer *)

\* The buffer that a call leaves, when it has memory.
LEMMA BufferHas ==
    ASSUME NEW data, NEW size \in BlockSizes, data \in [Bytes(size) -> {ZERO, FILLED, JUNK}],
           NEW used \in Nat, Bytes(used) \subseteq Bytes(size),
           buffer' = [Data |-> data, Bytes |-> used],
           \A i \in Bytes(used) : expected'[i] \in {JUNK, data[i]}
    PROVE  BufferInv'
<1>1. IsBlock(data, {ZERO, FILLED, JUNK})
  BY DEF IsBlock
<1>2. data # NULL
  BY <1>1, BlockIsNotNull
<1>3. BufferKeepsData'
  BY <1>2 DEF BufferKeepsData
<1> QED BY <1>1, <1>3 DEF BufferInv

LEMMA BufferGone == buffer' = NoBuffer => BufferInv'
<1> SUFFICES ASSUME buffer' = NoBuffer PROVE BufferInv'
  OBVIOUS
<1>1. buffer' = [Data |-> NULL, Bytes |-> 0]
  BY DEF NoBuffer
<1> QED BY <1>1 DEF BufferInv, BufferKeepsData, Bytes

LEMMA BufferSame == BufferInv /\ UNCHANGED <<buffer, expected>> => BufferInv'
BY DEF BufferInv, BufferKeepsData, IsBlock

\* The bytes that the reallocation copied are kept, the others are zeroed.
LEMMA GrowZeroPaddedInv ==
    ASSUME BufferInv, NEW size \in Sizes, GrowZeroPadded(size)
    PROVE  BufferInv'
<1> DEFINE had == buffer.Bytes
<1>1. size \in BlockSizes /\ size \in Nat /\ had \in Nat
  BY BlockSizesHere DEF BufferInv
<1>2. CASE UNCHANGED bufferState
  BY <1>2, BufferSame DEF bufferState
<1>3. ASSUME NEW block \in ZeroedRealloc(buffer.Data, size), block # NULL,
             buffer' = Padded(block, size),
             expected' = [i \in Bytes(size) |-> IF i < had THEN expected[i] ELSE ZERO]
      PROVE  BufferInv'
  <2> DEFINE data == Zeroed(block, had, size)
  <2>1. buffer.Data # NULL => IsBlock(buffer.Data, {ZERO, FILLED, JUNK})
    BY DEF BufferInv
  <2>2. block \in [Bytes(size) -> {ZERO, FILLED, JUNK}]
    BY <1>3, <2>1 DEF ZeroedRealloc, IsBlock
  <2>3. data \in [Bytes(size) -> {ZERO, FILLED, JUNK}]
    BY <2>2 DEF Zeroed
  <2>4. ASSUME NEW i \in Bytes(size)
        PROVE  expected'[i] \in {JUNK, data[i]}
    <3>1. i \in Nat /\ i < size
      BY <1>1 DEF Bytes
    <3>2. CASE i < had
      <4>1. buffer.Data # NULL /\ i \in Bytes(had)
        BY <1>1, <3>1, <3>2 DEF BufferInv, BufferKeepsData, Bytes
      <4>2. i \in DOMAIN buffer.Data /\ expected[i] \in {JUNK, buffer.Data[i]}
        BY <4>1 DEF BufferInv, BufferKeepsData
      <4>3. block[i] = buffer.Data[i]
        BY <1>3, <4>1, <4>2 DEF ZeroedRealloc
      <4>4. data[i] = block[i]
        BY <1>1, <2>2, <3>1, <3>2 DEF Zeroed
      <4> QED BY <1>3, <3>2, <4>2, <4>3, <4>4
    <3>3. CASE ~(i < had)
      <4>1. data[i] = ZERO
        BY <1>1, <2>2, <3>1, <3>3 DEF Zeroed
      <4> QED BY <1>3, <3>3, <4>1
    <3> QED BY <3>2, <3>3
  <2>5. buffer' = [Data |-> data, Bytes |-> size]
    BY <1>3 DEF Padded
  <2> HIDE DEF data
  <2> QED BY <1>1, <2>3, <2>4, <2>5, BufferHas
<1>4. \/ UNCHANGED bufferState
      \/ \E block \in ZeroedRealloc(buffer.Data, size) :
            /\ block # NULL
            /\ buffer' = Padded(block, size)
            /\ expected' = [i \in Bytes(size) |-> IF i < had THEN expected[i] ELSE ZERO]
      \/ buffer' = NoBuffer
  BY DEF GrowZeroPadded
<1> QED BY <1>2, <1>3, <1>4, BufferGone

LEMMA InitializeInv ==
    ASSUME BufferInv, NEW size \in Sizes, Initialize(size)
    PROVE  BufferInv'
<1>1. size \in BlockSizes /\ size \in Nat
  BY BlockSizesHere
<1>2. PICK block \in Realloc(size) :
        IF block = NULL THEN buffer' = NoBuffer
        ELSE buffer' = [Data |-> block, Bytes |-> size] /\ expected' = Uninitialized(size)
  BY DEF Initialize
<1>3. CASE block # NULL
  <2>1. block = Uninitialized(size)
    BY <1>2, <1>3 DEF Realloc, Allocate
  <2>2. block \in [Bytes(size) -> {ZERO, FILLED, JUNK}]
    BY <2>1 DEF Uninitialized
  <2>3. \A i \in Bytes(size) : expected'[i] \in {JUNK, block[i]}
    BY <1>2, <1>3 DEF Uninitialized
  <2> QED BY <1>1, <1>2, <1>3, <2>2, <2>3, BufferHas
<1> QED BY <1>2, <1>3, BufferGone

\* The header is never longer than the room kept for it.
LEMMA HeaderFits ==
    ASSUME NEW length \in Nat
    PROVE  /\ Len(SerializeHeader_PacketLength(length)) \in 1..kMaxPacketLengthFieldBytes
           /\ kMaxPacketLengthFieldBytes = 4
BY DEF SerializeHeader_PacketLength, kMaxPacketLengthFieldBytes

LEMMA InitializePacketInv ==
    ASSUME SizesFit, BufferInv, NEW dataBytes \in Sizes, InitializePacket(dataBytes)
    PROVE  BufferInv'
<1> DEFINE used == Len(SerializeHeader_PacketLength(dataBytes)) + dataBytes
           size == kMaxPacketLengthFieldBytes + dataBytes
<1>1. /\ size \in BlockSizes /\ size \in Nat /\ used \in Nat /\ used <= size
      /\ Uint(size) = size /\ Uint(used) = used
  <2> DEFINE header == Len(SerializeHeader_PacketLength(dataBytes))
  <2>1. dataBytes \in Nat /\ Uint(size) \in BlockSizes /\ size < UintModulus
    BY BlockSizesHere DEF SizesFit
  <2>2. header \in 1..kMaxPacketLengthFieldBytes /\ kMaxPacketLengthFieldBytes = 4
    BY <2>1, HeaderFits
  <2>3. used = header + dataBytes /\ size = kMaxPacketLengthFieldBytes + dataBytes
    OBVIOUS
  <2> HIDE DEF header, used, size
  <2>4. size \in Nat /\ used \in Nat /\ used <= size /\ used < UintModulus
    BY <2>1, <2>2, <2>3, ModulusAssumption
  <2>5. Uint(size) = size /\ Uint(used) = used
    BY <2>1, <2>4, UintFits
  <2> QED BY <2>1, <2>4, <2>5
<1>2. PICK block \in Realloc(size) :
        IF block = NULL THEN buffer' = NoBuffer
        ELSE /\ buffer' = [Data |-> [i \in DOMAIN block |-> IF i < used THEN FILLED ELSE block[i]],
                           Bytes |-> used]
             /\ expected' = [i \in Bytes(used) |-> FILLED]
  BY <1>1 DEF InitializePacket
<1> HIDE DEF used, size
<1>3. CASE block # NULL
  <2> DEFINE data == [i \in DOMAIN block |-> IF i < used THEN FILLED ELSE block[i]]
  <2>1. block = Uninitialized(size)
    BY <1>2, <1>3 DEF Realloc, Allocate
  <2>2. data \in [Bytes(size) -> {ZERO, FILLED, JUNK}]
    BY <2>1 DEF Uninitialized
  <2>3. Bytes(used) \subseteq Bytes(size)
    BY <1>1 DEF Bytes
  <2>4. \A i \in Bytes(used) : expected'[i] \in {JUNK, data[i]}
    BY <1>1, <1>2, <1>3, <2>1, <2>3 DEF Uninitialized, Bytes
  <2> HIDE DEF data
  <2>5. buffer' = [Data |-> data, Bytes |-> used]
    BY <1>2, <1>3 DEF data
  <2> QED BY <1>1, <2>2, <2>3, <2>4, <2>5, BufferHas
<1> QED BY <1>2, <1>3, BufferGone
-----------------------------------------------------------------------------
(* The matrix *)

\* What MatrixInv says of a matrix that has memory.
LEMMA MatrixHas ==
    ASSUME NEW data, NEW rows \in Dimensions \cup {0}, NEW columns \in Dimensions \cup {0},
           NEW allocated, allocated.rows \in Uints, allocated.columns \in Uints,
           allocated.columns % Alignment = 0,
           matrix' = Sized(data, rows, columns, allocated),
           IsBlock(data, Cells \cup {JUNK}),
           DOMAIN data = Bytes(allocated.rows * allocated.columns),
           rows <= allocated.rows, columns <= allocated.columns,
           ready' \in BOOLEAN, unbacked' \in BOOLEAN, written' \subseteq Cells,
           CellsKept'
    PROVE  MatrixInv'
<1>1. data # NULL
  BY BlockIsNotNull
<1>2. /\ matrix'.Data = data /\ matrix'.Rows = rows /\ matrix'.Columns = columns
      /\ matrix'.AllocatedRows = allocated.rows
      /\ matrix'.AllocatedColumns = allocated.columns
      /\ matrix' \in [Data : {matrix'.Data},
                      Rows : Dimensions \cup {0}, Columns : Dimensions \cup {0},
                      AllocatedRows : Uints, AllocatedColumns : Uints]
  BY DEF Sized
<1>3. BackedInv' /\ UnbackedInv'
  BY <1>1, <1>2 DEF BackedInv, UnbackedInv, IsBlock
<1> QED BY <1>2, <1>3 DEF MatrixInv

\* And of one that has none.
LEMMA MatrixHasNot ==
    ASSUME NEW rows \in Dimensions \cup {0}, NEW columns \in Dimensions \cup {0},
           NEW allocated, allocated.rows \in Uints, allocated.columns \in Uints,
           allocated.columns % Alignment = 0,
           matrix' = Sized(NULL, rows, columns, allocated),
           allocated.rows = 0 \/ unbacked', ready' => unbacked',
           ready' \in BOOLEAN, unbacked' \in BOOLEAN, written' = {}
    PROVE  MatrixInv'
<1>1. /\ matrix'.Data = NULL
      /\ matrix'.AllocatedRows = allocated.rows
      /\ matrix'.AllocatedColumns = allocated.columns
      /\ matrix' \in [Data : {matrix'.Data},
                      Rows : Dimensions \cup {0}, Columns : Dimensions \cup {0},
                      AllocatedRows : Uints, AllocatedColumns : Uints]
  BY DEF Sized
<1>2. BackedInv' /\ UnbackedInv'
  BY <1>1 DEF BackedInv, UnbackedInv
<1>3. CellsKept'
  BY DEF CellsKept
<1> QED BY <1>1, <1>2, <1>3 DEF MatrixInv

\* A matrix in its own fields.
Allocation == [rows |-> matrix.AllocatedRows, columns |-> matrix.AllocatedColumns]

LEMMA MatrixIs ==
    ASSUME MatrixInv
    PROVE  /\ matrix = Sized(matrix.Data, matrix.Rows, matrix.Columns, Allocation)
           /\ matrix.Rows \in Dimensions \cup {0} /\ matrix.Columns \in Dimensions \cup {0}
           /\ matrix.Rows \in Nat /\ matrix.Columns \in Nat
           /\ matrix.AllocatedRows \in Nat /\ matrix.AllocatedColumns \in Nat
           /\ matrix.AllocatedRows \in Uints /\ matrix.AllocatedColumns \in Uints
           /\ Allocation.rows = matrix.AllocatedRows
           /\ Allocation.columns = matrix.AllocatedColumns
           /\ matrix.AllocatedColumns % Alignment = 0
BY SizesAssumption DEF MatrixInv, Sized, Allocation, Uints

LEMMA MatrixSame == MatrixInv /\ UNCHANGED matrixState => MatrixInv'
BY DEF MatrixInv, BackedInv, UnbackedInv, CellsKept, InMatrix, Address, matrixState

\* FreeMatrix and a Resize that fails leave a matrix without memory, and keep
\* the sizes of one that had none.
LEMMA FreedMatrixInv ==
    ASSUME MatrixInv, matrix' = FreedMatrix, written' = {}, UNCHANGED unbacked,
           ready' \in BOOLEAN, ready' => ready /\ matrix.Data = NULL
    PROVE  MatrixInv'
<1>1. unbacked' \in BOOLEAN /\ UnbackedInv
  BY DEF MatrixInv
<1>2. CASE matrix.Data = NULL
  <2>1. matrix' = Sized(NULL, matrix.Rows, matrix.Columns, Allocation)
    BY <1>2, MatrixIs DEF FreedMatrix
  <2>2. (Allocation.rows = 0 \/ unbacked') /\ (ready' => unbacked')
    BY <1>1, <1>2, MatrixIs DEF UnbackedInv
  <2> QED BY <1>1, <2>1, <2>2, MatrixIs, MatrixHasNot
<1>3. CASE matrix.Data # NULL
  <2> DEFINE none == [rows |-> 0, columns |-> 0]
  <2>1. matrix' = Sized(NULL, matrix.Rows, matrix.Columns, none)
    BY <1>3 DEF FreedMatrix
  <2>2. /\ none.rows \in Uints /\ none.columns \in Uints
        /\ none.columns % Alignment = 0
        /\ none.rows = 0 \/ unbacked'
        /\ ready' => unbacked'
    BY <1>3, AlignmentAssumption, ModulusAssumption DEF Uints
  <2> HIDE DEF none
  <2> QED BY <1>1, <2>1, <2>2, MatrixIs, MatrixHasNot
<1> QED BY <1>2, <1>3

LEMMA InitializeMatrixInv ==
    ASSUME SizesFit, MatrixInv, NEW rows \in Dimensions, NEW columns \in Dimensions,
           InitializeMatrix(rows, columns)
    PROVE  MatrixInv'
<1> DEFINE allocated == AllocatedFor(rows, columns)
           size == BlockSize(allocated)
<1>1. rows \in Nat /\ columns \in Nat /\ size \in BlockSizes
  BY BlockSizesHere
<1>2. /\ allocated.rows \in Nat /\ allocated.columns \in Nat
      /\ allocated.rows \in Uints /\ allocated.columns \in Uints
      /\ rows <= allocated.rows /\ columns <= allocated.columns
      /\ allocated.columns % Alignment = 0
  BY <1>1, AllocatedForRoom
<1>3. PICK block \in Allocate(size) :
        /\ matrix' = Sized(block, rows, columns, allocated)
        /\ ready' = (block # NULL) /\ unbacked' = (block = NULL)
  BY DEF InitializeMatrix, Realloc
<1>4. written' = {}
  BY DEF InitializeMatrix
<1>5. size = allocated.rows * allocated.columns
  BY AllocatedForRoom
<1> HIDE DEF allocated, size
<1>6. CASE block = NULL
  <2>1. matrix' = Sized(NULL, rows, columns, allocated)
        /\ unbacked' = TRUE /\ ready' = FALSE
    BY <1>3, <1>6
  <2> QED BY <1>2, <1>4, <2>1, MatrixHasNot
<1>7. CASE block # NULL
  <2>1. IsBlock(block, Cells \cup {JUNK}) /\ DOMAIN block = Bytes(size)
    BY <1>1, <1>3, <1>7, Allocated
  <2>2. CellsKept'
    BY <1>4 DEF CellsKept
  <2>3. ready' \in BOOLEAN /\ unbacked' \in BOOLEAN
    BY <1>3
  <2> QED BY <1>2, <1>3, <1>4, <1>5, <2>1, <2>2, <2>3, MatrixHas
<1> QED BY <1>6, <1>7

LEMMA InMatrixIs ==
    ASSUME NEW rows \in Nat, NEW columns \in Nat, NEW cell \in InMatrix(rows, columns)
    PROVE  /\ cell \in Cells /\ cell = <<cell[1], cell[2]>>
           /\ cell[1] \in Nat /\ cell[1] > 0 /\ cell[1] <= rows
           /\ cell[2] \in Nat /\ cell[2] > 0 /\ cell[2] <= columns
<1>1. cell \in Cells /\ cell[1] <= rows /\ cell[2] <= columns
  BY DEF InMatrix
<1>2. cell[1] \in Dimensions /\ cell[2] \in Dimensions /\ cell = <<cell[1], cell[2]>>
  BY <1>1 DEF Cells
<1> QED BY <1>1, <1>2, SizesAssumption

LEMMA BelowBytes ==
    ASSUME NEW n \in Nat, NEW m \in Nat, NEW x \in Nat, x > 0, x <= n, n <= m
    PROVE  x - 1 \in Nat /\ x - 1 \in Bytes(m)
BY DEF Bytes

\* The address of a cell of the matrix does not wrap.
LEMMA AddressOfCell ==
    ASSUME MatrixInv, matrix.Data # NULL, NEW cell \in InMatrix(matrix.Rows, matrix.Columns)
    PROVE  LET a == (cell[1] - 1) * matrix.AllocatedColumns + (cell[2] - 1)
           IN  a \in DOMAIN matrix.Data /\ Address(matrix, cell) = a
<1> DEFINE i == cell[1] - 1
           j == cell[2] - 1
           a == i * matrix.AllocatedColumns + j
<1>1. /\ IsBlock(matrix.Data, Cells \cup {JUNK})
      /\ DOMAIN matrix.Data = Bytes(matrix.AllocatedRows * matrix.AllocatedColumns)
      /\ matrix.Rows <= matrix.AllocatedRows /\ matrix.Columns <= matrix.AllocatedColumns
  BY DEF MatrixInv, BackedInv
<1>2. i \in Bytes(matrix.AllocatedRows) /\ j \in Bytes(matrix.AllocatedColumns)
  BY <1>1, InMatrixIs, MatrixIs, BelowBytes
<1>3. Address(matrix, cell) = Uint(a)
  BY DEF Address
<1> HIDE DEF i, j
<1>4. a \in DOMAIN matrix.Data
  BY <1>1, <1>2, MatrixIs, AddressInBlock
<1>5. Uint(a) = a
  BY <1>1, <1>4, BlockDoesNotWrap
<1> QED BY <1>3, <1>4, <1>5 DEF i, j

\* Every cell the client wrote is copied to the address it has in the new block,
\* and nothing else is copied there.
LEMMA CopiedCell ==
    ASSUME MatrixInv, matrix.Data # NULL, NEW columns \in Nat, matrix.Columns <= columns,
           NEW stride \in Nat, columns <= stride, NEW rows \in Nat, matrix.Rows <= rows,
           NEW block, DOMAIN block = Bytes(rows * stride), NEW cell \in written
    PROVE  LET to == (cell[1] - 1) * stride + (cell[2] - 1)
           IN  /\ to \in DOMAIN block
               /\ CopyInto(block, RowCopies(columns, stride))[to] = cell
<1> DEFINE i == cell[1] - 1
           j == cell[2] - 1
           from == i * matrix.AllocatedColumns + j
           to == i * stride + j
           copies == RowCopies(columns, stride)
<1>1. /\ cell \in InMatrix(matrix.Rows, matrix.Columns)
      /\ from \in DOMAIN matrix.Data /\ matrix.Data[from] = cell
  <2>1. /\ cell \in InMatrix(matrix.Rows, matrix.Columns)
        /\ matrix.Data[Address(matrix, cell)] = cell
    BY DEF MatrixInv, CellsKept
  <2> QED BY <2>1, AddressOfCell
<1>2. /\ matrix.Rows \in Nat /\ matrix.Columns \in Nat /\ matrix.AllocatedColumns \in Nat
      /\ matrix.Columns <= matrix.AllocatedColumns
  BY MatrixIs DEF MatrixInv, BackedInv
<1>3. cell[1] \in Nat /\ cell[1] > 0 /\ cell[2] \in Nat /\ cell[2] > 0
      /\ cell[1] <= matrix.Rows /\ cell[2] <= matrix.Columns
  BY <1>1, SizesAssumption DEF InMatrix, Cells
<1>4. /\ i \in Nat /\ i < matrix.Rows /\ i < rows
      /\ j \in Nat /\ j < matrix.Columns /\ j < stride
  <2> DEFINE r == cell[1]
             c == cell[2]
  <2>1. /\ r \in Nat /\ r > 0 /\ r <= matrix.Rows /\ i = r - 1
        /\ c \in Nat /\ c > 0 /\ c <= matrix.Columns /\ j = c - 1
    BY <1>3
  <2> HIDE DEF r, c, i, j
  <2> QED BY <1>2, <2>1
<1> HIDE DEF i, j
<1>11. /\ i \in Nat /\ i \in Bytes(matrix.Rows) /\ i \in Bytes(rows)
       /\ j \in Bytes(matrix.Columns) /\ j \in Bytes(stride)
  BY <1>2, <1>4 DEF Bytes
<1>5. to \in DOMAIN block
  BY <1>11, AddressInBlock
<1>6. copies = {<<k * matrix.AllocatedColumns + l, k * stride + l>> :
                    k \in Bytes(matrix.Rows), l \in Bytes(matrix.Columns)}
  <2> DEFINE width == IF columns < matrix.Columns THEN columns ELSE matrix.Columns
  <2>1. width = matrix.Columns
    BY <1>2
  <2>2. copies = {<<k * matrix.AllocatedColumns + l, k * stride + l>> :
                      k \in Bytes(matrix.Rows), l \in Bytes(width)}
    BY DEF RowCopies
  <2> HIDE DEF width, copies
  <2> QED BY <2>1, <2>2
<1> HIDE DEF copies
<1>7. <<from, to>> \in copies
  BY <1>11, <1>6
<1>8. ASSUME NEW c \in copies, c[2] = to
      PROVE  c[1] = from
  <2>1. PICK k \in Bytes(matrix.Rows), l \in Bytes(matrix.Columns) :
          c = <<k * matrix.AllocatedColumns + l, k * stride + l>>
    BY <1>6, <1>8
  <2>2. k \in Nat /\ l \in Bytes(stride) /\ At(k, stride, l) = At(i, stride, j)
    BY <1>2, <1>8, <2>1 DEF Bytes, At
  <2>3. k = i /\ l = j
    <3>1. i \in Nat /\ j \in Bytes(stride)
      BY <1>11
    <3> HIDE DEF from, to
    <3> QED BY <2>2, <3>1, AddressInjective
  <2> QED BY <2>1, <2>3
<1> HIDE DEF from, to
<1>9. (CHOOSE c \in copies : c[2] = to)[1] = from /\ \E c \in copies : c[2] = to
  BY <1>7, <1>8
<1>10. CopyInto(block, copies)[to] = cell
  BY <1>1, <1>5, <1>9 DEF CopyInto
<1> QED BY <1>5, <1>10 DEF to, i, j, copies

LEMMA CopyIntoIsBlock ==
    ASSUME MatrixInv, NEW block, IsBlock(block, Cells \cup {JUNK}), NEW copies,
           copies # {} => matrix.Data # NULL
    PROVE  /\ IsBlock(CopyInto(block, copies), Cells \cup {JUNK})
           /\ DOMAIN CopyInto(block, copies) = DOMAIN block
<1> DEFINE data == CopyInto(block, copies)
<1>1. PICK size \in BlockSizes : block \in [Bytes(size) -> Cells \cup {JUNK}]
  BY DEF IsBlock
<1>2. ASSUME NEW from, from \in DOMAIN matrix.Data, copies # {}
      PROVE  matrix.Data[from] \in Cells \cup {JUNK}
  BY <1>2 DEF MatrixInv, BackedInv, IsBlock
<1>3. ASSUME NEW i \in DOMAIN block
      PROVE  data[i] \in Cells \cup {JUNK}
  <2>1. CASE \E c \in copies : c[2] = i
    <3>1. copies # {}
      BY <2>1
    <3>2. PICK from : data[i] = IF from \in DOMAIN matrix.Data THEN matrix.Data[from] ELSE JUNK
      BY <2>1, <1>3 DEF CopyInto
    <3> QED BY <1>2, <3>1, <3>2
  <2>2. CASE ~\E c \in copies : c[2] = i
    BY <1>1, <1>3, <2>2 DEF CopyInto
  <2> QED BY <2>1, <2>2
<1>4. data = [i \in DOMAIN block |-> data[i]] /\ DOMAIN block = Bytes(size)
  BY <1>1 DEF CopyInto
<1> HIDE DEF data
<1>5. data \in [Bytes(size) -> Cells \cup {JUNK}] /\ DOMAIN data = DOMAIN block
  BY <1>3, <1>4
<1> QED BY <1>5 DEF IsBlock, data

LEMMA InMatrixGrows ==
    ASSUME NEW rows \in Nat, NEW columns \in Nat, NEW more \in Nat, NEW wider \in Nat,
           rows <= more, columns <= wider, NEW cell \in InMatrix(rows, columns)
    PROVE  cell \in InMatrix(more, wider)
<1>1. cell \in Cells /\ cell[1] \in Nat /\ cell[2] \in Nat
      /\ cell[1] <= rows /\ cell[2] <= columns
  BY InMatrixIs
<1>2. cell[1] <= more /\ cell[2] <= wider
  BY <1>1
<1> QED BY <1>1, <1>2 DEF InMatrix

LEMMA ResizeInv ==
    ASSUME SizesFit, MatrixInv, NEW rows \in Dimensions, NEW columns \in Dimensions,
           Resize(rows, columns)
    PROVE  MatrixInv'
<1> DEFINE allocated == AllocatedFor(rows, columns)
           size == BlockSize(allocated)
           copies == IF matrix.Data = NULL THEN {} ELSE RowCopies(columns, allocated.columns)
<1>1. /\ rows \in Nat /\ columns \in Nat /\ size \in BlockSizes /\ rows > 0
      /\ rows >= matrix.Rows /\ columns >= matrix.Columns
  BY BlockSizesHere DEF Resize
<1>2. /\ allocated.rows \in Nat /\ allocated.columns \in Nat
      /\ allocated.rows \in Uints /\ allocated.columns \in Uints
      /\ rows <= allocated.rows /\ columns <= allocated.columns
      /\ allocated.columns % Alignment = 0
  BY <1>1, AllocatedForRoom
<1>3. size = allocated.rows * allocated.columns
  BY AllocatedForRoom
<1>4. /\ written \subseteq Cells /\ ready \in BOOLEAN /\ unbacked \in BOOLEAN
      /\ BackedInv /\ UnbackedInv /\ CellsKept
  BY DEF MatrixInv
<1>5. ASSUME NEW cell \in Cells, cell \in InMatrix(matrix.Rows, matrix.Columns)
      PROVE  cell \in InMatrix(rows, columns)
  BY <1>1, <1>5, MatrixIs, InMatrixGrows
<1>6. CASE rows <= matrix.AllocatedRows /\ columns <= matrix.AllocatedColumns
  <2>1. /\ matrix' = [matrix EXCEPT !.Rows = rows, !.Columns = columns]
        /\ ready' = TRUE /\ written' = written /\ unbacked' = unbacked
    BY <1>6 DEF Resize
  <2>2. matrix' = Sized(matrix.Data, rows, columns, Allocation)
    BY <2>1, MatrixIs DEF Sized
  <2>3. CASE matrix.Data = NULL
    <3>1. unbacked' /\ written' = {}
      BY <1>1, <1>4, <1>6, <2>1, <2>3, MatrixIs DEF UnbackedInv
    <3>2. matrix' = Sized(NULL, rows, columns, Allocation)
      BY <2>2, <2>3
    <3> QED BY <1>4, <2>1, <3>1, <3>2, MatrixIs, MatrixHasNot
  <2>4. CASE matrix.Data # NULL
    <3>1. CellsKept'
      <4>1. /\ matrix'.Rows = rows /\ matrix'.Columns = columns /\ matrix'.Data = matrix.Data
            /\ matrix'.AllocatedColumns = matrix.AllocatedColumns
        BY <2>2, MatrixIs DEF Sized
      <4> QED BY <1>4, <1>5, <2>1, <4>1 DEF CellsKept, Address
    <3>2. IsBlock(matrix.Data, Cells \cup {JUNK})
          /\ DOMAIN matrix.Data = Bytes(Allocation.rows * Allocation.columns)
      BY <1>4, <2>4, MatrixIs DEF BackedInv
    <3> QED BY <1>4, <1>6, <2>1, <2>2, <3>1, <3>2, MatrixIs, MatrixHas
  <2> QED BY <2>3, <2>4
<1>7. CASE ~(rows <= matrix.AllocatedRows /\ columns <= matrix.AllocatedColumns)
  <2>1. PICK block \in Allocate(size) :
          IF block = NULL
          THEN /\ matrix' = FreedMatrix /\ ready' = FALSE /\ written' = {}
               /\ UNCHANGED unbacked
          ELSE /\ matrix' = Sized(CopyInto(block, copies), rows, columns, allocated)
               /\ ready' = TRUE /\ unbacked' = FALSE
               /\ UNCHANGED written
    BY <1>7 DEF Resize, MoveMatrix
  <2> HIDE DEF size, allocated
  <2>2. CASE block = NULL
    BY <2>1, <2>2, FreedMatrixInv
  <2>3. CASE block # NULL
    <3> DEFINE data == CopyInto(block, copies)
    <3>1. IsBlock(block, Cells \cup {JUNK}) /\ DOMAIN block = Bytes(size)
      BY <1>1, <2>1, <2>3, Allocated
    <3>2. IsBlock(data, Cells \cup {JUNK}) /\ DOMAIN data = Bytes(size)
      <4>1. copies # {} => matrix.Data # NULL
        OBVIOUS
      <4> HIDE DEF copies
      <4> QED BY <3>1, <4>1, CopyIntoIsBlock
    <3> HIDE DEF data
    <3>3. CellsKept'
      <4>1. SUFFICES ASSUME NEW cell \in written
                     PROVE  LET to == Uint((cell[1] - 1) * allocated.columns + (cell[2] - 1))
                            IN  to \in DOMAIN data /\ data[to] = cell
        <5>1. /\ matrix'.Rows = rows /\ matrix'.Columns = columns /\ matrix'.Data = data
              /\ matrix'.AllocatedColumns = allocated.columns /\ written' = written
          BY <2>1, <2>3 DEF Sized, data
        <5> QED BY <1>4, <1>5, <4>1, <5>1 DEF CellsKept, Address
      <4>2. matrix.Data # NULL
        BY <1>4 DEF UnbackedInv
      <4>3. copies = RowCopies(columns, allocated.columns)
        BY <4>2
      <4>4. matrix.Columns <= columns /\ matrix.Rows <= allocated.rows
        BY <1>1, <1>2, MatrixIs
      <4>5. LET to == (cell[1] - 1) * allocated.columns + (cell[2] - 1)
            IN  to \in DOMAIN data /\ data[to] = cell
        BY <1>1, <1>2, <1>3, <3>1, <3>2, <4>2, <4>3, <4>4, CopiedCell DEF data
      <4> QED BY <3>2, <4>5, BlockDoesNotWrap
    <3>4. ready' \in BOOLEAN /\ unbacked' \in BOOLEAN /\ written' \subseteq Cells
          /\ matrix' = Sized(data, rows, columns, allocated)
      BY <1>4, <2>1, <2>3 DEF data
    <3> QED BY <1>2, <1>3, <3>2, <3>3, <3>4, MatrixHas
  <2> QED BY <2>2, <2>3
<1> QED BY <1>6, <1>7
LEMMA ClearMatrixInv == MatrixInv /\ ClearMatrix => MatrixInv'
<1> SUFFICES ASSUME MatrixInv, ClearMatrix PROVE MatrixInv'
  OBVIOUS
<1>1. /\ matrix' = Sized(matrix.Data, 0, 0, Allocation)
      /\ ready' = ready /\ unbacked' = unbacked /\ written' = {}
      /\ ready \in BOOLEAN /\ unbacked \in BOOLEAN
      /\ BackedInv /\ UnbackedInv
  BY MatrixIs DEF ClearMatrix, Sized, MatrixInv
<1>2. CellsKept'
  BY <1>1 DEF CellsKept
<1>3. CASE matrix.Data = NULL
  <2>1. /\ matrix' = Sized(NULL, 0, 0, Allocation)
        /\ (Allocation.rows = 0 \/ unbacked') /\ (ready' => unbacked')
    BY <1>1, <1>3, MatrixIs DEF UnbackedInv
  <2> QED BY <1>1, <2>1, MatrixIs, MatrixHasNot
<1>4. CASE matrix.Data # NULL
  <2>1. /\ IsBlock(matrix.Data, Cells \cup {JUNK})
        /\ DOMAIN matrix.Data = Bytes(Allocation.rows * Allocation.columns)
        /\ 0 <= Allocation.rows /\ 0 <= Allocation.columns
    BY <1>1, <1>4, MatrixIs DEF BackedInv
  <2> QED BY <1>1, <1>2, <2>1, MatrixIs, MatrixHas
<1> QED BY <1>3, <1>4

LEMMA FreeMatrixInv == MatrixInv /\ FreeMatrix => MatrixInv'
<1> SUFFICES ASSUME MatrixInv, FreeMatrix PROVE MatrixInv'
  OBVIOUS
<1>1. /\ matrix' = FreedMatrix /\ written' = {} /\ UNCHANGED unbacked
      /\ ready' = (ready /\ matrix.Data = NULL) /\ ready \in BOOLEAN
  BY DEF FreeMatrix, MatrixInv
<1>2. ready' \in BOOLEAN /\ (ready' => ready /\ matrix.Data = NULL)
  BY <1>1
<1> QED BY <1>1, <1>2, FreedMatrixInv

\* The addresses of two cells of the matrix differ, so each keeps its own value.
LEMMA WriteCellsInv == MatrixInv /\ WriteCells => MatrixInv'
<1> SUFFICES ASSUME MatrixInv, WriteCells PROVE MatrixInv'
  OBVIOUS
<1> DEFINE cells == InMatrix(matrix.Rows, matrix.Columns)
           data == [i \in DOMAIN matrix.Data |->
               IF \E cell \in cells : Address(matrix, cell) = i
               THEN CHOOSE cell \in cells : Address(matrix, cell) = i ELSE matrix.Data[i]]
<1>1. /\ matrix.Data # NULL /\ matrix' = [matrix EXCEPT !.Data = data] /\ written' = cells
      /\ ready' = ready /\ unbacked' = unbacked
      /\ ready \in BOOLEAN /\ unbacked \in BOOLEAN /\ BackedInv
  BY DEF WriteCells, MatrixInv
<1>2. matrix' = Sized(data, matrix.Rows, matrix.Columns, Allocation)
  BY <1>1, MatrixIs DEF Sized
<1>3. /\ IsBlock(matrix.Data, Cells \cup {JUNK})
      /\ DOMAIN matrix.Data = Bytes(matrix.AllocatedRows * matrix.AllocatedColumns)
      /\ matrix.Rows <= matrix.AllocatedRows /\ matrix.Columns <= matrix.AllocatedColumns
  BY <1>1 DEF BackedInv
<1>4. cells \subseteq Cells
  BY DEF InMatrix
<1>5. IsBlock(data, Cells \cup {JUNK}) /\ DOMAIN data = DOMAIN matrix.Data
  <2>1. PICK size \in BlockSizes : matrix.Data \in [Bytes(size) -> Cells \cup {JUNK}]
    BY <1>3 DEF IsBlock
  <2>2. ASSUME NEW i \in DOMAIN matrix.Data
        PROVE  data[i] \in Cells \cup {JUNK}
    <3>1. CASE \E cell \in cells : Address(matrix, cell) = i
      <4>1. (CHOOSE cell \in cells : Address(matrix, cell) = i) \in cells
        BY <3>1
      <4> HIDE DEF cells
      <4> QED BY <1>4, <2>2, <3>1, <4>1
    <3>2. CASE ~\E cell \in cells : Address(matrix, cell) = i
      BY <2>1, <2>2, <3>2
    <3> QED BY <3>1, <3>2
  <2>3. data = [i \in Bytes(size) |-> data[i]]
    BY <2>1
  <2> HIDE DEF data
  <2> QED BY <2>1, <2>2, <2>3 DEF IsBlock
<1>6. ASSUME NEW cell \in cells
      PROVE  /\ cell[1] - 1 \in Nat /\ cell[1] - 1 \in Bytes(matrix.AllocatedRows)
             /\ cell[2] - 1 \in Bytes(matrix.AllocatedColumns)
             /\ cell = <<cell[1], cell[2]>> /\ cell[1] \in Nat /\ cell[2] \in Nat
  <2>1. /\ cell[1] \in Nat /\ cell[1] > 0 /\ cell[2] \in Nat /\ cell[2] > 0
        /\ cell[1] <= matrix.Rows /\ cell[2] <= matrix.Columns
        /\ cell = <<cell[1], cell[2]>>
    BY <1>6, InMatrixIs, MatrixIs
  <2> HIDE DEF data, cells
  <2> QED BY <1>3, <2>1, MatrixIs, BelowBytes
<1> HIDE DEF cells
<1>7. ASSUME NEW cell \in cells, NEW other \in cells,
             Address(matrix, cell) = Address(matrix, other)
      PROVE  cell = other
  <2> DEFINE i == cell[1] - 1
             j == cell[2] - 1
             k == other[1] - 1
             l == other[2] - 1
  <2>1. /\ i \in Nat /\ j \in Bytes(matrix.AllocatedColumns)
        /\ k \in Nat /\ l \in Bytes(matrix.AllocatedColumns)
        /\ matrix.AllocatedColumns \in Nat
    BY <1>6, MatrixIs
  <2>2. At(i, matrix.AllocatedColumns, j) = At(k, matrix.AllocatedColumns, l)
    BY <1>1, <1>7, AddressOfCell DEF At, cells
  <2>3. i = k /\ j = l
    <3> HIDE DEF i, j, k, l
    <3> QED BY <2>1, <2>2, AddressInjective
  <2>4. cell[1] = other[1] /\ cell[2] = other[2]
    BY <1>6, <2>3
  <2> QED BY <1>6, <2>4
<1>8. ASSUME NEW cell \in cells
      PROVE  Address(matrix, cell) \in DOMAIN matrix.Data /\ data[Address(matrix, cell)] = cell
  <2> DEFINE a == Address(matrix, cell)
  <2>1. a \in DOMAIN matrix.Data
    BY <1>1, AddressOfCell DEF cells
  <2>2. (CHOOSE other \in cells : Address(matrix, other) = a) = cell
    BY <1>7
  <2> HIDE DEF a
  <2>3. \E other \in cells : Address(matrix, other) = a
    BY DEF a
  <2> QED BY <2>1, <2>2, <2>3 DEF a
<1>9. CellsKept'
  <2>1. /\ matrix'.Rows = matrix.Rows /\ matrix'.Columns = matrix.Columns
        /\ matrix'.Data = data /\ matrix'.AllocatedColumns = matrix.AllocatedColumns
    BY <1>2, MatrixIs DEF Sized
  <2> HIDE DEF data
  <2> QED BY <1>1, <1>5, <1>8, <2>1 DEF CellsKept, Address, cells
<1> HIDE DEF data
<1> QED BY <1>1, <1>2, <1>3, <1>4, <1>5, <1>9, MatrixIs, MatrixHas

-----------------------------------------------------------------------------
(* The invariant, and what follows *)

LEMMA InitInv == Init => IInv
<1> SUFFICES ASSUME Init PROVE IInv
  OBVIOUS
<1>1. BufferInv
  BY DEF Init, NoBuffer, BufferInv, BufferKeepsData, Bytes
<1>2. MatrixInv
  <2>1. 0 % Alignment = 0
    BY AlignmentAssumption
  <2>2. /\ matrix.Data = NULL /\ matrix.AllocatedRows = 0 /\ matrix.AllocatedColumns = 0
        /\ matrix \in [Data : {matrix.Data},
                       Rows : Dimensions \cup {0}, Columns : Dimensions \cup {0},
                       AllocatedRows : Uints, AllocatedColumns : Uints]
    BY ModulusAssumption DEF Init, Sized, Uints
  <2>3. written = {} /\ ready = FALSE /\ unbacked = FALSE
    BY DEF Init
  <2> QED BY <2>1, <2>2, <2>3 DEF MatrixInv, BackedInv, UnbackedInv, CellsKept
<1> QED BY <1>1, <1>2 DEF Init, IInv

LEMMA StepInv ==
    ASSUME SizesFit, IInv, [Next]_vars
    PROVE  IInv'
<1>1. BufferInv /\ MatrixInv /\ crashed \in BOOLEAN
  BY DEF IInv
<1>2. ASSUME UNCHANGED matrixState, BufferInv', crashed' \in BOOLEAN
      PROVE  IInv'
  BY <1>1, <1>2, MatrixSame DEF IInv
<1>3. ASSUME UNCHANGED bufferState, MatrixInv'
      PROVE  IInv'
  BY <1>1, <1>3, BufferSame DEF IInv, bufferState
<1>4. ASSUME NEW size \in Sizes, GrowZeroPadded(size)
      PROVE  IInv'
  <2>1. UNCHANGED matrixState /\ crashed' \in BOOLEAN
    BY <1>1, <1>4 DEF GrowZeroPadded, bufferState
  <2> QED BY <1>1, <1>2, <1>4, <2>1, GrowZeroPaddedInv
<1>5. ASSUME NEW size \in Sizes, Initialize(size)
      PROVE  IInv'
  <2>1. UNCHANGED matrixState /\ crashed' = crashed
    BY <1>5 DEF Initialize
  <2> QED BY <1>1, <1>2, <1>5, <2>1, InitializeInv
<1>6. ASSUME NEW size \in Sizes, InitializePacket(size)
      PROVE  IInv'
  <2>1. UNCHANGED matrixState /\ crashed' = crashed
    BY <1>6 DEF InitializePacket
  <2> QED BY <1>1, <1>2, <1>6, <2>1, InitializePacketInv
<1>7. CASE FreeBuffer
  <2>1. UNCHANGED matrixState /\ crashed' = crashed /\ buffer' = NoBuffer
    BY <1>7 DEF FreeBuffer
  <2> QED BY <1>1, <1>2, <2>1, BufferGone
<1>8. ASSUME NEW rows \in Dimensions, NEW columns \in Dimensions,
             InitializeMatrix(rows, columns)
      PROVE  IInv'
  BY <1>1, <1>3, <1>8, InitializeMatrixInv DEF InitializeMatrix
<1>9. ASSUME NEW rows \in Dimensions, NEW columns \in Dimensions, Resize(rows, columns)
      PROVE  IInv'
  BY <1>1, <1>3, <1>9, ResizeInv DEF Resize
<1>10. CASE ClearMatrix
  BY <1>1, <1>3, <1>10, ClearMatrixInv DEF ClearMatrix
<1>11. CASE FreeMatrix
  BY <1>1, <1>3, <1>11, FreeMatrixInv DEF FreeMatrix
<1>12. CASE WriteCells
  BY <1>1, <1>3, <1>12, WriteCellsInv DEF WriteCells
<1>13. CASE UNCHANGED vars
  BY <1>1, <1>13, MatrixSame, BufferSame DEF IInv, vars, bufferState
<1> QED BY <1>4, <1>5, <1>6, <1>7, <1>8, <1>9, <1>10, <1>11, <1>12, <1>13
        DEF Next, BufferCall, MatrixCall

\* The invariant holds whatever is called, and whichever allocations fail, for
\* sizes whose sums and products fit `unsigned`.
THEOREM Invariance == ASSUME SizesFit PROVE Spec => []IInv
<1>1. IInv /\ [Next]_vars => IInv'
  BY StepInv
<1> QED BY InitInv, <1>1, PTL DEF Spec

\* The fields keep their types, and the rows of the matrix stay aligned.
THEOREM TypeCorrect == ASSUME SizesFit PROVE Spec => []TypeOK
<1>1. IInv => TypeOK
  <2> SUFFICES ASSUME IInv PROVE TypeOK
    OBVIOUS
  <2>1. buffer.Data # NULL =>
          \A i \in DOMAIN buffer.Data : buffer.Data[i] \in {ZERO, JUNK, FILLED}
    BY DEF IInv, BufferInv, IsBlock
  <2>2. matrix.Data # NULL =>
          \A i \in DOMAIN matrix.Data : matrix.Data[i] \in Cells \cup {JUNK}
    BY DEF IInv, MatrixInv, BackedInv, IsBlock
  <2>3. /\ matrix.Rows \in Dimensions \cup {0} /\ matrix.Columns \in Dimensions \cup {0}
        /\ matrix.AllocatedRows \in Uints /\ matrix.AllocatedColumns \in Uints
        /\ matrix.AllocatedColumns % Alignment = 0
    BY MatrixIs DEF IInv
  <2> QED BY <2>1, <2>2, <2>3 DEF TypeOK, IInv, MatrixInv
<1> QED BY <1>1, Invariance, PTL

\* The buffer keeps the bytes the client knows of: over growth, over blocks that
\* are larger than Bytes, and over a copy that reads behind the old block.
THEOREM BufferContents == ASSUME SizesFit PROVE Spec => []BufferKeepsData
<1>1. IInv => BufferKeepsData
  BY DEF IInv, BufferInv
<1> QED BY <1>1, Invariance, PTL

\* A matrix with memory has all the cells of its allocated sizes, and one that
\* was sized with success has memory unless an Initialize had failed.
THEOREM MatrixBacked == ASSUME SizesFit PROVE Spec => []MatrixFits
<1>1. IInv => MatrixFits
  <2> SUFFICES ASSUME IInv PROVE MatrixFits
    OBVIOUS
  <2>1. MatrixInv /\ BackedInv /\ UnbackedInv
    BY DEF IInv, MatrixInv
  <2> DEFINE n == matrix.AllocatedRows * matrix.AllocatedColumns
  <2>2. n \in Nat
    BY <2>1, MatrixIs
  <2>3. matrix.Data # NULL => SizeOf(matrix.Data) = n
    <3> HIDE DEF n
    <3> QED BY <2>1, <2>2, SizeOfBlock DEF BackedInv, n
  <2>4. matrix.Data # NULL => n <= SizeOf(matrix.Data)
    <3> HIDE DEF n
    <3> QED BY <2>2, <2>3
  <2> QED BY <2>1, <2>4 DEF MatrixFits, BackedInv, UnbackedInv
<1> QED BY <1>1, Invariance, PTL

\* What the client wrote in a cell stays there, whether the matrix grows in
\* place or moves to a block with longer rows.
THEOREM MatrixContents == ASSUME SizesFit PROVE Spec => []CellsKept
<1>1. IInv => CellsKept
  BY DEF IInv, MatrixInv
<1> QED BY <1>1, Invariance, PTL
=============================================================================
