-------------------------- MODULE PacketFields_proofs --------------------------
(***************************************************************************)
(* The fields of a packet read back what was written in them: every value  *)
(* of every field on its own, whatever bytes are around it, and then every *)
(* field of a packet of any number of them, read from its two ends in any  *)
(* order.  A field that is cut short is refused, whatever memory lies      *)
(* behind it.  The run of PacketFields checks the values at the changes of *)
(* width, in packets of two fields.                                        *)
(*                                                                         *)
(* Column numbers, which such fields carry, stand for places in an         *)
(* unbounded stream: for places that are near enough, their arithmetic is  *)
(* that of the places, also across the wrap.  And what the values of       *)
(* columns and rows are worth as factors: distinct in a window, but not    *)
(* across the wrap.                                                        *)
(***************************************************************************)
EXTENDS PacketFields, SequenceTheorems, TLAPS

-----------------------------------------------------------------------------
(* The arithmetic and the values of columns *)

\* The remainder modulo 2^32 is lost on the column period, which divides it.
LEMMA UnsignedColumn ==
    ASSUME NEW n \in Int
    PROVE  Unsigned(n) % kColumnPeriod = n % kColumnPeriod
    BY SMT DEF Unsigned, kColumnPeriod

\* The difference of the columns of two places is the distance of the places,
\* when the first is not the earlier and no period or more away
\* (SiameseCommon.h:124).
THEOREM DeltaIsDistance ==
    ASSUME NEW x \in Nat, NEW y \in Nat, y <= x, x - y < kColumnPeriod
    PROVE  SubtractColumns(ColumnOf(x), ColumnOf(y)) = x - y
    BY SMT, UnsignedColumn DEF SubtractColumns, ColumnOf, kColumnPeriod

\* The sign of a difference of columns tells which place is the earlier, for
\* places within half a period (SiameseCommon.h:118).
THEOREM DeltaSignIsOrder ==
    ASSUME NEW x \in Nat, NEW y \in Nat,
           x - y < kColumnPeriod \div 2, y - x <= kColumnPeriod \div 2
    PROVE  IsColumnDeltaNegative(SubtractColumns(ColumnOf(x), ColumnOf(y))) <=> x < y
    BY SMT, UnsignedColumn DEF IsColumnDeltaNegative, SubtractColumns, ColumnOf, kColumnPeriod

\* Adding to a column moves that far in the stream (SiameseCommon.h:130, 136).
THEOREM SumIsPlace ==
    ASSUME NEW x \in Nat, NEW distance \in Nat
    PROVE  /\ AddColumns(ColumnOf(x), ColumnOf(distance)) = ColumnOf(x + distance)
           /\ IncrementColumn1(ColumnOf(x)) = ColumnOf(x + 1)
    BY SMT, UnsignedColumn DEF AddColumns, IncrementColumn1, ColumnOf, kColumnPeriod

\* Adding undoes subtracting, whichever column is the larger number.
THEOREM AddUndoesSubtract ==
    ASSUME NEW a \in Column, NEW b \in Column
    PROVE  AddColumns(b, SubtractColumns(a, b)) = a
<1> DEFINE delta == SubtractColumns(a, b)
<1>1. a - b \in Int /\ a \in Nat /\ a < 4194304 /\ b \in Nat /\ b < 4194304
    BY SMT DEF Column, kColumnPeriod
<1>2. delta = (a - b) % 4194304
    BY SMT, <1>1, UnsignedColumn DEF SubtractColumns, kColumnPeriod
<1>3. delta \in Nat /\ delta = (IF a < b THEN a - b + 4194304 ELSE a - b)
    BY SMT, <1>1, <1>2
<1> HIDE DEF delta
<1>4. AddColumns(b, delta) = (b + delta) % 4194304
    BY SMT, <1>1, <1>3, UnsignedColumn DEF AddColumns, kColumnPeriod
<1>5. AddColumns(b, delta) = a
    BY SMT, <1>1, <1>3, <1>4
<1> QED BY <1>5 DEF delta

\* No product of a column number and 199 leaves 32 bits.
LEMMA ColumnValue ==
    ASSUME NEW c \in Column
    PROVE  GetColumnValue(c) = 3 + ((c * 199) % 253)
<1>1. c \in Nat /\ c < 4194304
    BY SMT DEF Column, kColumnPeriod
<1>2. Unsigned(c * 199) = c * 199
    BY SMT, <1>1 DEF Unsigned, kColumnPeriod
<1> QED BY SMT, <1>1, <1>2 DEF GetColumnValue, kColumnValuePeriod

\* Columns less than a value period apart have distinct values, none of which
\* is 0, 1 or 2 ("visits each value exactly once", SiameseCommon.h:103).
THEOREM ColumnValuesDistinct ==
    ASSUME NEW c \in Column, NEW d \in Column, c < d, d - c < kColumnValuePeriod
    PROVE  GetColumnValue(c) \in 3..255 /\ GetColumnValue(c) # GetColumnValue(d)
<1>1. GetColumnValue(c) = 3 + ((c * 199) % 253) /\ GetColumnValue(d) = 3 + ((d * 199) % 253)
    BY ColumnValue
<1>2. c \in Nat /\ d \in Nat /\ d - c \in 1..252
    BY SMT DEF Column, kColumnPeriod, kColumnValuePeriod
<1>3. GetColumnValue(c) \in 3..255
    BY SMT, <1>1, <1>2
<1>4. (c * 199) % 253 # (d * 199) % 253
    <2> SUFFICES ASSUME (c * 199) % 253 = (d * 199) % 253 PROVE FALSE
        OBVIOUS
    <2> DEFINE e == d - c
               m == ((d * 199) \div 253) - ((c * 199) \div 253)
    <2>1. e * 199 = m * 253 /\ m \in Int
        BY SMT, <1>2
    <2> HIDE DEF m
    <2>2. e = (89 * m - 70 * e) * 253
        BY SMT, <1>2, <2>1
    <2> QED BY SMT, <1>2, <2>1, <2>2
<1> QED BY SMT, <1>1, <1>2, <1>3, <1>4

\* Rows have distinct values, none of which is 0 (SiameseCommon.h:107).
THEOREM RowValuesDistinct ==
    ASSUME NEW r \in Row, NEW s \in Row, r # s
    PROVE  GetRowValue(r) \in 1..255 /\ GetRowValue(r) # GetRowValue(s)
    BY SMT DEF GetRowValue, Unsigned, Row, kRowPeriod, kRowValuePeriod, kColumnPeriod

\* But the value period does not divide the column period: a column before the
\* wrap has the value of the one 70 columns later, behind it (SiameseCommon.h:104).
THEOREM ColumnValuesMeetAtTheWrap ==
    ASSUME NEW c \in Column, c >= kColumnPeriod - 70
    PROVE  GetColumnValue(AddColumns(c, 70)) = GetColumnValue(c)
<1>1. c \in Nat /\ c < 4194304 /\ c >= 4194234
    BY SMT DEF Column, kColumnPeriod
<1>2. AddColumns(c, 70) = c - 4194234
    BY SMT, <1>1, UnsignedColumn DEF AddColumns, kColumnPeriod
<1>3. AddColumns(c, 70) \in Column
    BY SMT, <1>1, <1>2 DEF Column, kColumnPeriod
<1>4. ((c - 4194234) * 199) % 253 = (c * 199) % 253
    BY SMT, <1>1
<1> QED BY <1>2, <1>3, <1>4, ColumnValue

-----------------------------------------------------------------------------
(* Variable-length fields: as headers, and as footers *)

\* What a reader that was given `space` bytes of the field `s` returns, when it
\* is right: the value, or an error when the field is cut short.
IsReadBack(decoded, s, space, value, maxBytes) ==
    /\ s \in Seq(Byte) /\ Len(s) \in 1..maxBytes
    /\ decoded = IF space < Len(s) THEN FormatError ELSE Decoded(Len(s), value)

\* The bytes of a field that is in front of others.
LEMMA Front1 ==
    ASSUME NEW rest \in Seq(Byte), NEW a \in Byte
    PROVE  (<<a>> \o rest)[1] = a
    BY SMT

LEMMA Front2 ==
    ASSUME NEW rest \in Seq(Byte), NEW a \in Byte, NEW b \in Byte
    PROVE  (<<a, b>> \o rest)[1] = a /\ (<<a, b>> \o rest)[2] = b
    BY SMT

LEMMA Front3 ==
    ASSUME NEW rest \in Seq(Byte), NEW a \in Byte, NEW b \in Byte, NEW c \in Byte
    PROVE  /\ (<<a, b, c>> \o rest)[1] = a /\ (<<a, b, c>> \o rest)[2] = b
           /\ (<<a, b, c>> \o rest)[3] = c
    BY SMT

LEMMA Front4 ==
    ASSUME NEW rest \in Seq(Byte), NEW a \in Byte, NEW b \in Byte, NEW c \in Byte, NEW d \in Byte
    PROVE  /\ (<<a, b, c, d>> \o rest)[1] = a /\ (<<a, b, c, d>> \o rest)[2] = b
           /\ (<<a, b, c, d>> \o rest)[3] = c /\ (<<a, b, c, d>> \o rest)[4] = d
    BY SMT

-----------------------------------------------------------------------------
(* Packet number *)

\* The three branches of DeserializeHeader_PacketNum, by the first byte.
LEMMA ReadPacketNum1 ==
    ASSUME NEW buffer, NEW space \in Nat, buffer[1] \in 0..127, NEW n,
           n = buffer[1]
    PROVE  DeserializeHeader_PacketNum(buffer, space) =
               IF space < 1 THEN FormatError ELSE Decoded(1, n)
    BY SMT DEF DeserializeHeader_PacketNum

LEMMA ReadPacketNum2 ==
    ASSUME NEW buffer, NEW space \in Nat, buffer[1] \div 64 = 2, NEW n,
           n = (buffer[1] * 256 + buffer[2]) % 16384
    PROVE  DeserializeHeader_PacketNum(buffer, space) =
               IF space < 2 THEN FormatError ELSE Decoded(2, n)
    BY SMT DEF DeserializeHeader_PacketNum

LEMMA ReadPacketNum3 ==
    ASSUME NEW buffer, NEW space \in Nat, buffer[1] \div 64 = 3, NEW n,
           n = (buffer[1] * 65536 + buffer[2] * 256 + buffer[3]) % 4194304
    PROVE  DeserializeHeader_PacketNum(buffer, space) =
               IF space < 3 THEN FormatError ELSE Decoded(3, n)
    BY SMT DEF DeserializeHeader_PacketNum

\* A packet number reads back as it was written, over the bytes it was written
\* in, or is refused when fewer are left (SiameseSerializers.h:332, 356).
THEOREM PacketNumReadsBack ==
    ASSUME NEW n \in Nat, n < SIAMESE_PACKET_NUM_COUNT,
           NEW rest \in Seq(Byte), NEW space \in Nat
    PROVE  IsReadBack(DeserializeHeader_PacketNum(SerializeHeader_PacketNum(n) \o rest, space),
                      SerializeHeader_PacketNum(n), space, n, kMaxPacketNumEncodedBytes)
<1> DEFINE s == SerializeHeader_PacketNum(n)
           buffer == s \o rest
<1>1. n <= 4194303
    BY SMT DEF SIAMESE_PACKET_NUM_COUNT
<1>2. kMaxPacketNumEncodedBytes = 3
    BY SMT DEF kMaxPacketNumEncodedBytes
<1>3. CASE n <= 127
    <2> DEFINE a == n
    <2>1. s = <<a>>
        BY SMTT(40), <1>3 DEF SerializeHeader_PacketNum
    <2>2. a \in Byte
        BY SMT, <1>1, <1>3 DEF Byte
    <2>3. a \in 0..127
        BY SMT, <1>1, <1>3
    <2>4. n = a
        BY SMT, <1>1, <1>3
    <2> HIDE DEF s, a
    <2>5. buffer[1] = a
        BY SMT, <2>1, <2>2, Front1
    <2> HIDE DEF buffer
    <2>6. buffer[1] \in 0..127 /\ n = buffer[1]
        BY SMT, <2>3, <2>4, <2>5
    <2>7. DeserializeHeader_PacketNum(buffer, space) =
              IF space < 1 THEN FormatError ELSE Decoded(1, n)
        BY SMT, <2>6, ReadPacketNum1
    <2>8. s \in Seq(Byte) /\ Len(s) = 1
        BY SMT, <2>1, <2>2
    <2>9. IsReadBack(DeserializeHeader_PacketNum(buffer, space), s, space, n, 3)
        BY SMT, <2>7, <2>8 DEF IsReadBack
    <2> QED BY SMT, <2>9, <1>2 DEF s, buffer
<1>4. CASE n > 127 /\ n <= 16383
    <2> DEFINE a == 128 + n \div 256
               b == n % 256
    <2>1. s = <<a, b>>
        BY SMTT(40), <1>4 DEF SerializeHeader_PacketNum
    <2>2. a \in Byte /\ b \in Byte
        BY SMT, <1>1, <1>4 DEF Byte
    <2>3. a \div 64 = 2
        BY SMT, <1>1, <1>4
    <2>4. n = (a * 256 + b) % 16384
        BY SMT, <1>1, <1>4
    <2> HIDE DEF s, a, b
    <2>5. buffer[1] = a /\ buffer[2] = b
        BY SMT, <2>1, <2>2, Front2
    <2> HIDE DEF buffer
    <2>6. buffer[1] \div 64 = 2 /\ n = (buffer[1] * 256 + buffer[2]) % 16384
        BY SMT, <2>3, <2>4, <2>5
    <2>7. DeserializeHeader_PacketNum(buffer, space) =
              IF space < 2 THEN FormatError ELSE Decoded(2, n)
        BY SMT, <2>6, ReadPacketNum2
    <2>8. s \in Seq(Byte) /\ Len(s) = 2
        BY SMT, <2>1, <2>2
    <2>9. IsReadBack(DeserializeHeader_PacketNum(buffer, space), s, space, n, 3)
        BY SMT, <2>7, <2>8 DEF IsReadBack
    <2> QED BY SMT, <2>9, <1>2 DEF s, buffer
<1>5. CASE n > 16383
    <2> DEFINE a == 192 + n \div 65536
               b == (n \div 256) % 256
               c == n % 256
    <2>1. s = <<a, b, c>>
        BY SMTT(40), <1>5 DEF SerializeHeader_PacketNum
    <2>2. a \in Byte /\ b \in Byte /\ c \in Byte
        BY SMT, <1>1, <1>5 DEF Byte
    <2>3. a \div 64 = 3
        BY SMT, <1>1, <1>5
    <2>4. n = (a * 65536 + b * 256 + c) % 4194304
        BY SMT, <1>1, <1>5
    <2> HIDE DEF s, a, b, c
    <2>5. buffer[1] = a /\ buffer[2] = b /\ buffer[3] = c
        BY SMT, <2>1, <2>2, Front3
    <2> HIDE DEF buffer
    <2>6. buffer[1] \div 64 = 3 /\ n = (buffer[1] * 65536 + buffer[2] * 256 + buffer[3]) % 4194304
        BY SMT, <2>3, <2>4, <2>5
    <2>7. DeserializeHeader_PacketNum(buffer, space) =
              IF space < 3 THEN FormatError ELSE Decoded(3, n)
        BY SMT, <2>6, ReadPacketNum3
    <2>8. s \in Seq(Byte) /\ Len(s) = 3
        BY SMT, <2>1, <2>2
    <2>9. IsReadBack(DeserializeHeader_PacketNum(buffer, space), s, space, n, 3)
        BY SMT, <2>7, <2>8 DEF IsReadBack
    <2> QED BY SMT, <2>9, <1>2 DEF s, buffer
<1> QED BY SMT, <1>3, <1>4, <1>5

-----------------------------------------------------------------------------
(* Packet count *)

\* The two branches of DeserializeHeader_PacketCount.
LEMMA ReadPacketCount1 ==
    ASSUME NEW buffer, NEW space \in Nat, buffer[1] \in 0..127, NEW n,
           n = buffer[1]
    PROVE  DeserializeHeader_PacketCount(buffer, space) =
               IF space < 1 THEN FormatError ELSE Decoded(1, n)
    BY SMT DEF DeserializeHeader_PacketCount

LEMMA ReadPacketCount2 ==
    ASSUME NEW buffer, NEW space \in Nat, buffer[1] \in 128..255, NEW n,
           n = (buffer[2] + buffer[1] * 256) % 32768
    PROVE  DeserializeHeader_PacketCount(buffer, space) =
               IF space < 2 THEN FormatError ELSE Decoded(2, n)
    BY SMT DEF DeserializeHeader_PacketCount

\* And so does a packet count (SiameseSerializers.h:464, 482).
THEOREM PacketCountReadsBack ==
    ASSUME NEW n \in Nat, n <= SIAMESE_MAX_PACKETS,
           NEW rest \in Seq(Byte), NEW space \in Nat
    PROVE  IsReadBack(DeserializeHeader_PacketCount(SerializeHeader_PacketCount(n) \o rest, space),
                      SerializeHeader_PacketCount(n), space, n, kMaxPacketCountFieldBytes)
<1> DEFINE s == SerializeHeader_PacketCount(n)
           buffer == s \o rest
<1>1. n <= 256
    BY SMT DEF SIAMESE_MAX_PACKETS
<1>2. kMaxPacketCountFieldBytes = 2
    BY SMT DEF kMaxPacketCountFieldBytes
<1>3. CASE n <= 127
    <2> DEFINE a == n
    <2>1. s = <<a>>
        BY SMTT(40), <1>3 DEF SerializeHeader_PacketCount
    <2>2. a \in Byte
        BY SMT, <1>1, <1>3 DEF Byte
    <2>3. a \in 0..127
        BY SMT, <1>1, <1>3
    <2>4. n = a
        BY SMT, <1>1, <1>3
    <2> HIDE DEF s, a
    <2>5. buffer[1] = a
        BY SMT, <2>1, <2>2, Front1
    <2> HIDE DEF buffer
    <2>6. buffer[1] \in 0..127 /\ n = buffer[1]
        BY SMT, <2>3, <2>4, <2>5
    <2>7. DeserializeHeader_PacketCount(buffer, space) =
              IF space < 1 THEN FormatError ELSE Decoded(1, n)
        BY SMT, <2>6, ReadPacketCount1
    <2>8. s \in Seq(Byte) /\ Len(s) = 1
        BY SMT, <2>1, <2>2
    <2>9. IsReadBack(DeserializeHeader_PacketCount(buffer, space), s, space, n, 2)
        BY SMT, <2>7, <2>8 DEF IsReadBack
    <2> QED BY SMT, <2>9, <1>2 DEF s, buffer
<1>4. CASE n > 127
    <2> DEFINE a == 128 + n \div 256
               b == n % 256
    <2>1. s = <<a, b>>
        BY SMTT(40), <1>4 DEF SerializeHeader_PacketCount
    <2>2. a \in Byte /\ b \in Byte
        BY SMT, <1>1, <1>4 DEF Byte
    <2>3. a \in 128..255
        BY SMT, <1>1, <1>4
    <2>4. n = (b + a * 256) % 32768
        BY SMT, <1>1, <1>4
    <2> HIDE DEF s, a, b
    <2>5. buffer[1] = a /\ buffer[2] = b
        BY SMT, <2>1, <2>2, Front2
    <2> HIDE DEF buffer
    <2>6. buffer[1] \in 128..255 /\ n = (buffer[2] + buffer[1] * 256) % 32768
        BY SMT, <2>3, <2>4, <2>5
    <2>7. DeserializeHeader_PacketCount(buffer, space) =
              IF space < 2 THEN FormatError ELSE Decoded(2, n)
        BY SMT, <2>6, ReadPacketCount2
    <2>8. s \in Seq(Byte) /\ Len(s) = 2
        BY SMT, <2>1, <2>2
    <2>9. IsReadBack(DeserializeHeader_PacketCount(buffer, space), s, space, n, 2)
        BY SMT, <2>7, <2>8 DEF IsReadBack
    <2> QED BY SMT, <2>9, <1>2 DEF s, buffer
<1> QED BY SMT, <1>3, <1>4

-----------------------------------------------------------------------------
(* Packet length *)

\* The four branches of DeserializeHeader_PacketLength.
LEMMA ReadPacketLength1 ==
    ASSUME NEW buffer, NEW space \in Nat, buffer[1] \in 0..127, NEW n,
           n = buffer[1]
    PROVE  DeserializeHeader_PacketLength(buffer, space) =
               IF space < 1 THEN FormatError ELSE Decoded(1, n)
    BY SMT DEF DeserializeHeader_PacketLength, LengthBytes

LEMMA ReadPacketLength2 ==
    ASSUME NEW buffer, NEW space \in Nat, buffer[1] \in 128..191, NEW n,
           n = (buffer[1] * 256 + buffer[2]) % 16384
    PROVE  DeserializeHeader_PacketLength(buffer, space) =
               IF space < 2 THEN FormatError ELSE Decoded(2, n)
    BY SMT DEF DeserializeHeader_PacketLength, LengthBytes

LEMMA ReadPacketLength3 ==
    ASSUME NEW buffer, NEW space \in Nat, buffer[1] \in 192..223, NEW n,
           n = (buffer[1] * 65536 + buffer[2] * 256 + buffer[3]) % 2097152
    PROVE  DeserializeHeader_PacketLength(buffer, space) =
               IF space < 3 THEN FormatError ELSE Decoded(3, n)
    BY SMT DEF DeserializeHeader_PacketLength, LengthBytes

LEMMA ReadPacketLength4 ==
    ASSUME NEW buffer, NEW space \in Nat, buffer[1] \in 224..255, NEW n,
           n = (buffer[1] % 32) * 16777216 + buffer[2] * 65536
                   + buffer[3] * 256 + buffer[4]
    PROVE  DeserializeHeader_PacketLength(buffer, space) =
               IF space < 4 THEN FormatError ELSE Decoded(4, n)
    BY SMT DEF DeserializeHeader_PacketLength, LengthBytes

\* And a packet length, up to the 29 bits that four bytes hold
\* (SiameseSerializers.h:568, 600).
THEOREM PacketLengthReadsBack ==
    ASSUME NEW n \in Nat, n <= 536870911,
           NEW rest \in Seq(Byte), NEW space \in Nat
    PROVE  IsReadBack(DeserializeHeader_PacketLength(SerializeHeader_PacketLength(n) \o rest, space),
                      SerializeHeader_PacketLength(n), space, n, kMaxPacketLengthFieldBytes)
<1> DEFINE s == SerializeHeader_PacketLength(n)
           buffer == s \o rest
<1>1. n <= 536870911
    BY SMT
<1>2. kMaxPacketLengthFieldBytes = 4
    BY SMT DEF kMaxPacketLengthFieldBytes
<1>3. CASE n <= 127
    <2> DEFINE a == n
    <2>1. s = <<a>>
        BY SMTT(40), <1>3 DEF SerializeHeader_PacketLength
    <2>2. a \in Byte
        BY SMT, <1>1, <1>3 DEF Byte
    <2>3. a \in 0..127
        BY SMT, <1>1, <1>3
    <2>4. n = a
        BY SMT, <1>1, <1>3
    <2> HIDE DEF s, a
    <2>5. buffer[1] = a
        BY SMT, <2>1, <2>2, Front1
    <2> HIDE DEF buffer
    <2>6. buffer[1] \in 0..127 /\ n = buffer[1]
        BY SMT, <2>3, <2>4, <2>5
    <2>7. DeserializeHeader_PacketLength(buffer, space) =
              IF space < 1 THEN FormatError ELSE Decoded(1, n)
        BY SMT, <2>6, ReadPacketLength1
    <2>8. s \in Seq(Byte) /\ Len(s) = 1
        BY SMT, <2>1, <2>2
    <2>9. IsReadBack(DeserializeHeader_PacketLength(buffer, space), s, space, n, 4)
        BY SMT, <2>7, <2>8 DEF IsReadBack
    <2> QED BY SMT, <2>9, <1>2 DEF s, buffer
<1>4. CASE n > 127 /\ n <= 16383
    <2> DEFINE a == 128 + n \div 256
               b == n % 256
    <2>1. s = <<a, b>>
        BY SMTT(40), <1>4 DEF SerializeHeader_PacketLength
    <2>2. a \in Byte /\ b \in Byte
        BY SMT, <1>1, <1>4 DEF Byte
    <2>3. a \in 128..191
        BY SMT, <1>1, <1>4
    <2>4. n = (a * 256 + b) % 16384
        BY SMT, <1>1, <1>4
    <2> HIDE DEF s, a, b
    <2>5. buffer[1] = a /\ buffer[2] = b
        BY SMT, <2>1, <2>2, Front2
    <2> HIDE DEF buffer
    <2>6. buffer[1] \in 128..191 /\ n = (buffer[1] * 256 + buffer[2]) % 16384
        BY SMT, <2>3, <2>4, <2>5
    <2>7. DeserializeHeader_PacketLength(buffer, space) =
              IF space < 2 THEN FormatError ELSE Decoded(2, n)
        BY SMT, <2>6, ReadPacketLength2
    <2>8. s \in Seq(Byte) /\ Len(s) = 2
        BY SMT, <2>1, <2>2
    <2>9. IsReadBack(DeserializeHeader_PacketLength(buffer, space), s, space, n, 4)
        BY SMT, <2>7, <2>8 DEF IsReadBack
    <2> QED BY SMT, <2>9, <1>2 DEF s, buffer
<1>5. CASE n > 16383 /\ n <= 2097151
    <2> DEFINE a == 192 + n \div 65536
               b == (n \div 256) % 256
               c == n % 256
    <2>1. s = <<a, b, c>>
        BY SMTT(40), <1>5 DEF SerializeHeader_PacketLength
    <2>2. a \in Byte /\ b \in Byte /\ c \in Byte
        BY SMT, <1>1, <1>5 DEF Byte
    <2>3. a \in 192..223
        BY SMT, <1>1, <1>5
    <2>4. n = (a * 65536 + b * 256 + c) % 2097152
        BY SMT, <1>1, <1>5
    <2> HIDE DEF s, a, b, c
    <2>5. buffer[1] = a /\ buffer[2] = b /\ buffer[3] = c
        BY SMT, <2>1, <2>2, Front3
    <2> HIDE DEF buffer
    <2>6. buffer[1] \in 192..223 /\ n = (buffer[1] * 65536 + buffer[2] * 256 + buffer[3]) % 2097152
        BY SMT, <2>3, <2>4, <2>5
    <2>7. DeserializeHeader_PacketLength(buffer, space) =
              IF space < 3 THEN FormatError ELSE Decoded(3, n)
        BY SMT, <2>6, ReadPacketLength3
    <2>8. s \in Seq(Byte) /\ Len(s) = 3
        BY SMT, <2>1, <2>2
    <2>9. IsReadBack(DeserializeHeader_PacketLength(buffer, space), s, space, n, 4)
        BY SMT, <2>7, <2>8 DEF IsReadBack
    <2> QED BY SMT, <2>9, <1>2 DEF s, buffer
<1>6. CASE n > 2097151
    <2> DEFINE a == 224 + n \div 16777216
               b == (n \div 65536) % 256
               c == (n \div 256) % 256
               d == n % 256
    <2>1. s = <<a, b, c, d>>
        BY SMTT(40), <1>6 DEF SerializeHeader_PacketLength
    <2>2. a \in Byte /\ b \in Byte /\ c \in Byte /\ d \in Byte
        BY SMT, <1>1, <1>6 DEF Byte
    <2>3. a \in 224..255
        BY SMT, <1>1, <1>6
    <2>4. n = (a % 32) * 16777216 + b * 65536
                   + c * 256 + d
        BY SMT, <1>1, <1>6
    <2> HIDE DEF s, a, b, c, d
    <2>5. buffer[1] = a /\ buffer[2] = b /\ buffer[3] = c /\ buffer[4] = d
        BY SMT, <2>1, <2>2, Front4
    <2> HIDE DEF buffer
    <2>6. buffer[1] \in 224..255 /\ n = (buffer[1] % 32) * 16777216 + buffer[2] * 65536
                   + buffer[3] * 256 + buffer[4]
        BY SMT, <2>3, <2>4, <2>5
    <2>7. DeserializeHeader_PacketLength(buffer, space) =
              IF space < 4 THEN FormatError ELSE Decoded(4, n)
        BY SMT, <2>6, ReadPacketLength4
    <2>8. s \in Seq(Byte) /\ Len(s) = 4
        BY SMT, <2>1, <2>2
    <2>9. IsReadBack(DeserializeHeader_PacketLength(buffer, space), s, space, n, 4)
        BY SMT, <2>7, <2>8 DEF IsReadBack
    <2> QED BY SMT, <2>9, <1>2 DEF s, buffer
<1> QED BY SMT, <1>3, <1>4, <1>5, <1>6

-----------------------------------------------------------------------------
(* Footers *)

\* A footer is read over its bytes in reverse, as a header in front of what
\* precedes it.
LEMMA ReverseBytes ==
    ASSUME NEW s \in Seq(Byte)
    PROVE  /\ Reverse(s) \in Seq(Byte) /\ Len(Reverse(s)) = Len(s)
           /\ \A i \in 1..Len(s) : Reverse(s)[i] = s[Len(s) - i + 1]
    BY SMT DEF Reverse

\* Where the bytes of two sequences are in their concatenation.
LEMMA ConcatBytes ==
    ASSUME NEW s \in Seq(Byte), NEW t \in Seq(Byte)
    PROVE  /\ s \o t \in Seq(Byte) /\ Len(s \o t) = Len(s) + Len(t)
           /\ \A i \in 1..Len(s) : (s \o t)[i] = s[i]
           /\ \A i \in (Len(s) + 1)..(Len(s) + Len(t)) : (s \o t)[i] = t[i - Len(s)]
    BY SMT

\* Sequences of the same bytes are equal.
LEMMA SameBytes ==
    ASSUME NEW s \in Seq(Byte), NEW t \in Seq(Byte), Len(s) = Len(t),
           \A i \in 1..Len(s) : s[i] = t[i]
    PROVE  s = t
    BY SMT

\* Read in reverse, a field behind other bytes is the field in front of them.
LEMMA FooterInFront ==
    ASSUME NEW s \in Seq(Byte), NEW rest \in Seq(Byte)
    PROVE  Reverse(rest \o Reverse(s)) = s \o Reverse(rest)
<1> DEFINE r == Reverse(s)
           back == Reverse(rest)
           whole == rest \o r
           left == Reverse(whole)
           right == s \o back
<1>1. /\ r \in Seq(Byte) /\ Len(r) = Len(s)
      /\ \A i \in 1..Len(s) : r[i] = s[Len(s) - i + 1]
    BY ReverseBytes
<1>2. /\ back \in Seq(Byte) /\ Len(back) = Len(rest)
      /\ \A i \in 1..Len(rest) : back[i] = rest[Len(rest) - i + 1]
    BY ReverseBytes
<1> HIDE DEF r, back
<1>3. /\ whole \in Seq(Byte) /\ Len(whole) = Len(rest) + Len(r)
      /\ \A i \in 1..Len(rest) : whole[i] = rest[i]
      /\ \A i \in (Len(rest) + 1)..(Len(rest) + Len(r)) : whole[i] = r[i - Len(rest)]
    BY <1>1, ConcatBytes
<1>4. /\ right \in Seq(Byte) /\ Len(right) = Len(s) + Len(back)
      /\ \A i \in 1..Len(s) : right[i] = s[i]
      /\ \A i \in (Len(s) + 1)..(Len(s) + Len(back)) : right[i] = back[i - Len(s)]
    BY <1>2, ConcatBytes
<1> HIDE DEF whole, right
<1>5. /\ left \in Seq(Byte) /\ Len(left) = Len(whole)
      /\ \A i \in 1..Len(whole) : left[i] = whole[Len(whole) - i + 1]
    BY <1>3, ReverseBytes
<1> HIDE DEF left
<1>6. Len(s) \in Nat /\ Len(rest) \in Nat
    OBVIOUS
<1>7. ASSUME NEW i \in 1..Len(left) PROVE left[i] = right[i]
    <2>1. i \in 1..(Len(rest) + Len(s))
        BY SMT, <1>1, <1>3, <1>5
    <2> DEFINE k == Len(rest) + Len(s) - i + 1
    <2>2. k \in 1..(Len(rest) + Len(s)) /\ left[i] = whole[k]
        BY SMT, <1>1, <1>3, <1>5, <1>6, <2>1
    <2>3. CASE i <= Len(s)
        <3>1. whole[k] = r[k - Len(rest)]
            <4>1. k \in (Len(rest) + 1)..(Len(rest) + Len(r))
                BY SMT, <1>1, <1>6, <2>1, <2>3
            <4> QED BY <4>1, <1>3
        <3>2. k - Len(rest) \in 1..Len(s) /\ Len(s) - (k - Len(rest)) + 1 = i
            BY SMT, <1>6, <2>1, <2>3
        <3>3. r[k - Len(rest)] = s[Len(s) - (k - Len(rest)) + 1]
            BY <1>1, <3>2
        <3>4. right[i] = s[i]
            BY SMT, <1>4, <1>6, <2>1, <2>3
        <3> QED BY <2>2, <3>1, <3>2, <3>3, <3>4
    <2>4. CASE i > Len(s)
        <3>1. whole[k] = rest[k]
            <4>1. k \in 1..Len(rest)
                BY SMT, <1>6, <2>1, <2>4
            <4> QED BY <4>1, <1>3
        <3>2. i - Len(s) \in 1..Len(rest) /\ Len(rest) - (i - Len(s)) + 1 = k
            BY SMT, <1>6, <2>1, <2>4
        <3>3. back[i - Len(s)] = rest[Len(rest) - (i - Len(s)) + 1]
            BY <1>2, <3>2
        <3>4. right[i] = back[i - Len(s)]
            <4>1. i \in (Len(s) + 1)..(Len(s) + Len(back))
                BY SMT, <1>2, <1>6, <2>1, <2>4
            <4> QED BY <4>1, <1>4
        <3> QED BY <2>2, <3>1, <3>2, <3>3, <3>4
    <2> QED BY SMT, <1>6, <2>1, <2>3, <2>4
<1>8. Len(left) = Len(right)
    BY SMT, <1>1, <1>2, <1>3, <1>4, <1>5, <1>6
<1>9. left = right
    BY <1>4, <1>5, <1>7, <1>8, SameBytes
<1> QED BY <1>9 DEF left, right, whole, r, back

\* A packet number at the end of other bytes reads back (SiameseSerializers.h:385, 409).
THEOREM PacketNumFooterReadsBack ==
    ASSUME NEW n \in Nat, n < SIAMESE_PACKET_NUM_COUNT,
           NEW rest \in Seq(Byte), NEW space \in Nat
    PROVE  IsReadBack(DeserializeFooter_PacketNum(rest \o SerializeFooter_PacketNum(n), space),
                      SerializeFooter_PacketNum(n), space, n, kMaxPacketNumEncodedBytes)
<1> DEFINE s == SerializeHeader_PacketNum(n)
<1>1. Reverse(rest) \in Seq(Byte)
    BY ReverseBytes
<1>2. IsReadBack(DeserializeHeader_PacketNum(s \o Reverse(rest), space), s, space, n, kMaxPacketNumEncodedBytes)
    BY SMT, <1>1, PacketNumReadsBack
<1> HIDE DEF s
<1>3. s \in Seq(Byte)
    BY <1>2, SMT DEF IsReadBack
<1>4. Reverse(rest \o Reverse(s)) = s \o Reverse(rest)
    BY SMT, <1>3, FooterInFront
<1>5. Reverse(s) \in Seq(Byte) /\ Len(Reverse(s)) = Len(s)
    BY SMT, <1>3, ReverseBytes
<1>6. IsReadBack(DeserializeHeader_PacketNum(Reverse(rest \o Reverse(s)), space), Reverse(s),
                 space, n, kMaxPacketNumEncodedBytes)
    BY SMT, <1>2, <1>4, <1>5 DEF IsReadBack
<1> QED BY SMT, <1>6 DEF s, DeserializeFooter_PacketNum, SerializeFooter_PacketNum

\* The reader that does not look at its space returns what the other one does.
LEMMA UnsafeIsSafe ==
    ASSUME NEW buffer \in Seq(Byte), Len(buffer) >= 3, NEW space \in Nat, space >= 3
    PROVE  DeserializeFooter_PacketNum_Unsafe(buffer) = DeserializeFooter_PacketNum(buffer, space)
<1> DEFINE back == Reverse(buffer)
           a == buffer[Len(buffer)]
           b == buffer[Len(buffer) - 1]
           c == buffer[Len(buffer) - 2]
<1>1. a \in Byte /\ b \in Byte /\ c \in Byte
    BY SMT
<1>2. \A i \in 1..Len(buffer) : back[i] = buffer[Len(buffer) - i + 1]
    BY ReverseBytes
<1>3. back[1] = a /\ back[2] = b /\ back[3] = c
    BY SMT, <1>2
<1> HIDE DEF back
<1>4. DeserializeFooter_PacketNum(buffer, space) = DeserializeHeader_PacketNum(back, space)
    BY DEF DeserializeFooter_PacketNum, back
<1>5. /\ buffer[Len(buffer) + 1 - 1] = a
      /\ buffer[Len(buffer) + 1 - 2] = b
      /\ buffer[Len(buffer) + 1 - 3] = c
    BY SMT
<1> HIDE DEF a, b, c
<1>6. a \div 64 \in 0..3
    BY SMT, <1>1 DEF Byte
<1>7. CASE a \div 64 <= 1
    <2>1. a \in 0..127
        BY SMT, <1>1, <1>7 DEF Byte
    <2>2. DeserializeHeader_PacketNum(back, space) = Decoded(1, a)
        <3>1. DeserializeHeader_PacketNum(back, space) =
                  IF space < 1 THEN FormatError ELSE Decoded(1, a)
            BY <1>3, <2>1, ReadPacketNum1
        <3> QED  BY SMT, <3>1
    <2>3. DeserializeFooter_PacketNum_Unsafe(buffer) = Decoded(1, a)
        BY SMT, <1>5, <1>6, <1>7 DEF DeserializeFooter_PacketNum_Unsafe
    <2> QED  BY <1>4, <2>2, <2>3
<1>8. CASE a \div 64 = 2
    <2>1. DeserializeHeader_PacketNum(back, space) = Decoded(2, (a * 256 + b) % 16384)
        BY SMT, <1>3, <1>8, ReadPacketNum2
    <2>2. DeserializeFooter_PacketNum_Unsafe(buffer) = Decoded(2, (a * 256 + b) % 16384)
        BY SMT, <1>5, <1>8 DEF DeserializeFooter_PacketNum_Unsafe
    <2> QED  BY <1>4, <2>1, <2>2
<1>9. CASE a \div 64 = 3
    <2>1. DeserializeHeader_PacketNum(back, space) = Decoded(3, (a * 65536 + b * 256 + c) % 4194304)
        BY SMT, <1>3, <1>9, ReadPacketNum3
    <2>2. DeserializeFooter_PacketNum_Unsafe(buffer) = Decoded(3, (a * 65536 + b * 256 + c) % 4194304)
        BY SMT, <1>5, <1>9 DEF DeserializeFooter_PacketNum_Unsafe
    <2> QED  BY <1>4, <2>1, <2>2
<1> QED
    BY SMT, <1>6, <1>7, <1>8, <1>9

\* A packet number that stands behind other bytes is read without a look at the
\* space, too, when there are three bytes or more ("only works if the buffer
\* contains at least 3 bytes", SiameseSerializers.h:436).
THEOREM UnsafePacketNumReadsBack ==
    ASSUME NEW n \in Nat, n < SIAMESE_PACKET_NUM_COUNT,
           NEW rest \in Seq(Byte), Len(rest \o SerializeFooter_PacketNum(n)) >= 3
    PROVE  DeserializeFooter_PacketNum_Unsafe(rest \o SerializeFooter_PacketNum(n)) =
               Decoded(Len(SerializeFooter_PacketNum(n)), n)
<1> DEFINE s == SerializeFooter_PacketNum(n)
<1>1. IsReadBack(DeserializeFooter_PacketNum(rest \o s, 3), s, 3, n, kMaxPacketNumEncodedBytes)
    BY PacketNumFooterReadsBack
<1> HIDE DEF s
<1>2. /\ s \in Seq(Byte) /\ Len(s) \in 1..3
      /\ DeserializeFooter_PacketNum(rest \o s, 3) =
             IF 3 < Len(s) THEN FormatError ELSE Decoded(Len(s), n)
    BY <1>1 DEF IsReadBack, kMaxPacketNumEncodedBytes
<1>3. DeserializeFooter_PacketNum(rest \o s, 3) = Decoded(Len(s), n)
    <2>1. ~(3 < Len(s))
        <3>1. Len(s) \in 1..3
            BY <1>2
        <3>2. \A k \in 1..3 : ~(3 < k)
            BY SMT
        <3> QED  BY <3>1, <3>2
    <2> QED  BY <1>2, <2>1
<1>4. rest \o s \in Seq(Byte) /\ Len(rest \o s) >= 3
    BY <1>2 DEF s
<1>5. DeserializeFooter_PacketNum_Unsafe(rest \o s) = DeserializeFooter_PacketNum(rest \o s, 3)
    <2>1. 3 \in Nat /\ 3 >= 3
        BY SMT
    <2> QED  BY <1>4, <2>1, UnsafeIsSafe
<1> QED  BY <1>3, <1>5 DEF s

\* A packet count at the end of other bytes reads back (SiameseSerializers.h:512, 530).
THEOREM PacketCountFooterReadsBack ==
    ASSUME NEW n \in Nat, n <= SIAMESE_MAX_PACKETS,
           NEW rest \in Seq(Byte), NEW space \in Nat
    PROVE  IsReadBack(DeserializeFooter_PacketCount(rest \o SerializeFooter_PacketCount(n), space),
                      SerializeFooter_PacketCount(n), space, n, kMaxPacketCountFieldBytes)
<1> DEFINE s == SerializeHeader_PacketCount(n)
<1>1. Reverse(rest) \in Seq(Byte)
    BY ReverseBytes
<1>2. IsReadBack(DeserializeHeader_PacketCount(s \o Reverse(rest), space), s, space, n, kMaxPacketCountFieldBytes)
    BY SMT, <1>1, PacketCountReadsBack
<1> HIDE DEF s
<1>3. s \in Seq(Byte)
    BY <1>2, SMT DEF IsReadBack
<1>4. Reverse(rest \o Reverse(s)) = s \o Reverse(rest)
    BY SMT, <1>3, FooterInFront
<1>5. Reverse(s) \in Seq(Byte) /\ Len(Reverse(s)) = Len(s)
    BY SMT, <1>3, ReverseBytes
<1>6. IsReadBack(DeserializeHeader_PacketCount(Reverse(rest \o Reverse(s)), space), Reverse(s),
                 space, n, kMaxPacketCountFieldBytes)
    BY SMT, <1>2, <1>4, <1>5 DEF IsReadBack
<1> QED BY SMT, <1>6 DEF s, DeserializeFooter_PacketCount, SerializeFooter_PacketCount

\* A packet length at the end of other bytes reads back (SiameseSerializers.h:650, 683).
THEOREM PacketLengthFooterReadsBack ==
    ASSUME NEW n \in Nat, n <= 536870911,
           NEW rest \in Seq(Byte), NEW space \in Nat
    PROVE  IsReadBack(DeserializeFooter_PacketLength(rest \o SerializeFooter_PacketLength(n), space),
                      SerializeFooter_PacketLength(n), space, n, kMaxPacketLengthFieldBytes)
<1> DEFINE s == SerializeHeader_PacketLength(n)
<1>1. Reverse(rest) \in Seq(Byte)
    BY ReverseBytes
<1>2. IsReadBack(DeserializeHeader_PacketLength(s \o Reverse(rest), space), s, space, n, kMaxPacketLengthFieldBytes)
    BY SMT, <1>1, PacketLengthReadsBack
<1> HIDE DEF s
<1>3. s \in Seq(Byte)
    BY <1>2, SMT DEF IsReadBack
<1>4. Reverse(rest \o Reverse(s)) = s \o Reverse(rest)
    BY SMT, <1>3, FooterInFront
<1>5. Reverse(s) \in Seq(Byte) /\ Len(Reverse(s)) = Len(s)
    BY SMT, <1>3, ReverseBytes
<1>6. IsReadBack(DeserializeHeader_PacketLength(Reverse(rest \o Reverse(s)), space), Reverse(s),
                 space, n, kMaxPacketLengthFieldBytes)
    BY SMT, <1>2, <1>4, <1>5 DEF IsReadBack
<1> QED BY SMT, <1>6 DEF s, DeserializeFooter_PacketLength, SerializeFooter_PacketLength

-----------------------------------------------------------------------------
(* Loss range *)

\* Seven bits are a byte.
LEMMA SevenBits ==
    ASSUME NEW v \in Nat, v < 128
    PROVE  v \in Byte
    BY SMT DEF Byte

\* The three branches of ReadExtension, by the first bytes.
LEMMA ReadExtension1 ==
    ASSUME NEW buffer, NEW offset \in Nat, buffer[offset + 1] \in 0..127
    PROVE  ReadExtension(buffer, offset) = Decoded(1, buffer[offset + 1])
    BY SMT DEF ReadExtension

LEMMA ReadExtension2 ==
    ASSUME NEW buffer, NEW offset \in Nat,
           buffer[offset + 1] \in 128..255, buffer[offset + 2] \in 0..127,
           NEW v, v = (buffer[offset + 1] % 128) + buffer[offset + 2] * 128
    PROVE  ReadExtension(buffer, offset) = Decoded(2, v)
    BY SMT DEF ReadExtension

LEMMA ReadExtension3 ==
    ASSUME NEW buffer, NEW offset \in Nat,
           buffer[offset + 1] \in 128..255, buffer[offset + 2] \in 128..255,
           NEW v, v = (buffer[offset + 1] % 128) + (buffer[offset + 2] % 128) * 128
                      + buffer[offset + 3] * 16384
    PROVE  ReadExtension(buffer, offset) = Decoded(3, v)
    BY SMT DEF ReadExtension

\* An extension of up to 22 bits reads back behind any bytes and in front of any
\* (SiameseSerializers.h:875, 950).
THEOREM ExtensionReadsBack ==
    ASSUME NEW v \in Nat, v < SIAMESE_PACKET_NUM_COUNT, NEW offset \in Nat, NEW buffer,
           \A i \in 1..Len(Extension(v)) : buffer[offset + i] = Extension(v)[i]
    PROVE  /\ Extension(v) \in Seq(Byte) /\ Len(Extension(v)) \in 1..3
           /\ ReadExtension(buffer, offset) = Decoded(Len(Extension(v)), v)
<1> DEFINE s == Extension(v)
<1>1. \A i \in 1..Len(s) : buffer[offset + i] = s[i]
    OBVIOUS
<1>5. v <= 4194303
    BY SMT DEF SIAMESE_PACKET_NUM_COUNT
<1>2. CASE v < 128
    <2>1. s = <<v>>
        BY SMTT(40), <1>2 DEF Extension
    <2> HIDE DEF s
    <2>2. v \in Byte
        BY Zenon, <1>2, SevenBits
    <2>3. s \in Seq(Byte) /\ Len(s) = 1 /\ s[1] = v
        BY SMT, <2>1, <2>2
    <2>4. buffer[offset + 1] = v
        BY SMT, <1>1, <2>3
    <2>5. ReadExtension(buffer, offset) = Decoded(1, buffer[offset + 1])
        <3>1. buffer[offset + 1] \in 0..127
            BY SMT, <1>2, <2>4
        <3> QED BY SMT, <3>1, ReadExtension1
    <2> QED BY SMT, <2>3, <2>4, <2>5 DEF s
<1>3. CASE v >= 128 /\ v < 16384
    <2> DEFINE a == 128 + (v % 128)
               b == v \div 128
    <2>1. s = <<a, b>>
        BY SMTT(40), <1>3 DEF Extension
    <2>3. a \in 128..255 /\ b \in 0..127 /\ v = (a % 128) + b * 128
        BY SMT, <1>3
    <2> HIDE DEF s, a, b
    <2>2. a \in Byte /\ b \in Byte
        BY SMT, <2>3 DEF Byte
    <2>4. s \in Seq(Byte) /\ Len(s) = 2 /\ s[1] = a /\ s[2] = b
        BY SMT, <2>1, <2>2
    <2>5. buffer[offset + 1] = a /\ buffer[offset + 2] = b
        BY SMT, <1>1, <2>4
    <2>6. ReadExtension(buffer, offset) = Decoded(2, v)
        <3>1. /\ buffer[offset + 1] \in 128..255 /\ buffer[offset + 2] \in 0..127
              /\ v = (buffer[offset + 1] % 128) + buffer[offset + 2] * 128
            BY SMT, <2>3, <2>5
        <3> QED BY SMT, <3>1, ReadExtension2
    <2> QED BY SMT, <2>4, <2>6 DEF s
<1>4. CASE v >= 16384
    <2> DEFINE a == 128 + (v % 128)
               b == 128 + ((v \div 128) % 128)
               c == v \div 16384
    <2>1. s = <<a, b, c>>
        BY SMTT(40), <1>4 DEF Extension
    <2>3. /\ a \in 128..255 /\ b \in 128..255 /\ c \in 0..255
          /\ v = (a % 128) + (b % 128) * 128 + c * 16384
        <3> DEFINE d == v \div 128
        <3>1. d \in Nat /\ v = (v % 128) + d * 128 /\ v % 128 \in 0..127
            BY SMT
        <3>2. a \in 128..255 /\ a % 128 = v % 128
            BY SMT
        <3>3. c = d \div 128 /\ c \in 0..255
            BY SMT, <1>4, <1>5
        <3> HIDE DEF d, a, c
        <3>4. d = (d % 128) + (d \div 128) * 128
            BY SMT, <3>1
        <3>5. b \in 128..255 /\ b % 128 = d % 128
            <4> DEFINE e == d % 128
            <4>1. b = 128 + e /\ e \in 0..127
                BY SMT, <3>1 DEF d
            <4> HIDE DEF b, e
            <4>2. b \in 128..255 /\ b % 128 = e
                BY SMT, <4>1
            <4> QED BY <4>2, Zenon DEF e
        <3> HIDE DEF b
        <3> QED BY SMT, <3>1, <3>2, <3>3, <3>4, <3>5
    <2> HIDE DEF s, a, b, c
    <2>2. a \in Byte /\ b \in Byte /\ c \in Byte
        BY SMT, <2>3 DEF Byte
    <2>4. s \in Seq(Byte) /\ Len(s) = 3 /\ s[1] = a /\ s[2] = b /\ s[3] = c
        BY SMT, <2>1, <2>2
    <2>5. buffer[offset + 1] = a /\ buffer[offset + 2] = b /\ buffer[offset + 3] = c
        BY SMT, <1>1, <2>4
    <2>6. ReadExtension(buffer, offset) = Decoded(3, v)
        <3>1. /\ buffer[offset + 1] \in 128..255 /\ buffer[offset + 2] \in 128..255
              /\ v = (buffer[offset + 1] % 128) + (buffer[offset + 2] % 128) * 128
                     + buffer[offset + 3] * 16384
            BY SMT, <2>3, <2>5
        <3> QED BY SMT, <3>1, ReadExtension3
    <2> QED BY SMT, <2>4, <2>6 DEF s
<1> QED BY SMT, <1>2, <1>3, <1>4

\* An extension is one to three bytes long.
LEMMA ExtensionBytes ==
    ASSUME NEW v \in Nat, v < SIAMESE_PACKET_NUM_COUNT
    PROVE  Extension(v) \in Seq(Byte) /\ Len(Extension(v)) \in 1..3
<1> DEFINE e == Extension(v)
<1>1. \A i \in 1..Len(e) : e[0 + i] = e[i]
    BY SMT
<1>2. 0 \in Nat
    OBVIOUS
<1> QED BY <1>1, <1>2, ExtensionReadsBack

\* The bytes of s in front of rest are a first one, ext1 and ext2.
InFront(s, rest, p, ext1, ext2) ==
    /\ (s \o rest)[1] = p[1]
    /\ \A i \in 1..Len(ext1) : (s \o rest)[1 + i] = ext1[i]
    /\ \A i \in 1..Len(ext2) : (s \o rest)[1 + Len(ext1) + i] = ext2[i]
    /\ Len(s) = 1 + Len(ext1) + Len(ext2)

\* Where the parts of a loss range are.
LEMMA ThreeParts ==
    ASSUME NEW p \in Seq(Byte), Len(p) = 1,
           NEW ext1 \in Seq(Byte), NEW ext2 \in Seq(Byte), NEW rest \in Seq(Byte)
    PROVE  InFront((p \o ext1) \o ext2, rest, p, ext1, ext2)
<1> DEFINE s == (p \o ext1) \o ext2
           q == p \o ext1
           m == Len(ext1)
           n == Len(ext2)
<1>1. p \in Seq(Byte) /\ Len(p) = 1 /\ m \in Nat /\ n \in Nat
    BY SMT
<1>2. /\ q \in Seq(Byte) /\ Len(q) = Len(p) + m
      /\ \A i \in 1..Len(p) : q[i] = p[i]
      /\ \A i \in (Len(p) + 1)..(Len(p) + m) : q[i] = ext1[i - Len(p)]
    BY <1>1, ConcatBytes
<1>3. s = q \o ext2
    OBVIOUS
<1> HIDE DEF q, s
<1>4. /\ s \in Seq(Byte) /\ Len(s) = Len(q) + n
      /\ \A i \in 1..Len(q) : s[i] = q[i]
      /\ \A i \in (Len(q) + 1)..(Len(q) + n) : s[i] = ext2[i - Len(q)]
    <2> DEFINE t == q \o ext2
    <2>1. /\ t \in Seq(Byte) /\ Len(t) = Len(q) + n
          /\ \A i \in 1..Len(q) : t[i] = q[i]
          /\ \A i \in (Len(q) + 1)..(Len(q) + n) : t[i] = ext2[i - Len(q)]
        <3>1. q \in Seq(Byte)
            BY <1>2
        <3> QED BY ZenonT(30), <3>1, ConcatBytes
    <2>2. s = t
        BY <1>3
    <2> HIDE DEF t
    <2> QED BY ZenonT(30), <2>1, <2>2
<1>5. \A i \in 1..Len(s) : (s \o rest)[i] = s[i]
    BY <1>4, ConcatBytes
<1> HIDE DEF m, n
<1>6. Len(q) = 1 + m /\ Len(s) = 1 + m + n
    BY SMT, <1>1, <1>2, <1>4
<1>7. (s \o rest)[1] = p[1]
    <2>1. 1 \in 1..Len(p) /\ 1 \in 1..Len(q) /\ 1 \in 1..Len(s)
        BY SMT, <1>1, <1>6
    <2> QED BY <2>1, <1>1, <1>2, <1>4, <1>5
<1>8. ASSUME NEW i \in 1..m PROVE (s \o rest)[1 + i] = ext1[i]
    <2>1. /\ 1 + i \in (Len(p) + 1)..(Len(p) + m) /\ 1 + i \in 1..Len(q) /\ 1 + i \in 1..Len(s)
          /\ (1 + i) - Len(p) = i
        BY SMT, <1>1, <1>6
    <2>2. q[1 + i] = ext1[(1 + i) - Len(p)]
        BY <2>1, <1>2
    <2> QED BY <2>1, <2>2, <1>4, <1>5
<1>9. ASSUME NEW i \in 1..n PROVE (s \o rest)[1 + m + i] = ext2[i]
    <2>1. /\ 1 + m + i \in (Len(q) + 1)..(Len(q) + n) /\ 1 + m + i \in 1..Len(s)
          /\ (1 + m + i) - Len(q) = i
        BY SMT, <1>1, <1>6
    <2>2. s[1 + m + i] = ext2[(1 + m + i) - Len(q)]
        BY <2>1, <1>4
    <2> QED BY <2>1, <2>2, <1>5
<1>10. /\ (s \o rest)[1] = p[1]
       /\ \A i \in 1..Len(ext1) : (s \o rest)[1 + i] = ext1[i]
       /\ \A i \in 1..Len(ext2) : (s \o rest)[1 + Len(ext1) + i] = ext2[i]
       /\ Len(s) = 1 + Len(ext1) + Len(ext2)
    BY <1>6, <1>7, <1>8, <1>9 DEF m, n
<1>11. InFront(s, rest, p, ext1, ext2)
    BY Zenon, <1>10 DEF InFront
<1> QED BY Zenon, <1>11 DEF s

\* A loss range reads back whatever follows it, provided the reader is given the
\* seven bytes it asks for (SiameseSerializers.h:863, 936).
THEOREM NACKLossRangeReadsBack ==
    ASSUME NEW start \in Nat, start < SIAMESE_PACKET_NUM_COUNT,
           NEW count \in Nat, count < SIAMESE_PACKET_NUM_COUNT,
           NEW rest \in Seq(Byte), NEW space \in Nat, space >= kMaxLossRangeFieldBytes
    PROVE  DeserializeHeader_NACKLossRange(
               SerializeHeader_NACKLossRange(start, count) \o rest, space)
           = Decoded(Len(SerializeHeader_NACKLossRange(start, count)), <<start, count>>)
<1> DEFINE flags == IF count <= 2 THEN count ELSE 3
           more == IF start >= 32 THEN 4 ELSE 0
           low == flags + 8 * (start % 32)
           byte0 == low + more
           ext1 == IF start >= 32 THEN Extension(start \div 32) ELSE <<>>
           ext2 == IF count >= 3 THEN Extension(count - 3) ELSE <<>>
           s == SerializeHeader_NACKLossRange(start, count)
           buffer == s \o rest
<1>1. /\ byte0 \in Byte /\ byte0 \div 8 = start % 32 /\ byte0 % 4 = flags
      /\ (byte0 \div 4) % 2 = (IF start >= 32 THEN 1 ELSE 0)
    <2>1. flags \in 0..3 /\ more \in {0, 4} /\ start % 32 \in 0..31
        BY SMT
    <2>2. (byte0 \div 4) % 2 = (IF more = 4 THEN 1 ELSE 0)
        <3> HIDE DEF flags
        <3> QED BY SMT, <2>1
    <2>3. byte0 \in Byte /\ byte0 \div 8 = start % 32 /\ byte0 % 4 = flags
        <3> HIDE DEF flags, more
        <3> QED BY SMT, <2>1 DEF Byte
    <2> QED BY SMT, <2>2, <2>3
<1>2. start \div 32 \in Nat /\ start \div 32 < SIAMESE_PACKET_NUM_COUNT
    BY SMT DEF SIAMESE_PACKET_NUM_COUNT
<1>3. count >= 3 => count - 3 \in Nat /\ count - 3 < SIAMESE_PACKET_NUM_COUNT
    BY SMT DEF SIAMESE_PACKET_NUM_COUNT
<1>4. ext1 \in Seq(Byte) /\ ext2 \in Seq(Byte)
    BY SMT, <1>2, <1>3, ExtensionBytes
<1>5. s = <<byte0>> \o ext1 \o ext2
    <2>1. byte0 = IF start >= 32 THEN low + 4 ELSE low
        BY SMT
    <2>2. s = (IF start >= 32 THEN <<low + 4>> \o Extension(start \div 32) ELSE <<low>>) \o ext2
        BY Zenon DEF SerializeHeader_NACKLossRange
    <2> HIDE DEF byte0, low
    <2>3. CASE start >= 32
        <3>1. byte0 = low + 4 /\ ext1 = Extension(start \div 32)
            BY <2>1, <2>3, Zenon
        <3> QED BY <2>2, <2>3, <3>1, Zenon
    <2>4. CASE ~(start >= 32)
        <3>1. byte0 = low /\ ext1 = <<>>
            BY <2>1, <2>4, Zenon
        <3>2. <<byte0>> \o <<>> = <<byte0>>
            BY SMT, <1>1
        <3> QED BY <2>2, <2>4, <3>1, <3>2, Zenon
    <2> QED BY <2>3, <2>4
<1> HIDE DEF s, ext1, ext2, byte0
<1>10. /\ buffer[1] = byte0
       /\ \A i \in 1..Len(ext1) : buffer[1 + i] = ext1[i]
       /\ \A i \in 1..Len(ext2) : buffer[1 + Len(ext1) + i] = ext2[i]
       /\ Len(s) = 1 + Len(ext1) + Len(ext2)
    <2> DEFINE p == <<byte0>>
    <2>1. p \in Seq(Byte) /\ Len(p) = 1 /\ p[1] = byte0
        BY SMT, <1>1
    <2>2. s = (p \o ext1) \o ext2
        BY <1>5
    <2> HIDE DEF p
    <2>3. InFront(s, rest, p, ext1, ext2)
        <3>1. InFront((p \o ext1) \o ext2, rest, p, ext1, ext2)
            BY Zenon, <1>4, <2>1, ThreeParts
        <3> QED BY Zenon, <3>1, <2>2
    <2> QED BY Zenon, <2>1, <2>3 DEF InFront
<1> HIDE DEF buffer
<1>11. start >= 32 => ReadExtension(buffer, 1) = Decoded(Len(ext1), start \div 32)
    <2> SUFFICES ASSUME start >= 32 PROVE ReadExtension(buffer, 1) = Decoded(Len(ext1), start \div 32)
        OBVIOUS
    <2> DEFINE v == start \div 32
    <2>1. ext1 = Extension(v)
        BY DEF ext1
    <2>2. v \in Nat /\ v < SIAMESE_PACKET_NUM_COUNT
        BY <1>2
    <2>3. 1 \in Nat
        OBVIOUS
    <2> HIDE DEF v
    <2>4. \A i \in 1..Len(Extension(v)) : buffer[1 + i] = Extension(v)[i]
        BY Zenon, <1>10, <2>1
    <2>5. ReadExtension(buffer, 1) = Decoded(Len(Extension(v)), v)
        BY <2>2, <2>3, <2>4, ExtensionReadsBack
    <2> QED BY Zenon, <2>1, <2>5 DEF v
<1>12. count >= 3 => ReadExtension(buffer, 1 + Len(ext1)) = Decoded(Len(ext2), count - 3)
    BY SMT, <1>3, <1>4, <1>10, ExtensionReadsBack DEF ext2
<1>13. start < 32 => Len(ext1) = 0
    BY SMT DEF ext1
<1>14. count < 3 => Len(ext2) = 0
    BY SMT DEF ext2
<1>15. Len(ext1) \in Nat /\ Len(ext2) \in Nat /\ Len(s) = 1 + Len(ext1) + Len(ext2)
    BY SMT, <1>4, <1>10
<1> DEFINE first == IF (buffer[1] \div 4) % 2 = 1 THEN ReadExtension(buffer, 1) ELSE Decoded(0, 0)
           second == IF buffer[1] % 4 = 3 THEN ReadExtension(buffer, 1 + first.bytes)
                     ELSE Decoded(0, 0)
<1>16. first = Decoded(Len(ext1), start \div 32)
    <2>1. CASE start >= 32
        BY SMT, <2>1, <1>1, <1>10, <1>11
    <2>2. CASE start < 32
        <3>1. start \div 32 = 0
            BY SMT, <2>2
        <3> QED BY SMT, <2>2, <3>1, <1>1, <1>10, <1>13
    <2> QED BY SMT, <2>1, <2>2
<1> HIDE DEF first
<1>17. first.bytes = Len(ext1) /\ first.value = start \div 32
    BY SMT, <1>16 DEF Decoded
<1>18. second = Decoded(Len(ext2), IF count >= 3 THEN count - 3 ELSE 0)
    <2>1. CASE count >= 3
        BY SMT, <2>1, <1>1, <1>10, <1>12, <1>17
    <2>2. CASE count < 3
        BY SMT, <2>2, <1>1, <1>10, <1>14
    <2> QED BY SMT, <2>1, <2>2
<1> HIDE DEF second
<1>19. second.bytes = Len(ext2) /\ second.value = IF count >= 3 THEN count - 3 ELSE 0
    BY SMT, <1>18 DEF Decoded
<1>20. DeserializeHeader_NACKLossRange(buffer, space) =
           Decoded(1 + first.bytes + second.bytes,
                   <<buffer[1] \div 8 + 32 * first.value, (buffer[1] % 4) + second.value>>)
    BY SMT DEF DeserializeHeader_NACKLossRange, kMaxLossRangeFieldBytes, first, second
<1>21. buffer[1] \div 8 + 32 * first.value = start
    BY SMT, <1>1, <1>10, <1>17
<1>22. (buffer[1] % 4) + second.value = count
    BY SMT, <1>1, <1>10, <1>19
<1>23. 1 + first.bytes + second.bytes = Len(s)
    BY SMT, <1>15, <1>17, <1>19
<1>24. DeserializeHeader_NACKLossRange(buffer, space) = Decoded(Len(s), <<start, count>>)
    BY <1>20, <1>21, <1>22, <1>23, Zenon
<1> QED BY <1>24, Zenon DEF s, buffer

-----------------------------------------------------------------------------
(* Recovery metadata *)

\* What lies in front of the last bytes.
LEMMA BeforeConcat ==
    ASSUME NEW rest \in Seq(Byte), NEW s \in Seq(Byte)
    PROVE  Before(rest \o s, Len(s)) = rest
<1> DEFINE whole == rest \o s
<1>1. /\ whole \in Seq(Byte) /\ Len(whole) = Len(rest) + Len(s)
      /\ \A i \in 1..Len(rest) : whole[i] = rest[i]
  BY ConcatBytes
<1>2. Len(rest) \in Nat /\ Len(s) \in Nat
  OBVIOUS
<1> HIDE DEF whole
<1>3. Before(whole, Len(s)) = SubSeq(whole, 1, Len(rest))
  <2>1. Len(whole) - Len(s) = Len(rest)
    BY <1>1, <1>2
  <2> QED BY <2>1 DEF Before
<1>4. /\ SubSeq(whole, 1, Len(rest)) \in Seq(Byte)
      /\ Len(SubSeq(whole, 1, Len(rest))) = Len(rest)
      /\ \A i \in 1..Len(rest) : SubSeq(whole, 1, Len(rest))[i] = whole[i]
  <2>1. \A i \in 1..Len(rest) : whole[i] \in Byte
    BY <1>1, <1>2
  <2>2. /\ SubSeq(whole, 1, Len(rest)) \in Seq(Byte)
        /\ Len(SubSeq(whole, 1, Len(rest))) =
              IF 1 <= Len(rest) THEN Len(rest) - 1 + 1 ELSE 0
        /\ \A i \in 1..(Len(rest) - 1 + 1) : SubSeq(whole, 1, Len(rest))[i] = whole[1 + i - 1]
    BY <1>2, <2>1, SubSeqProperties
  <2> QED BY <1>2, <2>2
<1>5. SubSeq(whole, 1, Len(rest)) = rest
  BY <1>1, <1>4, SameBytes
<1> QED BY <1>3, <1>5 DEF whole

\* The reader of metadata in terms of what it reads on the way.
LEMMA ReadMetadata ==
    ASSUME NEW buffer, NEW space,
           NEW sum, sum = DeserializeFooter_PacketCount(buffer, space),
           NEW column, column = DeserializeFooter_PacketNum(Before(buffer, sum.bytes),
                                                            space - sum.bytes),
           NEW rest, rest = Before(buffer, sum.bytes + column.bytes),
           NEW ldpc, ldpc = DeserializeFooter_PacketCount(rest, space - sum.bytes - column.bytes)
    PROVE  DeserializeFooter_RecoveryMetadata(buffer, space) =
             IF sum.bytes < 0 \/ column.bytes < 0 THEN FormatError
             ELSE IF sum.value + 1 <= 1
                  THEN Decoded(space - (space - sum.bytes - column.bytes),
                           [ColumnStart |-> column.value, SumCount |-> sum.value + 1,
                            LDPCCount |-> 1, Row |-> 0])
             ELSE IF \/ ldpc.bytes < 0 \/ sum.value + 1 < ldpc.value
                     \/ space - sum.bytes - column.bytes - ldpc.bytes < 1 THEN FormatError
             ELSE Decoded(space - (space - sum.bytes - column.bytes - ldpc.bytes) + 1,
                      [ColumnStart |-> column.value, SumCount |-> sum.value + 1,
                       LDPCCount |-> ldpc.value, Row |-> Last(Before(rest, ldpc.bytes))])
BY Zenon DEF DeserializeFooter_RecoveryMetadata

\* Metadata as it is read back: that of a single packet carries neither row nor
\* count.
MetadataRead(m) ==
    [ColumnStart |-> m.ColumnStart, SumCount |-> m.SumCount,
     LDPCCount |-> IF m.SumCount = 1 THEN 1 ELSE m.LDPCCount,
     Row |-> IF m.SumCount = 1 THEN 0 ELSE m.Row]

\* The parts of what a reader returns.
LEMMA DecodedFields ==
    /\ \A n, v : Decoded(n, v).bytes = n /\ Decoded(n, v).value = v
    /\ FormatError.bytes = -1
BY DEF Decoded, FormatError

LEMMA BytesInOrder ==
    ASSUME NEW p \in Seq(Byte), NEW q \in Seq(Byte), NEW r \in Seq(Byte)
    PROVE  (p \o q) \o r = p \o (q \o r)
<1> DEFINE B == Byte
<1>1. p \in Seq(B) /\ q \in Seq(B) /\ r \in Seq(B)
  OBVIOUS
<1> HIDE DEF B
<1> QED BY <1>1, ConcatAssociative

\* The metadata of a recovery packet, two to four footers one in front of the
\* other, reads back behind any bytes, for every row, column, sum count and
\* LDPC count, or is refused when it is cut short (SiameseSerializers.h:738, 761).
THEOREM RecoveryMetadataReadsBack ==
    ASSUME NEW m, m.Row \in Byte, m.ColumnStart \in Nat, m.ColumnStart < SIAMESE_PACKET_NUM_COUNT,
           m.SumCount \in 1..SIAMESE_MAX_PACKETS, m.LDPCCount \in 0..SIAMESE_MAX_PACKETS,
           m.LDPCCount <= m.SumCount,
           NEW rest \in Seq(Byte), NEW space \in Nat
    PROVE  IsReadBack(DeserializeFooter_RecoveryMetadata(
                          rest \o SerializeFooter_RecoveryMetadata(m), space),
                      SerializeFooter_RecoveryMetadata(m), space, MetadataRead(m),
                      kMaxRecoveryMetadataBytes)
<1>0. /\ m.SumCount \in 1..256 /\ m.SumCount - 1 \in Nat /\ m.SumCount - 1 <= SIAMESE_MAX_PACKETS
      /\ (m.SumCount - 1) + 1 = m.SumCount
      /\ m.LDPCCount \in Nat /\ m.LDPCCount <= SIAMESE_MAX_PACKETS
  <2>1. m.SumCount \in 1..256 /\ m.LDPCCount \in 0..256
    BY DEF SIAMESE_MAX_PACKETS
  <2>2. \A k \in 1..256 : k - 1 \in Nat /\ k - 1 <= 256 /\ (k - 1) + 1 = k
    OBVIOUS
  <2>3. \A k \in 0..256 : k \in Nat /\ k <= 256
    OBVIOUS
  <2> QED BY <2>1, <2>2, <2>3, Zenon DEF SIAMESE_MAX_PACKETS
<1>a. \A p, q, r \in Seq(Byte) : (p \o q) \o r = p \o (q \o r)
  BY Zenon, BytesInOrder
<1> DEFINE count == m.SumCount - 1
           C == SerializeFooter_PacketCount(count)
           N == SerializeFooter_PacketNum(m.ColumnStart)
           L == SerializeFooter_PacketCount(m.LDPCCount)
           X == IF m.SumCount > 1 THEN <<m.Row>> \o L ELSE <<>>
           s == SerializeFooter_RecoveryMetadata(m)
           buffer == rest \o s
           sum == DeserializeFooter_PacketCount(buffer, space)
           column == DeserializeFooter_PacketNum(Before(buffer, sum.bytes), space - sum.bytes)
           front == Before(buffer, sum.bytes + column.bytes)
           ldpc == DeserializeFooter_PacketCount(front, space - sum.bytes - column.bytes)
<1>1. s = (X \o N) \o C
  BY DEF SerializeFooter_RecoveryMetadata
<1>2. /\ count \in Nat /\ count <= SIAMESE_MAX_PACKETS /\ count + 1 = m.SumCount
      /\ m.LDPCCount \in Nat /\ m.LDPCCount <= SIAMESE_MAX_PACKETS
  BY <1>0, Zenon
<1>3. \A r \in Seq(Byte), n \in Nat :
        IsReadBack(DeserializeFooter_PacketCount(r \o C, n), C, n, count, kMaxPacketCountFieldBytes)
  <2> HIDE DEF count
  <2> QED BY <1>2, PacketCountFooterReadsBack
<1>4. \A r \in Seq(Byte), n \in Nat :
        IsReadBack(DeserializeFooter_PacketCount(r \o L, n), L, n, m.LDPCCount,
                   kMaxPacketCountFieldBytes)
  BY <1>2, PacketCountFooterReadsBack
<1>5. \A r \in Seq(Byte), n \in Nat :
        IsReadBack(DeserializeFooter_PacketNum(r \o N, n), N, n, m.ColumnStart,
                   kMaxPacketNumEncodedBytes)
  BY PacketNumFooterReadsBack
<1>6. /\ C \in Seq(Byte) /\ Len(C) \in 1..2
      /\ L \in Seq(Byte) /\ Len(L) \in 1..2
      /\ N \in Seq(Byte) /\ Len(N) \in 1..3
  <2> HIDE DEF C, L, N
  <2>1. <<>> \in Seq(Byte) /\ 0 \in Nat
    OBVIOUS
  <2> QED BY <1>3, <1>4, <1>5, <2>1
        DEF IsReadBack, kMaxPacketCountFieldBytes, kMaxPacketNumEncodedBytes
<1> HIDE DEF C, L, N, s, count
<1>7. <<m.Row>> \in Seq(Byte) /\ Len(<<m.Row>>) = 1
  OBVIOUS
<1>8. /\ X \in Seq(Byte)
      /\ Len(X) = IF m.SumCount > 1 THEN 1 + Len(L) ELSE 0
  BY <1>6, <1>7, ConcatBytes
<1> HIDE DEF X
<1>9. /\ X \o N \in Seq(Byte) /\ Len(X \o N) = Len(X) + Len(N)
      /\ s \in Seq(Byte) /\ Len(s) = Len(X) + Len(N) + Len(C)
  <2>1. X \o N \in Seq(Byte) /\ Len(X \o N) = Len(X) + Len(N)
    BY <1>6, <1>8, ConcatBytes
  <2> QED BY <1>1, <1>6, <2>1, ConcatBytes
<1>10. rest \o X \in Seq(Byte) /\ rest \o (X \o N) \in Seq(Byte)
  BY <1>8, <1>9, ConcatBytes
<1>11. buffer = (rest \o (X \o N)) \o C /\ rest \o (X \o N) = (rest \o X) \o N
  <2>1. rest \o ((X \o N) \o C) = (rest \o (X \o N)) \o C
    BY <1>a, <1>6, <1>9, Zenon
  <2>2. rest \o (X \o N) = (rest \o X) \o N
    BY <1>a, <1>6, <1>8, Zenon
  <2> QED BY <1>1, <2>1, <2>2, Zenon
<1> HIDE DEF buffer
<1>12. sum = IF space < Len(C) THEN FormatError ELSE Decoded(Len(C), count)
  BY <1>3, <1>10, <1>11 DEF IsReadBack
<1>13. ASSUME ~(space < Len(C))
       PROVE  /\ sum.bytes = Len(C) /\ sum.value = count /\ space - Len(C) \in Nat
              /\ Before(buffer, sum.bytes) = (rest \o X) \o N
  <2>1. sum.bytes = Len(C) /\ sum.value = count
    BY <1>12, <1>13, DecodedFields
  <2>2. space - Len(C) \in Nat
    BY <1>6, <1>13
  <2>3. Before(buffer, Len(C)) = rest \o (X \o N)
    BY <1>6, <1>10, <1>11, BeforeConcat
  <2> HIDE DEF sum
  <2> QED BY <1>11, <2>1, <2>2, <2>3
<1>14. ASSUME ~(space < Len(C))
       PROVE  column = IF space - Len(C) < Len(N) THEN FormatError
                       ELSE Decoded(Len(N), m.ColumnStart)
  <2>1. column = DeserializeFooter_PacketNum((rest \o X) \o N, space - Len(C))
    BY <1>13, <1>14, Zenon
  <2> QED BY <1>5, <1>10, <1>13, <1>14, <2>1 DEF IsReadBack
<1> HIDE DEF sum, column
<1>15. ASSUME ~(space < Len(C)), ~(space - Len(C) < Len(N))
       PROVE  /\ column.bytes = Len(N) /\ column.value = m.ColumnStart
              /\ space - Len(C) - Len(N) \in Nat
              /\ front = rest \o X
  <2>1. column.bytes = Len(N) /\ column.value = m.ColumnStart /\ sum.bytes = Len(C)
    BY <1>13, <1>14, <1>15, DecodedFields
  <2>2. space - Len(C) - Len(N) \in Nat
    BY <1>6, <1>15
  <2>3. Before(buffer, sum.bytes + column.bytes) = rest \o X
    <3>1. N \o C \in Seq(Byte) /\ Len(N \o C) = sum.bytes + column.bytes
      BY <1>6, <2>1, ConcatBytes
    <3>2. buffer = (rest \o X) \o (N \o C)
      <4>1. ((rest \o X) \o N) \o C = (rest \o X) \o (N \o C)
        <5> DEFINE T == rest \o X
        <5>1. T \in Seq(Byte) /\ N \in Seq(Byte) /\ C \in Seq(Byte)
          BY <1>6, <1>10
        <5> HIDE DEF T
        <5>2. (T \o N) \o C = T \o (N \o C)
          BY <1>a, <5>1, Zenon
        <5> QED BY <5>2, Zenon DEF T
      <4>2. buffer = ((rest \o X) \o N) \o C
        BY <1>11
      <4> QED BY <4>1, <4>2, Zenon
    <3> QED BY <1>10, <3>1, <3>2, BeforeConcat
  <2> QED BY <2>1, <2>2, <2>3
<1> DEFINE R == rest \o <<m.Row>>
<1>16. ASSUME m.SumCount > 1
       PROVE  /\ R \in Seq(Byte) /\ rest \o X = R \o L /\ Len(X) = 1 + Len(L)
              /\ Before(rest \o X, Len(L)) = R /\ Last(R) = m.Row
  <2>1. R \in Seq(Byte) /\ Len(R) = Len(rest) + 1 /\ R[Len(R)] = m.Row
    BY <1>7, ConcatBytes
  <2>2. rest \o X = R \o L
    <3>1. X = <<m.Row>> \o L
      BY <1>16 DEF X
    <3>2. (rest \o <<m.Row>>) \o L = rest \o (<<m.Row>> \o L)
      BY Zenon, <1>a, <1>6, <1>7
    <3> QED BY Zenon, <3>1, <3>2 DEF R
  <2>3. Before(R \o L, Len(L)) = R
    BY <1>6, <2>1, BeforeConcat
  <2>4. Last(R) = m.Row
    BY <2>1 DEF Last
  <2> QED BY <1>8, <1>16, <2>1, <2>2, <2>3, <2>4
<1> HIDE DEF R
<1>17. ASSUME ~(space < Len(C)), ~(space - Len(C) < Len(N)), m.SumCount > 1
       PROVE  ldpc = IF space - Len(C) - Len(N) < Len(L) THEN FormatError
                     ELSE Decoded(Len(L), m.LDPCCount)
  <2>1. ldpc = DeserializeFooter_PacketCount(R \o L, space - Len(C) - Len(N))
    BY <1>13, <1>15, <1>16, <1>17, Zenon
  <2> QED BY <1>4, <1>15, <1>16, <1>17, <2>1 DEF IsReadBack
<1> HIDE DEF ldpc, front
<1> DEFINE result == DeserializeFooter_RecoveryMetadata(buffer, space)
<1>18. result =
             IF sum.bytes < 0 \/ column.bytes < 0 THEN FormatError
             ELSE IF sum.value + 1 <= 1
                  THEN Decoded(space - (space - sum.bytes - column.bytes),
                           [ColumnStart |-> column.value, SumCount |-> sum.value + 1,
                            LDPCCount |-> 1, Row |-> 0])
             ELSE IF \/ ldpc.bytes < 0 \/ sum.value + 1 < ldpc.value
                     \/ space - sum.bytes - column.bytes - ldpc.bytes < 1 THEN FormatError
             ELSE Decoded(space - (space - sum.bytes - column.bytes - ldpc.bytes) + 1,
                      [ColumnStart |-> column.value, SumCount |-> sum.value + 1,
                       LDPCCount |-> ldpc.value, Row |-> Last(Before(front, ldpc.bytes))])
  BY ReadMetadata DEF sum, column, front, ldpc
<1> HIDE DEF result
<1>19. result = IF space < Len(s) THEN FormatError ELSE Decoded(Len(s), MetadataRead(m))
  <2>1. CASE space < Len(C)
    <3>1. sum.bytes < 0
      BY <1>12, <2>1, DecodedFields
    <3>2. space < Len(s)
      BY <1>6, <1>8, <1>9, <2>1
    <3> QED BY <1>18, <3>1, <3>2
  <2>2. CASE ~(space < Len(C)) /\ space - Len(C) < Len(N)
    <3>1. column.bytes < 0
      BY <1>14, <2>2, DecodedFields
    <3>2. space < Len(s)
      BY <1>6, <1>8, <1>9, <2>2
    <3> QED BY <1>18, <3>1, <3>2
  <2>3. CASE ~(space < Len(C)) /\ ~(space - Len(C) < Len(N)) /\ m.SumCount = 1
    <3>1. /\ sum.bytes = Len(C) /\ sum.value = count
          /\ column.bytes = Len(N) /\ column.value = m.ColumnStart
      BY <1>13, <1>15, <2>3
    <3>2. /\ ~(Len(C) < 0) /\ ~(Len(N) < 0) /\ sum.value + 1 = 1
          /\ space - (space - Len(C) - Len(N)) = Len(s) /\ ~(space < Len(s))
      BY <1>2, <1>6, <1>8, <1>9, <2>3, <3>1
    <3>3. result = Decoded(Len(s), [ColumnStart |-> m.ColumnStart, SumCount |-> 1,
                                    LDPCCount |-> 1, Row |-> 0])
      BY <1>18, <3>1, <3>2
    <3> QED BY <2>3, <3>2, <3>3 DEF MetadataRead
  <2>4. CASE ~(space < Len(C)) /\ ~(space - Len(C) < Len(N)) /\ m.SumCount > 1
    <3>1. /\ sum.bytes = Len(C) /\ sum.value = count
          /\ column.bytes = Len(N) /\ column.value = m.ColumnStart
      BY <1>13, <1>15, <2>4
    <3>2. ~(Len(C) < 0) /\ ~(Len(N) < 0) /\ sum.value + 1 = m.SumCount /\ ~(m.SumCount <= 1)
      BY <1>0, <1>2, <1>6, <2>4, <3>1
    <3>3. CASE space - Len(C) - Len(N) < Len(L)
      <4>1. ldpc.bytes < 0
        BY <1>17, <2>4, <3>3, DecodedFields
      <4>2. space < Len(s)
        BY <1>6, <1>8, <1>9, <2>4, <3>3
      <4> QED BY <1>18, <3>1, <3>2, <4>1, <4>2
    <3>4. CASE ~(space - Len(C) - Len(N) < Len(L))
      <4>1. ldpc.bytes = Len(L) /\ ldpc.value = m.LDPCCount
        BY <1>17, <2>4, <3>4, DecodedFields
      <4>2. /\ ~(Len(L) < 0) /\ ~(m.SumCount < m.LDPCCount)
            /\ (space - Len(C) - Len(N) - Len(L) < 1) <=> (space < Len(s))
            /\ space - (space - Len(C) - Len(N) - Len(L)) + 1 = Len(s)
        <5>1. Len(s) = 1 + Len(L) + Len(N) + Len(C)
          BY <1>6, <1>8, <1>9, <2>4
        <5>2. Len(L) \in Nat /\ Len(N) \in Nat /\ Len(C) \in Nat
          BY <1>6
        <5>3. m.SumCount \in Int /\ m.LDPCCount \in Int
          BY <1>0
        <5> QED BY <5>1, <5>2, <5>3
      <4>3. Last(Before(front, Len(L))) = m.Row
        BY <1>15, <1>16, <2>4
      <4>4. result = IF space < Len(s) THEN FormatError
                     ELSE Decoded(Len(s), [ColumnStart |-> m.ColumnStart, SumCount |-> m.SumCount,
                                           LDPCCount |-> m.LDPCCount, Row |-> m.Row])
        BY <1>18, <3>1, <3>2, <4>1, <4>2, <4>3
      <4>5. m.SumCount # 1
        BY <1>0, <2>4
      <4> QED BY <4>4, <4>5 DEF MetadataRead
    <3> QED BY <3>3, <3>4
  <2> QED BY <1>0, <2>1, <2>2, <2>3, <2>4
<1>20. Len(s) \in 1..kMaxRecoveryMetadataBytes
  <2>1. Len(X) \in 0..3
    <3>1. \A n \in 1..2 : 1 + n \in 0..3
      OBVIOUS
    <3>2. 0 \in 0..3
      OBVIOUS
    <3> QED BY <1>6, <1>8, <3>1, <3>2, Zenon
  <2>2. \A a \in 0..3, b \in 1..3, c \in 1..2 : a + b + c \in 1..8
    OBVIOUS
  <2> QED BY <1>6, <1>9, <2>1, <2>2, Zenon DEF kMaxRecoveryMetadataBytes
<1> QED BY <1>9, <1>19, <1>20 DEF IsReadBack, result, buffer, s

\* A loss range takes one to seven bytes.
LEMMA LossRangeBytes ==
    ASSUME NEW start \in Nat, start < SIAMESE_PACKET_NUM_COUNT,
           NEW count \in Nat, count < SIAMESE_PACKET_NUM_COUNT
    PROVE  /\ SerializeHeader_NACKLossRange(start, count) \in Seq(Byte)
           /\ Len(SerializeHeader_NACKLossRange(start, count)) \in 1..kMaxLossRangeFieldBytes
<1> DEFINE flags == IF count <= 2 THEN count ELSE 3
           low == flags + 8 * (start % 32)
           first == IF start >= 32 THEN <<low + 4>> \o Extension(start \div 32) ELSE <<low>>
           second == IF count >= 3 THEN Extension(count - 3) ELSE <<>>
<1>1. low \in Byte /\ low + 4 \in Byte
  <2>1. flags \in 0..3 /\ start % 32 \in 0..31
    OBVIOUS
  <2> HIDE DEF flags
  <2> QED BY <2>1 DEF Byte
<1> HIDE DEF low
<1>2. /\ <<low>> \in Seq(Byte) /\ Len(<<low>>) = 1
      /\ <<low + 4>> \in Seq(Byte) /\ Len(<<low + 4>>) = 1
  BY <1>1
<1>3. first \in Seq(Byte) /\ Len(first) \in 1..4
  <2>1. CASE start >= 32
    <3> DEFINE v == start \div 32
    <3>1. v \in Nat /\ v < SIAMESE_PACKET_NUM_COUNT
      BY DEF SIAMESE_PACKET_NUM_COUNT
    <3> HIDE DEF v
    <3>2. Extension(v) \in Seq(Byte) /\ Len(Extension(v)) \in 1..3
      BY <3>1, ExtensionBytes
    <3>3. /\ <<low + 4>> \o Extension(v) \in Seq(Byte)
          /\ Len(<<low + 4>> \o Extension(v)) = 1 + Len(Extension(v))
      BY <1>2, <3>2, ConcatBytes
    <3>4. first = <<low + 4>> \o Extension(v)
      BY <2>1 DEF v
    <3> HIDE DEF first
    <3>5. Len(first) \in 1..4
      BY <3>2, <3>3, <3>4
    <3> QED BY <3>3, <3>4, <3>5
  <2>2. CASE ~(start >= 32)
    <3>1. first = <<low>>
      BY <2>2
    <3>2. 1 \in 1..4
      OBVIOUS
    <3> QED BY <1>2, <3>1, <3>2, Zenon
  <2> QED BY <2>1, <2>2
<1>4. second \in Seq(Byte) /\ Len(second) \in 0..3
  <2>1. CASE count >= 3
    <3>1. count - 3 \in Nat /\ count - 3 < SIAMESE_PACKET_NUM_COUNT
      BY <2>1 DEF SIAMESE_PACKET_NUM_COUNT
    <3>2. Extension(count - 3) \in Seq(Byte) /\ Len(Extension(count - 3)) \in 1..3
      BY <3>1, ExtensionBytes
    <3>3. second = Extension(count - 3)
      BY <2>1
    <3> HIDE DEF second
    <3> QED BY <3>2, <3>3
  <2>2. CASE ~(count >= 3)
    <3>1. second = <<>>
      BY <2>2
    <3>2. <<>> \in Seq(Byte) /\ Len(<<>>) = 0 /\ 0 \in 0..3
      OBVIOUS
    <3> QED BY <3>1, <3>2, Zenon
  <2> QED BY <2>1, <2>2
<1>5. SerializeHeader_NACKLossRange(start, count) = first \o second
  BY Zenon DEF SerializeHeader_NACKLossRange, flags, low, first, second
<1> HIDE DEF first, second
<1>6. first \o second \in Seq(Byte) /\ Len(first \o second) = Len(first) + Len(second)
  BY <1>3, <1>4, ConcatBytes
<1>7. Len(first) + Len(second) \in 1..7
  <2>1. \A a \in 1..4, b \in 0..3 : a + b \in 1..7
    OBVIOUS
  <2> QED BY <1>3, <1>4, <2>1, Zenon
<1> QED BY <1>5, <1>6, <1>7 DEF kMaxLossRangeFieldBytes

-----------------------------------------------------------------------------
(* Plain values *)

LEMMA LastDigit ==
    ASSUME NEW v \in Nat, NEW w, w = v \div 256, NEW m, m = v % 256
    PROVE  v = m + 256 * w /\ w \in Nat /\ m \in Byte
BY DEF Byte

\* The digits of a value to the base 256.
LEMMA Digits ==
    ASSUME NEW v \in Nat
    PROVE  /\ v \div 65536 = (v \div 256) \div 256
           /\ v \div 16777216 = ((v \div 256) \div 256) \div 256
<1>1. v \div 65536 = (v \div 256) \div 256
  OBVIOUS
<1>2. v \div 16777216 = ((v \div 256) \div 256) \div 256
  OBVIOUS
<1> QED BY <1>1, <1>2

LEMMA ReadParts ==
    ASSUME NEW buffer, NEW n \in 1..4
    PROVE  /\ n = 1 => ReadLE(buffer, n) = buffer[1] * Place[1] + 0 + 0 + 0
           /\ n = 2 => ReadLE(buffer, n) = buffer[1] * Place[1] + buffer[2] * Place[2] + 0 + 0
           /\ n = 3 => ReadLE(buffer, n) = buffer[1] * Place[1] + buffer[2] * Place[2]
                                            + buffer[3] * Place[3] + 0
           /\ n = 4 => ReadLE(buffer, n) = buffer[1] * Place[1] + buffer[2] * Place[2]
                                            + buffer[3] * Place[3] + buffer[4] * Place[4]
<1> DEFINE part(i) == IF i <= n THEN buffer[i] * Place[i] ELSE 0
<1>1. ReadLE(buffer, n) = part(1) + part(2) + part(3) + part(4)
  BY Zenon DEF ReadLE
<1>2. \A i \in 1..4 : part(i) = IF i <= n THEN buffer[i] * Place[i] ELSE 0
  OBVIOUS
<1>3. /\ n = 1 => 1 <= n /\ ~(2 <= n) /\ ~(3 <= n) /\ ~(4 <= n)
      /\ n = 2 => 1 <= n /\ 2 <= n /\ ~(3 <= n) /\ ~(4 <= n)
      /\ n = 3 => 1 <= n /\ 2 <= n /\ 3 <= n /\ ~(4 <= n)
      /\ n = 4 => 1 <= n /\ 2 <= n /\ 3 <= n /\ 4 <= n
  OBVIOUS
<1>4. 1 \in 1..4 /\ 2 \in 1..4 /\ 3 \in 1..4 /\ 4 \in 1..4
  OBVIOUS
<1>5. /\ 1 <= n => part(1) = buffer[1] * Place[1]
      /\ 2 <= n => part(2) = buffer[2] * Place[2]
      /\ 3 <= n => part(3) = buffer[3] * Place[3]
      /\ 4 <= n => part(4) = buffer[4] * Place[4]
      /\ ~(2 <= n) => part(2) = 0
      /\ ~(3 <= n) => part(3) = 0
      /\ ~(4 <= n) => part(4) = 0
  OBVIOUS
<1> HIDE DEF part
<1> QED BY <1>1, <1>3, <1>5, Zenon

\* A value of up to four bytes reads back from the front of any bytes, least
\* significant byte first (SiameseSerializers.h:60, 104).
THEOREM PlainReadsBack ==
    ASSUME NEW n \in 1..4, NEW v \in Nat, v \div Place[n] <= 255, NEW rest \in Seq(Byte)
    PROVE  /\ WriteLE(v, n) \in Seq(Byte) /\ Len(WriteLE(v, n)) = n
           /\ ReadLE(WriteLE(v, n) \o rest, n) = v
<1> DEFINE s == WriteLE(v, n)
           w1 == v \div 256
           w2 == w1 \div 256
           w3 == w2 \div 256
           b1 == v % 256
           b2 == w1 % 256
           b3 == w2 % 256
           b4 == w3 % 256
<1>1. /\ v = b1 + 256 * w1 /\ w1 \in Nat /\ b1 \in Byte
      /\ w1 = b2 + 256 * w2 /\ w2 \in Nat /\ b2 \in Byte
      /\ w2 = b3 + 256 * w3 /\ w3 \in Nat /\ b3 \in Byte
      /\ b4 \in Byte
  <2>1. v = b1 + 256 * w1 /\ w1 \in Nat /\ b1 \in Byte
    BY LastDigit
  <2> HIDE DEF w1, b1
  <2>2. w1 = b2 + 256 * w2 /\ w2 \in Nat /\ b2 \in Byte
    BY <2>1, LastDigit
  <2> HIDE DEF w2, b2
  <2>3. w2 = b3 + 256 * w3 /\ w3 \in Nat /\ b3 \in Byte
    BY <2>2, LastDigit
  <2> HIDE DEF w3, b3
  <2>4. b4 \in Byte
    BY <2>3 DEF Byte
  <2> QED BY <2>1, <2>2, <2>3, <2>4
<1>2. v \div 65536 = w2 /\ v \div 16777216 = w3
  BY Digits
<1>3. /\ Place[1] = 1 /\ Place[2] = 256 /\ Place[3] = 65536 /\ Place[4] = 16777216
  BY DEF Place
<1>4. v \div 1 = v
  OBVIOUS
<1> DEFINE d == <<b1, b2, b3, b4>>
<1>5. d[1] = b1 /\ d[2] = b2 /\ d[3] = b3 /\ d[4] = b4
  OBVIOUS
<1>6. \A i \in 1..4 : (v \div Place[i]) % 256 = d[i] /\ d[i] \in Byte
  <2> HIDE DEF d
  <2>1. \A i \in 1..4 : i = 1 \/ i = 2 \/ i = 3 \/ i = 4
    OBVIOUS
  <2>2. (v \div Place[1]) % 256 = d[1]
    BY <1>3, <1>4, <1>5
  <2>3. (v \div Place[2]) % 256 = d[2]
    BY <1>3, <1>5
  <2>4. (v \div Place[3]) % 256 = d[3]
    <3>1. v \div Place[3] = w2
      BY <1>2, <1>3
    <3> QED BY <1>5, <3>1
  <2>5. (v \div Place[4]) % 256 = d[4]
    <3>1. v \div Place[4] = w3
      BY <1>2, <1>3
    <3> QED BY <1>5, <3>1
  <2> HIDE DEF w1, w2, w3, b1, b2, b3, b4
  <2>6. d[1] \in Byte /\ d[2] \in Byte /\ d[3] \in Byte /\ d[4] \in Byte
    BY <1>1, <1>5
  <2> QED BY <2>1, <2>2, <2>3, <2>4, <2>5, <2>6
<1> HIDE DEF d, w1, w2, w3, b1, b2, b3, b4
<1>7. s = [i \in 1..n |-> d[i]]
  <2>1. \A i \in 1..n : i \in 1..4
    OBVIOUS
  <2>2. \A i \in 1..n : (v \div Place[i]) % 256 = d[i]
    BY <1>6, <2>1, Zenon
  <2> QED BY <2>2, Zenon DEF WriteLE
<1>8. s \in Seq(Byte) /\ Len(s) = n /\ \A i \in 1..n : s[i] = d[i]
  <2>1. \A i \in 1..n : d[i] \in Byte
    BY <1>6
  <2> HIDE DEF s
  <2> QED BY <1>7, <2>1
<1> HIDE DEF s
<1>9. \A i \in 1..n : (s \o rest)[i] = d[i]
  BY <1>8, ConcatBytes
<1> DEFINE buffer == s \o rest
<1>10. \A i \in 1..n : buffer[i] = d[i]
  BY <1>9
<1> HIDE DEF buffer
<1>11. /\ n = 1 => v <= 255
       /\ n = 2 => w1 <= 255
       /\ n = 3 => w2 <= 255
       /\ n = 4 => w3 <= 255
  <2>1. v \div 256 = w1
    BY DEF w1
  <2>2. n = 1 => v \div 1 <= 255
    BY <1>3
  <2>3. n = 2 => w1 <= 255
    BY <1>3, <2>1
  <2>4. n = 3 => w2 <= 255
    BY <1>2, <1>3
  <2>5. n = 4 => w3 <= 255
    BY <1>2, <1>3
  <2> QED BY <1>4, <2>2, <2>3, <2>4, <2>5
<1>12. ReadLE(buffer, n) = v
  <2>1. CASE n = 1
    <3>1. ReadLE(buffer, n) = b1 * 1 + 0 + 0 + 0
      BY <1>3, <1>5, <1>10, <2>1, ReadParts
    <3>2. v = b1
      BY <1>1, <1>11, <2>1 DEF Byte
    <3> QED BY <1>1, <3>1, <3>2 DEF Byte
  <2>2. CASE n = 2
    <3>1. ReadLE(buffer, n) = b1 * 1 + b2 * 256 + 0 + 0
      BY <1>3, <1>5, <1>10, <2>2, ReadParts
    <3>2. w2 = 0
      BY <1>1, <1>11, <2>2 DEF Byte
    <3> QED BY <1>1, <3>1, <3>2 DEF Byte
  <2>3. CASE n = 3
    <3>1. ReadLE(buffer, n) = b1 * 1 + b2 * 256 + b3 * 65536 + 0
      BY <1>3, <1>5, <1>10, <2>3, ReadParts
    <3>2. w3 = 0
      BY <1>1, <1>11, <2>3 DEF Byte
    <3> QED BY <1>1, <3>1, <3>2 DEF Byte
  <2>4. CASE n = 4
    <3>1. ReadLE(buffer, n) = b1 * 1 + b2 * 256 + b3 * 65536 + b4 * 16777216
      BY <1>3, <1>5, <1>10, <2>4, ReadParts
    <3>2. w3 \in Byte
      BY <1>1, <1>11, <2>4 DEF Byte
    <3>3. b4 = w3
      BY <3>2 DEF b4, Byte
    <3> QED BY <1>1, <3>1, <3>3 DEF Byte
  <2> QED BY <2>1, <2>2, <2>3, <2>4
<1> QED BY <1>8, <1>12 DEF s, buffer

-----------------------------------------------------------------------------
(* A field of any kind *)

\* What the reader of a field returns that has the bytes s, when it was given
\* space for them, and when it was not.
Reads(decoded, s, space, value, kind) ==
    /\ space >= Len(s) => decoded = Decoded(Len(s), value)
    /\ (space < Len(s) /\ kind \notin DOMAIN PlainBytes) => decoded = FormatError

LEMMA ReadsOfReadBack ==
    ASSUME NEW decoded, NEW s, NEW space \in Nat, NEW value, NEW kind, NEW maxBytes \in Nat,
           IsReadBack(decoded, s, space, value, maxBytes)
    PROVE  /\ s \in Seq(Byte) /\ Len(s) \in 1..maxBytes
           /\ Reads(decoded, s, space, value, kind)
<1>1. /\ s \in Seq(Byte) /\ Len(s) \in 1..maxBytes
      /\ decoded = IF space < Len(s) THEN FormatError ELSE Decoded(Len(s), value)
  BY DEF IsReadBack
<1>2. Len(s) \in Nat /\ (space >= Len(s) => ~(space < Len(s)))
  BY <1>1
<1> QED BY <1>1, <1>2, Zenon DEF Reads

LEMMA PlainKinds ==
    /\ DOMAIN PlainBytes = {"U8", "U16", "U24", "U32"}
    /\ PlainBytes["U8"] = 1 /\ PlainBytes["U16"] = 2
    /\ PlainBytes["U24"] = 3 /\ PlainBytes["U32"] = 4
BY DEF PlainBytes

LEMMA NumbersAreNatural ==
    \A v \in PacketNumbers : v \in Nat /\ v < SIAMESE_PACKET_NUM_COUNT
BY Zenon DEF PacketNumbers

LEMMA HeaderReads ==
    ASSUME NEW field \in Headers
    PROVE  /\ SerializeHeader(field) \in Seq(Byte)
           /\ Len(SerializeHeader(field)) \in 1..MaxBytes(field.kind)
           /\ \A rest \in Seq(Byte), space \in Nat :
                (field.kind = "NACKLossRange" => space >= kMaxLossRangeFieldBytes) =>
                    Reads(DeserializeHeader(field.kind, SerializeHeader(field) \o rest, space),
                          SerializeHeader(field), space, field.value, field.kind)
<1>1. field.kind \in HeaderKinds /\ field.value \in ValuesOf(field.kind)
  BY HeadersAssumption
<1>2. /\ kMaxPacketNumEncodedBytes \in Nat /\ kMaxPacketCountFieldBytes \in Nat
      /\ kMaxPacketLengthFieldBytes \in Nat
  BY DEF kMaxPacketNumEncodedBytes, kMaxPacketCountFieldBytes, kMaxPacketLengthFieldBytes
<1>3. <<>> \in Seq(Byte) /\ 0 \in Nat
  OBVIOUS
<1> DEFINE s == SerializeHeader(field)
           v == field.value
<1>0. SUFFICES /\ s \in Seq(Byte) /\ Len(s) \in 1..MaxBytes(field.kind)
               /\ \A rest \in Seq(Byte), space \in Nat :
                    (field.kind = "NACKLossRange" => space >= kMaxLossRangeFieldBytes) =>
                        Reads(DeserializeHeader(field.kind, s \o rest, space),
                              s, space, v, field.kind)
  BY Zenon
<1>4. CASE field.kind = "PacketNum"
  <2>1. /\ s = SerializeHeader_PacketNum(v) /\ MaxBytes(field.kind) = kMaxPacketNumEncodedBytes
        /\ \A buffer, space : DeserializeHeader(field.kind, buffer, space) =
                                  DeserializeHeader_PacketNum(buffer, space)
    BY Zenon, <1>4 DEF SerializeHeader, MaxBytes, DeserializeHeader
  <2>2. v \in Nat /\ v < SIAMESE_PACKET_NUM_COUNT
    <3>1. v \in PacketNumbers
      BY Zenon, <1>1, <1>4 DEF ValuesOf
    <3> HIDE DEF v
    <3> QED BY <3>1, NumbersAreNatural
  <2> HIDE DEF s, v
  <2>3. \A rest \in Seq(Byte), space \in Nat :
            IsReadBack(DeserializeHeader(field.kind, s \o rest, space), s, space, v, kMaxPacketNumEncodedBytes)
    BY <2>1, <2>2, PacketNumReadsBack
  <2>4. \A rest \in Seq(Byte), space \in Nat :
            /\ s \in Seq(Byte) /\ Len(s) \in 1..kMaxPacketNumEncodedBytes
            /\ Reads(DeserializeHeader(field.kind, s \o rest, space), s, space, v, field.kind)
    BY <1>2, <2>3, ReadsOfReadBack
  <2> QED BY <1>3, <2>1, <2>4, Zenon
<1>5. CASE field.kind = "PacketCount"
  <2>1. /\ s = SerializeHeader_PacketCount(v) /\ MaxBytes(field.kind) = kMaxPacketCountFieldBytes
        /\ \A buffer, space : DeserializeHeader(field.kind, buffer, space) =
                                  DeserializeHeader_PacketCount(buffer, space)
    BY Zenon, <1>5 DEF SerializeHeader, MaxBytes, DeserializeHeader
  <2>2. v \in Nat /\ v <= SIAMESE_MAX_PACKETS
    <3>1. v \in 0..SIAMESE_MAX_PACKETS
      BY Zenon, <1>1, <1>5 DEF ValuesOf
    <3> HIDE DEF v
    <3> QED BY <3>1 DEF SIAMESE_MAX_PACKETS
  <2> HIDE DEF s, v
  <2>3. \A rest \in Seq(Byte), space \in Nat :
            IsReadBack(DeserializeHeader(field.kind, s \o rest, space), s, space, v, kMaxPacketCountFieldBytes)
    BY <2>1, <2>2, PacketCountReadsBack
  <2>4. \A rest \in Seq(Byte), space \in Nat :
            /\ s \in Seq(Byte) /\ Len(s) \in 1..kMaxPacketCountFieldBytes
            /\ Reads(DeserializeHeader(field.kind, s \o rest, space), s, space, v, field.kind)
    BY <1>2, <2>3, ReadsOfReadBack
  <2> QED BY <1>3, <2>1, <2>4, Zenon
<1>6. CASE field.kind = "PacketLength"
  <2>1. /\ s = SerializeHeader_PacketLength(v) /\ MaxBytes(field.kind) = kMaxPacketLengthFieldBytes
        /\ \A buffer, space : DeserializeHeader(field.kind, buffer, space) =
                                  DeserializeHeader_PacketLength(buffer, space)
    BY Zenon, <1>6 DEF SerializeHeader, MaxBytes, DeserializeHeader
  <2>2. v \in Nat /\ v <= 536870911
    <3>1. v \in PacketLengths
      BY Zenon, <1>1, <1>6 DEF ValuesOf
    <3> HIDE DEF v
    <3> QED BY SMT, <3>1 DEF PacketLengths
  <2> HIDE DEF s, v
  <2>3. \A rest \in Seq(Byte), space \in Nat :
            IsReadBack(DeserializeHeader(field.kind, s \o rest, space), s, space, v, kMaxPacketLengthFieldBytes)
    BY SMT, <2>1, <2>2, PacketLengthReadsBack
  <2>4. \A rest \in Seq(Byte), space \in Nat :
            /\ s \in Seq(Byte) /\ Len(s) \in 1..kMaxPacketLengthFieldBytes
            /\ Reads(DeserializeHeader(field.kind, s \o rest, space), s, space, v, field.kind)
    BY <1>2, <2>3, ReadsOfReadBack
  <2> QED BY <1>3, <2>1, <2>4, Zenon
<1>7. CASE field.kind = "NACKLossRange"
  <2>1. /\ s = SerializeHeader_NACKLossRange(v[1], v[2])
        /\ MaxBytes(field.kind) = kMaxLossRangeFieldBytes
        /\ \A buffer, space : DeserializeHeader(field.kind, buffer, space) =
                                  DeserializeHeader_NACKLossRange(buffer, space)
    BY Zenon, <1>7 DEF SerializeHeader, MaxBytes, DeserializeHeader
  <2>2. v \in PacketNumbers \X PacketNumbers
    BY Zenon, <1>1, <1>7 DEF ValuesOf
  <2> HIDE DEF s, v
  <2>3. /\ v[1] \in PacketNumbers /\ v[2] \in PacketNumbers /\ v = <<v[1], v[2]>>
    BY <2>2
  <2>4. /\ v[1] \in Nat /\ v[1] < SIAMESE_PACKET_NUM_COUNT
        /\ v[2] \in Nat /\ v[2] < SIAMESE_PACKET_NUM_COUNT
    BY <2>3, NumbersAreNatural
  <2>5. s \in Seq(Byte) /\ Len(s) \in 1..kMaxLossRangeFieldBytes
    BY <2>1, <2>4, LossRangeBytes
  <2>6. ASSUME NEW rest \in Seq(Byte), NEW space \in Nat, space >= kMaxLossRangeFieldBytes
        PROVE  Reads(DeserializeHeader(field.kind, s \o rest, space), s, space, v, field.kind)
    <3>1. DeserializeHeader(field.kind, s \o rest, space) = Decoded(Len(s), v)
      <4>1. DeserializeHeader_NACKLossRange(
                SerializeHeader_NACKLossRange(v[1], v[2]) \o rest, space)
            = Decoded(Len(SerializeHeader_NACKLossRange(v[1], v[2])), <<v[1], v[2]>>)
        BY <2>4, <2>6, NACKLossRangeReadsBack
      <4> QED BY Zenon, <2>1, <2>3, <4>1
    <3>2. space >= Len(s) /\ ~(space < Len(s))
      <4>1. \A k \in 1..7, n \in Nat : n >= 7 => n >= k /\ ~(n < k)
        OBVIOUS
      <4> QED BY <2>5, <2>6, <4>1 DEF kMaxLossRangeFieldBytes
    <3> QED BY Zenon, <3>1, <3>2 DEF Reads
  <2> QED BY Zenon, <1>7, <2>1, <2>5, <2>6
<1>8. CASE field.kind \in DOMAIN PlainBytes
  <2> DEFINE n == PlainBytes[field.kind]
  <2>1. /\ field.kind \notin {"PacketNum", "PacketCount", "PacketLength", "NACKLossRange",
                              "RecoveryMetadata"}
        /\ n \in 1..4
    BY <1>8, PlainKinds
  <2>2. /\ s = WriteLE(v, n) /\ MaxBytes(field.kind) = n
        /\ \A buffer, space : DeserializeHeader(field.kind, buffer, space) =
                                  Decoded(n, ReadLE(buffer, n))
    BY Zenon, <2>1 DEF SerializeHeader, MaxBytes, DeserializeHeader
  <2>3. v \in {w \in Nat : w \div Place[n] <= 255}
    BY Zenon, <1>1, <2>1 DEF ValuesOf
  <2> HIDE DEF s, v, n
  <2>4. v \in Nat /\ v \div Place[n] <= 255
    BY <2>3
  <2>5. ASSUME NEW rest \in Seq(Byte)
        PROVE  s \in Seq(Byte) /\ Len(s) = n /\ ReadLE(s \o rest, n) = v
    BY <2>1, <2>2, <2>4, PlainReadsBack
  <2>6. ASSUME NEW rest \in Seq(Byte), NEW space \in Nat
        PROVE  Reads(DeserializeHeader(field.kind, s \o rest, space), s, space, v, field.kind)
    BY Zenon, <1>8, <2>2, <2>5 DEF Reads
  <2>7. n \in 1..n
    BY <2>1
  <2> QED BY Zenon, <1>3, <2>2, <2>5, <2>6, <2>7
<1> QED BY Zenon, <1>1, <1>4, <1>5, <1>6, <1>7, <1>8 DEF HeaderKinds

LEMMA FooterReads ==
    ASSUME NEW field \in Footers, NEW rest \in Seq(Byte), NEW space \in Nat
    PROVE  IsReadBack(DeserializeFooter(field.kind, rest \o SerializeFooter(field), space),
                      SerializeFooter(field), space, AsRead(field), MaxBytes(field.kind))
<1>1. field.kind \in FooterKinds /\ field.value \in ValuesOf(field.kind)
  BY FootersAssumption
<1> DEFINE s == SerializeFooter(field)
           v == field.value
           r == AsRead(field)
<1>0. SUFFICES IsReadBack(DeserializeFooter(field.kind, rest \o s, space), s, space, r,
                          MaxBytes(field.kind))
  BY Zenon
<1>2. CASE field.kind = "PacketNum"
  <2>1. /\ s = SerializeFooter_PacketNum(v) /\ MaxBytes(field.kind) = kMaxPacketNumEncodedBytes
        /\ \A buffer, space_1 : DeserializeFooter(field.kind, buffer, space_1) =
                                  DeserializeFooter_PacketNum(buffer, space_1)
        /\ r = v
    BY Zenon, <1>2 DEF SerializeFooter, MaxBytes, DeserializeFooter, AsRead
  <2>2. v \in Nat /\ v < SIAMESE_PACKET_NUM_COUNT
    <3>1. v \in PacketNumbers
      BY Zenon, <1>1, <1>2 DEF ValuesOf
    <3> HIDE DEF v
    <3> QED BY <3>1, NumbersAreNatural
  <2> HIDE DEF s, v, r
  <2>3. IsReadBack(DeserializeFooter(field.kind, rest \o s, space), s, space, v, kMaxPacketNumEncodedBytes)
    BY <2>1, <2>2, PacketNumFooterReadsBack
  <2>4. IsReadBack(DeserializeFooter(field.kind, rest \o s, space), s, space, r,
                       MaxBytes(field.kind))
    BY <2>1, <2>3, Zenon
  <2> QED BY <2>4, Zenon
<1>3. CASE field.kind = "PacketCount"
  <2>1. /\ s = SerializeFooter_PacketCount(v) /\ MaxBytes(field.kind) = kMaxPacketCountFieldBytes
        /\ \A buffer, space_1 : DeserializeFooter(field.kind, buffer, space_1) =
                                  DeserializeFooter_PacketCount(buffer, space_1)
        /\ r = v
    BY Zenon, <1>3 DEF SerializeFooter, MaxBytes, DeserializeFooter, AsRead
  <2>2. v \in Nat /\ v <= SIAMESE_MAX_PACKETS
    <3>1. v \in 0..SIAMESE_MAX_PACKETS
      BY Zenon, <1>1, <1>3 DEF ValuesOf
    <3> HIDE DEF v
    <3> QED BY <3>1 DEF SIAMESE_MAX_PACKETS
  <2> HIDE DEF s, v, r
  <2>3. IsReadBack(DeserializeFooter(field.kind, rest \o s, space), s, space, v, kMaxPacketCountFieldBytes)
    BY <2>1, <2>2, PacketCountFooterReadsBack
  <2>4. IsReadBack(DeserializeFooter(field.kind, rest \o s, space), s, space, r,
                       MaxBytes(field.kind))
    BY <2>1, <2>3, Zenon
  <2> QED BY <2>4, Zenon
<1>4. CASE field.kind = "PacketLength"
  <2>1. /\ s = SerializeFooter_PacketLength(v) /\ MaxBytes(field.kind) = kMaxPacketLengthFieldBytes
        /\ \A buffer, space_1 : DeserializeFooter(field.kind, buffer, space_1) =
                                  DeserializeFooter_PacketLength(buffer, space_1)
        /\ r = v
    BY Zenon, <1>4 DEF SerializeFooter, MaxBytes, DeserializeFooter, AsRead
  <2>2. v \in Nat /\ v <= 536870911
    <3>1. v \in PacketLengths
      BY Zenon, <1>1, <1>4 DEF ValuesOf
    <3> HIDE DEF v
    <3> QED BY SMT, <3>1 DEF PacketLengths
  <2> HIDE DEF s, v, r
  <2>3. IsReadBack(DeserializeFooter(field.kind, rest \o s, space), s, space, v, kMaxPacketLengthFieldBytes)
    BY SMT, <2>1, <2>2, PacketLengthFooterReadsBack
  <2>4. IsReadBack(DeserializeFooter(field.kind, rest \o s, space), s, space, r,
                       MaxBytes(field.kind))
    BY <2>1, <2>3, Zenon
  <2> QED BY <2>4, Zenon
<1>5. CASE field.kind = "RecoveryMetadata"
  <2>1. /\ s = SerializeFooter_RecoveryMetadata(v)
        /\ MaxBytes(field.kind) = kMaxRecoveryMetadataBytes
        /\ \A buffer, space_1 : DeserializeFooter(field.kind, buffer, space_1) =
                                    DeserializeFooter_RecoveryMetadata(buffer, space_1)
        /\ r = IF v.SumCount = 1 THEN [v EXCEPT !.LDPCCount = 1, !.Row = 0] ELSE v
    BY Zenon, <1>5 DEF SerializeFooter, MaxBytes, DeserializeFooter, AsRead
  <2>2. v \in Metadata
    BY Zenon, <1>1, <1>5 DEF ValuesOf
  <2> HIDE DEF s, v, r
  <2>3. /\ v \in [Row : Row, ColumnStart : Column,
                  SumCount : 1..SIAMESE_MAX_PACKETS, LDPCCount : 0..SIAMESE_MAX_PACKETS]
        /\ v.LDPCCount <= v.SumCount
    BY <2>2, Zenon DEF Metadata
  <2>4. /\ v.Row \in Row /\ v.ColumnStart \in Column
        /\ v.SumCount \in 1..SIAMESE_MAX_PACKETS /\ v.LDPCCount \in 0..SIAMESE_MAX_PACKETS
    BY <2>3, Zenon
  <2>5. v.Row \in Byte
    <3>1. \A n \in Row : n \in Byte
      BY SMT DEF Row, Byte, kRowPeriod, kRowValuePeriod
    <3> QED BY <2>4, <3>1, Zenon
  <2>6. v.ColumnStart \in Nat /\ v.ColumnStart < SIAMESE_PACKET_NUM_COUNT
    BY SMT, <2>4 DEF Column, kColumnPeriod, SIAMESE_PACKET_NUM_COUNT
  <2>7. r = MetadataRead(v)
    BY <2>1, <2>3 DEF MetadataRead
  <2>8. IsReadBack(DeserializeFooter_RecoveryMetadata(
                       rest \o SerializeFooter_RecoveryMetadata(v), space),
                   SerializeFooter_RecoveryMetadata(v), space, MetadataRead(v),
                   kMaxRecoveryMetadataBytes)
    BY <2>3, <2>4, <2>5, <2>6, RecoveryMetadataReadsBack
  <2> QED BY <2>1, <2>7, <2>8, Zenon
<1> QED BY Zenon, <1>1, <1>2, <1>3, <1>4, <1>5 DEF FooterKinds

-----------------------------------------------------------------------------
(* Pieces of bytes, one behind another                                       *)

\* The bytes of data from `from` to `to` are the n pieces p[1], p[2] and so on.
\* The i-th ends at at[i].
Laid(data, p, n, from, to) ==
    \E at \in [0..n -> Nat] :
        /\ at[0] = from /\ at[n] = to
        /\ \A i, j \in 0..n : i <= j => at[i] <= at[j]
        /\ \A i \in 1..n :
            /\ at[i] = at[i - 1] + Len(p[i])
            /\ \A k \in 1..Len(p[i]) : data[at[i - 1] + k] = p[i][k]

\* The bytes s are in data behind the first n.
HasAt(data, n, s) == \A k \in 1..Len(s) : data[n + k] = s[k]

\* One piece more at the end.
LEMMA LaidMore ==
    ASSUME NEW data \in Seq(Byte), NEW p, NEW n \in Nat, NEW from \in Nat, NEW s \in Seq(Byte),
           Laid(data, p, n, from, Len(data)), \A i \in 1..n : Len(p[i]) \in Nat,
           NEW q, \A i \in 1..n : q[i] = p[i], q[n + 1] = s
    PROVE  Laid(data \o s, q, n + 1, from, Len(data) + Len(s))
<1> DEFINE to == Len(data)
           whole == data \o s
<1>1. PICK at \in [0..n -> Nat] :
        /\ at[0] = from /\ at[n] = to
        /\ \A i, j \in 0..n : i <= j => at[i] <= at[j]
        /\ \A i \in 1..n :
            /\ at[i] = at[i - 1] + Len(p[i])
            /\ \A k \in 1..Len(p[i]) : data[at[i - 1] + k] = p[i][k]
  BY Zenon DEF Laid
<1>2. /\ to \in Nat /\ Len(s) \in Nat
      /\ \A k \in 1..to : whole[k] = data[k]
      /\ \A k \in 1..Len(s) : whole[to + k] = s[k]
  BY ConcatBytes
<1> DEFINE bt == [i \in 0..(n + 1) |-> IF i = n + 1 THEN to + Len(s) ELSE at[i]]
<1> HIDE DEF to, whole
<1>3. /\ \A i \in 0..n : i \in 0..(n + 1) /\ i # n + 1 /\ at[i] \in Nat
      /\ n + 1 \in 0..(n + 1) /\ 0 \in 0..n /\ n \in 0..n
      /\ \A i \in 0..(n + 1) : i \in 0..n \/ i = n + 1
      /\ to + Len(s) \in Nat /\ to <= to + Len(s)
      /\ (n + 1) - 1 = n
      /\ \A i \in 1..(n + 1) : i \in 1..n \/ i = n + 1
      /\ \A i \in 1..n : i \in 0..n /\ i - 1 \in 0..n
  BY <1>2
<1>4. /\ \A i \in 0..n : bt[i] = at[i]
      /\ bt[n + 1] = to + Len(s)
  BY Zenon, <1>3
<1>5. bt \in [0..(n + 1) -> Nat]
  BY <1>3
<1> HIDE DEF bt
<1>6. bt[0] = from /\ bt[n + 1] = to + Len(s)
  BY <1>1, <1>3, <1>4, Zenon
<1>7. ASSUME NEW i \in 0..(n + 1), NEW j \in 0..(n + 1), i <= j
      PROVE  bt[i] <= bt[j]
  <2>1. CASE j \in 0..n
    <3>1. i \in 0..n
      BY <1>7, <2>1
    <3> QED BY <1>1, <1>4, <1>7, <2>1, <3>1
  <2>2. CASE j = n + 1 /\ i \in 0..n
    <3>1. at[i] <= to
      BY <1>1, <1>3, <2>2
    <3>2. at[i] \in Nat
      BY <1>3, <2>2
    <3> QED BY <1>2, <1>4, <2>2, <3>1, <3>2
  <2>3. CASE j = n + 1 /\ i = n + 1
    BY <1>3, <1>4, <2>3
  <2> QED BY <1>3, <2>1, <2>2, <2>3
<1>8. ASSUME NEW i \in 1..(n + 1)
      PROVE  /\ bt[i] = bt[i - 1] + Len(q[i])
             /\ \A k \in 1..Len(q[i]) : whole[bt[i - 1] + k] = q[i][k]
  <2>1. CASE i \in 1..n
    <3>1. bt[i] = at[i] /\ bt[i - 1] = at[i - 1] /\ q[i] = p[i]
      BY <1>3, <1>4, <2>1
    <3>2. at[i] = at[i - 1] + Len(p[i]) /\ at[i] <= to /\ at[i] \in Nat /\ at[i - 1] \in Nat
      BY <1>1, <1>3, <2>1
    <3>3. ASSUME NEW k \in 1..Len(p[i]) PROVE whole[at[i - 1] + k] = p[i][k]
      <4>1. at[i - 1] + k \in 1..to
        <5>1. \A a, b, c \in Nat : a + b <= c => \A m \in 1..b : a + m \in 1..c
          OBVIOUS
        <5>2. at[i - 1] + Len(p[i]) <= to /\ Len(p[i]) \in Nat
          BY Zenon, <2>1, <3>2
        <5> QED BY Zenon, <1>2, <3>2, <5>1, <5>2
      <4>2. data[at[i - 1] + k] = p[i][k]
        BY Zenon, <1>1, <2>1
      <4> QED BY Zenon, <1>2, <4>1, <4>2
    <3> QED BY Zenon, <3>1, <3>2, <3>3
  <2>2. CASE i = n + 1
    <3>1. bt[n + 1] = bt[n] + Len(q[n + 1]) /\ bt[n] = to /\ q[n + 1] = s
      BY Zenon, <1>1, <1>3, <1>4
    <3>2. i - 1 = n
      BY <2>2
    <3> QED BY Zenon, <1>2, <2>2, <3>1, <3>2
  <2> QED BY <1>3, <2>1, <2>2
<1>9. Laid(whole, q, n + 1, from, to + Len(s))
  BY Zenon, <1>5, <1>6, <1>7, <1>8 DEF Laid
<1> QED BY Zenon, <1>9 DEF to, whole

\* The first piece taken off.
LEMMA LaidTail ==
    ASSUME NEW data, NEW p, NEW n \in Nat \ {0}, NEW from \in Nat, NEW to \in Nat,
           Laid(data, p, n, from, to), Len(p[1]) \in Nat,
           NEW q, \A i \in 1..(n - 1) : q[i] = p[i + 1]
    PROVE  /\ Laid(data, q, n - 1, from + Len(p[1]), to)
           /\ from + Len(p[1]) <= to
           /\ HasAt(data, from, p[1])
<1>1. PICK at \in [0..n -> Nat] :
        /\ at[0] = from /\ at[n] = to
        /\ \A i, j \in 0..n : i <= j => at[i] <= at[j]
        /\ \A i \in 1..n :
            /\ at[i] = at[i - 1] + Len(p[i])
            /\ \A k \in 1..Len(p[i]) : data[at[i - 1] + k] = p[i][k]
  BY Zenon DEF Laid
<1>2. /\ 1 \in 1..n /\ 1 - 1 = 0 /\ 1 \in 0..n /\ n \in 0..n /\ 1 <= n
      /\ n - 1 \in Nat /\ 0 \in 0..(n - 1) /\ n - 1 \in 0..(n - 1)
      /\ 0 + 1 = 1 /\ (n - 1) + 1 = n
      /\ \A i \in 0..(n - 1) : i + 1 \in 0..n
      /\ \A i \in 1..(n - 1) : /\ i + 1 \in 1..n /\ (i + 1) - 1 = i /\ i \in 0..(n - 1)
                               /\ i - 1 \in 0..(n - 1) /\ (i - 1) + 1 = i
      /\ \A i, j \in 0..(n - 1) : i <= j => i + 1 <= j + 1
  OBVIOUS
<1>3. at[1] = from + Len(p[1]) /\ HasAt(data, from, p[1])
  <2>1. /\ at[1] = at[1 - 1] + Len(p[1])
        /\ \A k \in 1..Len(p[1]) : data[at[1 - 1] + k] = p[1][k]
    BY Zenon, <1>1, <1>2
  <2>2. at[1 - 1] = from
    BY Zenon, <1>1, <1>2
  <2> QED BY Zenon, <2>1, <2>2 DEF HasAt
<1>4. at[1] <= to
  BY Zenon, <1>1, <1>2
<1> DEFINE bt == [i \in 0..(n - 1) |-> at[i + 1]]
<1>5. \A i \in 0..(n - 1) : bt[i] = at[i + 1] /\ at[i + 1] \in Nat
  BY <1>2
<1>6. bt \in [0..(n - 1) -> Nat]
  BY <1>5
<1> HIDE DEF bt
<1>7. bt[0] = at[1] /\ bt[n - 1] = to
  BY Zenon, <1>1, <1>2, <1>5
<1>8. ASSUME NEW i \in 0..(n - 1), NEW j \in 0..(n - 1), i <= j
      PROVE  bt[i] <= bt[j]
  <2>1. i + 1 \in 0..n /\ j + 1 \in 0..n /\ i + 1 <= j + 1
    BY <1>8
  <2>2. at[i + 1] <= at[j + 1]
    BY Zenon, <1>1, <2>1
  <2> QED BY Zenon, <1>5, <2>2
<1>9. ASSUME NEW i \in 1..(n - 1)
      PROVE  /\ bt[i] = bt[i - 1] + Len(q[i])
             /\ \A k \in 1..Len(q[i]) : data[bt[i - 1] + k] = q[i][k]
  <2>1. bt[i] = at[i + 1] /\ bt[i - 1] = at[i] /\ q[i] = p[i + 1]
    BY Zenon, <1>2, <1>5
  <2>2. i + 1 \in 1..n /\ (i + 1) - 1 = i
    BY <1>2
  <2>3. /\ at[i + 1] = at[(i + 1) - 1] + Len(p[i + 1])
        /\ \A k \in 1..Len(p[i + 1]) : data[at[(i + 1) - 1] + k] = p[i + 1][k]
    BY Zenon, <1>1, <2>2
  <2> QED BY Zenon, <2>1, <2>2, <2>3
<1>10. Laid(data, q, n - 1, at[1], to)
  BY Zenon, <1>6, <1>7, <1>8, <1>9 DEF Laid
<1> QED BY Zenon, <1>3, <1>4, <1>10

\* The last piece taken off.
LEMMA LaidFront ==
    ASSUME NEW data, NEW p, NEW n \in Nat \ {0}, NEW from \in Nat, NEW to \in Nat,
           Laid(data, p, n, from, to), Len(p[n]) \in Nat,
           NEW q, \A i \in 1..(n - 1) : q[i] = p[i]
    PROVE  /\ Laid(data, q, n - 1, from, to - Len(p[n]))
           /\ to - Len(p[n]) \in Nat /\ from <= to - Len(p[n])
           /\ HasAt(data, to - Len(p[n]), p[n])
<1>1. PICK at \in [0..n -> Nat] :
        /\ at[0] = from /\ at[n] = to
        /\ \A i, j \in 0..n : i <= j => at[i] <= at[j]
        /\ \A i \in 1..n :
            /\ at[i] = at[i - 1] + Len(p[i])
            /\ \A k \in 1..Len(p[i]) : data[at[i - 1] + k] = p[i][k]
  BY Zenon DEF Laid
<1>2. /\ n \in 1..n /\ n \in 0..n /\ 0 \in 0..n /\ n - 1 \in 0..n /\ 0 <= n - 1
      /\ n - 1 \in Nat /\ 0 \in 0..(n - 1) /\ n - 1 \in 0..(n - 1)
      /\ \A i \in 0..(n - 1) : i \in 0..n
      /\ \A i \in 1..(n - 1) : i \in 1..n /\ i \in 0..(n - 1) /\ i - 1 \in 0..(n - 1)
  OBVIOUS
<1>3. /\ at[n - 1] \in Nat /\ to = at[n - 1] + Len(p[n]) /\ from <= at[n - 1]
      /\ HasAt(data, at[n - 1], p[n])
  <2>1. at[n - 1] \in Nat
    BY <1>2
  <2> QED BY Zenon, <1>1, <1>2, <2>1 DEF HasAt
<1>4. at[n - 1] = to - Len(p[n])
  BY <1>3
<1> DEFINE bt == [i \in 0..(n - 1) |-> at[i]]
<1>5. \A i \in 0..(n - 1) : bt[i] = at[i] /\ at[i] \in Nat
  BY <1>2
<1>6. bt \in [0..(n - 1) -> Nat]
  BY <1>5
<1> HIDE DEF bt
<1>7. bt[0] = from /\ bt[n - 1] = at[n - 1]
  BY Zenon, <1>1, <1>2, <1>5
<1>8. \A i, j \in 0..(n - 1) : i <= j => bt[i] <= bt[j]
  BY Zenon, <1>1, <1>2, <1>5
<1>9. ASSUME NEW i \in 1..(n - 1)
      PROVE  /\ bt[i] = bt[i - 1] + Len(q[i])
             /\ \A k \in 1..Len(q[i]) : data[bt[i - 1] + k] = q[i][k]
  <2>1. bt[i] = at[i] /\ bt[i - 1] = at[i - 1] /\ q[i] = p[i]
    BY Zenon, <1>2, <1>5
  <2>2. i \in 1..n
    BY <1>2
  <2>3. /\ at[i] = at[i - 1] + Len(p[i])
        /\ \A k \in 1..Len(p[i]) : data[at[i - 1] + k] = p[i][k]
    BY Zenon, <1>1, <2>2
  <2> QED BY Zenon, <2>1, <2>3
<1>10. Laid(data, q, n - 1, from, at[n - 1])
  BY Zenon, <1>6, <1>7, <1>8, <1>9 DEF Laid
<1> QED BY Zenon, <1>3, <1>4, <1>10

\* Any piece lies between the two ends.
LEMMA LaidWithin ==
    ASSUME NEW data, NEW p, NEW n \in Nat, NEW from \in Nat, NEW to \in Nat,
           Laid(data, p, n, from, to), NEW i \in 1..n, Len(p[i]) \in Nat
    PROVE  from + Len(p[i]) <= to
<1>1. PICK at \in [0..n -> Nat] :
        /\ at[0] = from /\ at[n] = to
        /\ \A k, j \in 0..n : k <= j => at[k] <= at[j]
        /\ \A k \in 1..n : at[k] = at[k - 1] + Len(p[k])
  BY Zenon DEF Laid
<1>2. /\ 0 \in 0..n /\ n \in 0..n /\ i \in 0..n /\ i - 1 \in 0..n /\ 0 <= i - 1 /\ i <= n
  OBVIOUS
<1>3. from <= at[i - 1] /\ at[i] <= to /\ at[i] = at[i - 1] + Len(p[i])
  BY Zenon, <1>1, <1>2
<1>4. at[i] \in Nat /\ at[i - 1] \in Nat
  BY <1>2
<1> QED BY <1>3, <1>4

-----------------------------------------------------------------------------
(* What the readers are given                                                *)

\* The bytes from one place to another.
LEMMA BytesBetween ==
    ASSUME NEW data \in Seq(Byte), NEW a \in Nat, NEW b \in Nat, a <= b, b <= Len(data)
    PROVE  /\ SubSeq(data, a + 1, b) \in Seq(Byte)
           /\ Len(SubSeq(data, a + 1, b)) = b - a
           /\ \A i \in 1..(b - a) : SubSeq(data, a + 1, b)[i] = data[a + i]
<1>1. /\ a + 1 \in Int /\ b \in Int
      /\ \A i \in (a + 1)..b : data[i] \in Byte
  OBVIOUS
<1>2. /\ SubSeq(data, a + 1, b) \in Seq(Byte)
      /\ Len(SubSeq(data, a + 1, b)) = IF a + 1 <= b THEN b - (a + 1) + 1 ELSE 0
      /\ \A i \in 1..(b - (a + 1) + 1) : SubSeq(data, a + 1, b)[i] = data[(a + 1) + i - 1]
  BY <1>1, SubSeqProperties
<1>3. (IF a + 1 <= b THEN b - (a + 1) + 1 ELSE 0) = b - a
  OBVIOUS
<1>4. b - (a + 1) + 1 = b - a /\ \A i \in 1..(b - a) : (a + 1) + i - 1 = a + i
  OBVIOUS
<1> QED BY Zenon, <1>2, <1>3, <1>4

LEMMA BytesThere ==
    ASSUME NEW data \in Seq(Byte), NEW a \in Nat, NEW s \in Seq(Byte),
           a + Len(s) <= Len(data), HasAt(data, a, s)
    PROVE  SubSeq(data, a + 1, a + Len(s)) = s
<1> DEFINE b == a + Len(s)
<1>1. b \in Nat /\ a <= b /\ b <= Len(data) /\ b - a = Len(s)
  OBVIOUS
<1> HIDE DEF b
<1>2. /\ SubSeq(data, a + 1, b) \in Seq(Byte)
      /\ Len(SubSeq(data, a + 1, b)) = Len(s)
      /\ \A i \in 1..Len(s) : SubSeq(data, a + 1, b)[i] = data[a + i]
  BY <1>1, BytesBetween
<1>3. \A i \in 1..Len(s) : data[a + i] = s[i]
  BY Zenon DEF HasAt
<1>4. SubSeq(data, a + 1, b) = s
  BY <1>2, <1>3, SameBytes
<1> QED BY Zenon, <1>4 DEF b

\* A field at a place is in front of all that follows it.
LEMMA InFrontOfRest ==
    ASSUME NEW data \in Seq(Byte), NEW a \in Nat, NEW s \in Seq(Byte),
           a + Len(s) <= Len(data), HasAt(data, a, s)
    PROVE  \E rest \in Seq(Byte) : SubSeq(data, a + 1, Len(data)) = s \o rest
<1> DEFINE b == a + Len(s)
           rest == SubSeq(data, b + 1, Len(data))
<1>1. SubSeq(data, a + 1, b) = s
  BY BytesThere
<1>2. b \in Nat /\ a <= b /\ b <= Len(data) /\ Len(data) \in Nat /\ Len(data) <= Len(data)
  OBVIOUS
<1> HIDE DEF b
<1>3. rest \in Seq(Byte)
  BY <1>2, BytesBetween
<1>4. SubSeq(data, a + 1, b) \o rest = SubSeq(data, a + 1, Len(data))
  <2>1. /\ a + 1 \in 1..(Len(data) + 1) /\ b \in (a + 1) - 1..Len(data)
        /\ Len(data) \in b..Len(data)
    BY <1>2
  <2> QED BY <2>1, ConcatAdjacentSubSeq
<1> QED BY Zenon, <1>1, <1>3, <1>4

\* And behind all that is in front of it.
LEMMA BehindRest ==
    ASSUME NEW data \in Seq(Byte), NEW a \in Nat, NEW s \in Seq(Byte),
           a + Len(s) <= Len(data), HasAt(data, a, s)
    PROVE  \E rest \in Seq(Byte) : SubSeq(data, 1, a + Len(s)) = rest \o s
<1> DEFINE b == a + Len(s)
           rest == SubSeq(data, 1, a)
<1>1. SubSeq(data, a + 1, b) = s
  BY BytesThere
<1>2. b \in Nat /\ a <= b /\ b <= Len(data) /\ 0 \in Nat /\ 0 <= a /\ 0 + 1 = 1 /\ a <= Len(data)
  OBVIOUS
<1> HIDE DEF b
<1>3. rest \in Seq(Byte)
  <2>1. SubSeq(data, 0 + 1, a) \in Seq(Byte)
    BY <1>2, BytesBetween
  <2> QED BY Zenon, <1>2, <2>1
<1>4. rest \o SubSeq(data, a + 1, b) = SubSeq(data, 1, b)
  <2>1. 1 \in 1..(Len(data) + 1) /\ a \in (1 - 1)..Len(data) /\ b \in a..Len(data)
    BY <1>2
  <2> QED BY <2>1, ConcatAdjacentSubSeq
<1> QED BY Zenon, <1>1, <1>3, <1>4 DEF b

-----------------------------------------------------------------------------
(* The inductive invariant                                                   *)

\* What is left to read: the bytes of the header fields, the payload, the bytes
\* of the footers.
Pieces(hs, bytes, fs) ==
    [i \in 1..(Len(hs) + 1 + Len(fs)) |->
        IF i <= Len(hs) THEN SerializeHeader(hs[i])
        ELSE IF i = Len(hs) + 1 THEN bytes
        ELSE SerializeFooter(fs[i - (Len(hs) + 1)])]

\* How many of them are written.
Count == IF phase = "headers" THEN Len(headers) ELSE Len(headers) + 1 + Len(footers)

TypeInv ==
    /\ Data \in Seq(Byte) /\ BytesRead \in Nat /\ BufferBytes \in Nat
    /\ headers \in Seq(Headers) /\ footers \in Seq(Footers)
    /\ phase \in {"headers", "footers", "reading"}
    /\ phase # "headers" => payload \in Payloads

WritingInv ==
    /\ BufferBytes <= Len(Data)
    /\ phase # "reading" => BufferBytes = Len(Data)
    /\ phase = "headers" => footers = <<>>

IInv ==
    /\ TypeInv
    /\ WritingInv
    /\ Laid(Data, Pieces(headers, payload, footers), Count, BytesRead, BufferBytes)

LEMMA PiecesAre ==
    ASSUME NEW hs \in Seq(Headers), NEW fs \in Seq(Footers), NEW bytes
    PROVE  /\ \A i \in 1..Len(hs) : Pieces(hs, bytes, fs)[i] = SerializeHeader(hs[i])
           /\ Pieces(hs, bytes, fs)[Len(hs) + 1] = bytes
           /\ \A j \in 1..Len(fs) :
                Pieces(hs, bytes, fs)[Len(hs) + 1 + j] = SerializeFooter(fs[j])
<1> DEFINE h == Len(hs)
           f == Len(fs)
<1>1. h \in Nat /\ f \in Nat
  OBVIOUS
<1> HIDE DEF h, f
<1>2. ASSUME NEW i \in 1..h PROVE i \in 1..(h + 1 + f) /\ i <= h
  BY <1>1
<1>3. h + 1 \in 1..(h + 1 + f) /\ ~(h + 1 <= h)
  BY <1>1
<1>4. ASSUME NEW j \in 1..f
      PROVE  /\ h + 1 + j \in 1..(h + 1 + f) /\ ~(h + 1 + j <= h) /\ h + 1 + j # h + 1
             /\ (h + 1 + j) - (h + 1) = j
  BY <1>1
<1>5. Pieces(hs, bytes, fs) =
        [i \in 1..(h + 1 + f) |->
            IF i <= h THEN SerializeHeader(hs[i])
            ELSE IF i = h + 1 THEN bytes
            ELSE SerializeFooter(fs[i - (h + 1)])]
  BY Zenon DEF Pieces, h, f
<1> DEFINE p == Pieces(hs, bytes, fs)
           at(i) == IF i <= h THEN SerializeHeader(hs[i])
                    ELSE IF i = h + 1 THEN bytes
                    ELSE SerializeFooter(fs[i - (h + 1)])
<1>6. \A i \in 1..(h + 1 + f) : p[i] = at(i)
  BY Zenon, <1>5
<1> HIDE DEF p
<1>7. ASSUME NEW i \in 1..h PROVE p[i] = SerializeHeader(hs[i])
  BY Zenon, <1>2, <1>6
<1>8. p[h + 1] = bytes
  BY Zenon, <1>3, <1>6
<1>9. ASSUME NEW j \in 1..f PROVE p[h + 1 + j] = SerializeFooter(fs[j])
  <2> DEFINE i == h + 1 + j
  <2>1. i \in 1..(h + 1 + f) /\ ~(i <= h) /\ i # h + 1 /\ i - (h + 1) = j
    BY Zenon, <1>4
  <2> HIDE DEF i
  <2>2. p[i] = SerializeFooter(fs[i - (h + 1)])
    BY Zenon, <1>6, <2>1
  <2> QED BY Zenon, <2>1, <2>2 DEF i
<1> QED BY Zenon, <1>7, <1>8, <1>9 DEF h, f, p

LEMMA FieldBytes ==
    /\ \A field \in Headers : SerializeHeader(field) \in Seq(Byte)
    /\ \A field \in Footers : SerializeFooter(field) \in Seq(Byte)
<1>1. \A field \in Headers : SerializeHeader(field) \in Seq(Byte)
  BY HeaderReads
<1>2. ASSUME NEW field \in Footers PROVE SerializeFooter(field) \in Seq(Byte)
  <2>1. <<>> \in Seq(Byte) /\ 0 \in Nat
    OBVIOUS
  <2> QED BY Zenon, <2>1, FooterReads DEF IsReadBack
<1> QED BY <1>1, <1>2

\* All pieces are sequences of bytes.
LEMMA PiecesAreBytes ==
    ASSUME NEW hs \in Seq(Headers), NEW fs \in Seq(Footers), NEW bytes \in Seq(Byte),
           NEW i \in 1..(Len(hs) + 1 + Len(fs))
    PROVE  /\ Pieces(hs, bytes, fs)[i] \in Seq(Byte)
           /\ Len(Pieces(hs, bytes, fs)[i]) \in Nat
<1>1. /\ \A k \in 1..Len(hs) : hs[k] \in Headers
      /\ \A k \in 1..Len(fs) : fs[k] \in Footers
  OBVIOUS
<1>2. i \in 1..Len(hs) \/ i = Len(hs) + 1 \/ \E j \in 1..Len(fs) : i = Len(hs) + 1 + j
  <2>1. Len(hs) \in Nat /\ Len(fs) \in Nat
    OBVIOUS
  <2>2. CASE i > Len(hs) + 1
    <3>1. i - (Len(hs) + 1) \in 1..Len(fs) /\ i = Len(hs) + 1 + (i - (Len(hs) + 1))
      BY <2>1, <2>2
    <3> QED BY Zenon, <3>1
  <2>3. CASE ~(i > Len(hs) + 1)
    <3>1. i \in 1..Len(hs) \/ i = Len(hs) + 1
      BY <2>1, <2>3
    <3> QED BY Zenon, <3>1
  <2> QED BY <2>2, <2>3
<1>0. /\ \A k \in 1..Len(hs) : Pieces(hs, bytes, fs)[k] = SerializeHeader(hs[k])
      /\ Pieces(hs, bytes, fs)[Len(hs) + 1] = bytes
      /\ \A k \in 1..Len(fs) :
            Pieces(hs, bytes, fs)[Len(hs) + 1 + k] = SerializeFooter(fs[k])
  BY PiecesAre
<1>3. Pieces(hs, bytes, fs)[i] \in Seq(Byte)
  <2>1. CASE i \in 1..Len(hs)
    BY Zenon, <1>0, <1>1, <2>1, FieldBytes
  <2>2. CASE i = Len(hs) + 1
    BY Zenon, <1>0, <2>2
  <2>3. CASE \E j \in 1..Len(fs) : i = Len(hs) + 1 + j
    <3>1. PICK j \in 1..Len(fs) : i = Len(hs) + 1 + j
      BY Zenon, <2>3
    <3>2. Pieces(hs, bytes, fs)[i] = SerializeFooter(fs[j])
      BY Zenon, <1>0, <3>1
    <3> QED BY Zenon, <1>1, <3>2, FieldBytes
  <2> QED BY Zenon, <1>2, <2>1, <2>2, <2>3
<1>4. \A s \in Seq(Byte) : Len(s) \in Nat
  OBVIOUS
<1> QED BY Zenon, <1>3, <1>4

-----------------------------------------------------------------------------
(* What a reader meets                                                       *)

LEMMA HeaderStands ==
    ASSUME IInv, phase = "reading", headers # <<>>,
           NEW s, s = SerializeHeader(Head(headers))
    PROVE  /\ Head(headers) \in Headers /\ s \in Seq(Byte)
           /\ Remaining \in Nat /\ BytesRead + Len(s) <= BufferBytes
           /\ \E rest \in Seq(Byte) : Peek = s \o rest
           /\ Head(headers).kind = "NACKLossRange" => Remaining >= kMaxLossRangeFieldBytes
<1>0. /\ Data \in Seq(Byte) /\ BytesRead \in Nat /\ BufferBytes \in Nat
      /\ headers \in Seq(Headers) /\ footers \in Seq(Footers) /\ payload \in Payloads
      /\ BufferBytes <= Len(Data)
  BY Zenon DEF IInv, TypeInv, WritingInv
<1> DEFINE p == Pieces(headers, payload, footers)
           n == Len(headers) + 1 + Len(footers)
<1>1. Laid(Data, p, n, BytesRead, BufferBytes)
  BY Zenon DEF IInv, Count
<1>2. /\ Head(headers) \in Headers /\ Head(headers) = headers[1]
      /\ Len(headers) \in Nat /\ Len(footers) \in Nat /\ 1 \in 1..Len(headers)
  BY <1>0
<1>3. n \in Nat \ {0} /\ Len(headers) + 1 \in 1..n /\ n \in Nat
  BY <1>2
<1>4. p[1] = s /\ p[Len(headers) + 1] = payload
  <2>1. /\ \A k \in 1..Len(headers) : p[k] = SerializeHeader(headers[k])
        /\ p[Len(headers) + 1] = payload
    BY <1>0, PiecesAre
  <2> QED BY Zenon, <1>2, <2>1
<1>5. s \in Seq(Byte) /\ Len(s) \in Nat
  <2>1. s \in Seq(Byte)
    BY Zenon, <1>2, FieldBytes
  <2> QED BY <2>1
<1>6. payload \in Seq(Byte) /\ Len(payload) \in Nat
  <2>1. payload \in Seq(Byte)
    BY Zenon, <1>0, PayloadsAssumption
  <2> QED BY <2>1
<1> HIDE DEF p, n
<1>7. BytesRead + Len(s) <= BufferBytes /\ HasAt(Data, BytesRead, s)
  <2> DEFINE q == [i \in 1..(n - 1) |-> p[i + 1]]
  <2>1. \A i \in 1..(n - 1) : q[i] = p[i + 1]
    OBVIOUS
  <2> HIDE DEF q
  <2>2. Len(p[1]) \in Nat
    BY Zenon, <1>4, <1>5
  <2>3. BytesRead + Len(p[1]) <= BufferBytes /\ HasAt(Data, BytesRead, p[1])
    BY <1>0, <1>1, <1>3, <2>1, <2>2, LaidTail
  <2> QED BY Zenon, <1>4, <2>3
<1>8. BytesRead + Len(payload) <= BufferBytes
  BY Zenon, <1>0, <1>1, <1>3, <1>4, <1>6, LaidWithin
<1>9. BytesRead + Len(s) <= Len(Data)
  BY <1>0, <1>5, <1>7
<1>10. \E rest \in Seq(Byte) : Peek = s \o rest
  BY Zenon, <1>0, <1>5, <1>7, <1>9, InFrontOfRest DEF Peek
<1>11. Remaining \in Nat /\ Remaining >= Len(payload)
  BY <1>0, <1>6, <1>8 DEF Remaining
<1>12. ASSUME Head(headers).kind = "NACKLossRange" PROVE Remaining >= kMaxLossRangeFieldBytes
  <2>1. Len(payload) >= kMaxLossRangeFieldBytes
    BY Zenon, <1>0, <1>2, <1>12, LossRangeAssumption
  <2> QED BY <1>6, <1>11, <2>1 DEF kMaxLossRangeFieldBytes
<1> QED BY Zenon, <1>2, <1>5, <1>7, <1>10, <1>11, <1>12

LEMMA FooterStands ==
    ASSUME IInv, phase = "reading", footers # <<>>,
           NEW s, s = SerializeFooter(Last(footers))
    PROVE  /\ Last(footers) \in Footers /\ s \in Seq(Byte)
           /\ Remaining \in Nat /\ BytesRead + Len(s) <= BufferBytes
           /\ \E rest \in Seq(Byte) : PeekEnd = rest \o s
<1>0. /\ Data \in Seq(Byte) /\ BytesRead \in Nat /\ BufferBytes \in Nat
      /\ headers \in Seq(Headers) /\ footers \in Seq(Footers) /\ payload \in Payloads
      /\ BufferBytes <= Len(Data)
  BY Zenon DEF IInv, TypeInv, WritingInv
<1> DEFINE p == Pieces(headers, payload, footers)
           n == Len(headers) + 1 + Len(footers)
<1>1. Laid(Data, p, n, BytesRead, BufferBytes)
  BY Zenon DEF IInv, Count
<1>2. /\ Last(footers) \in Footers /\ Last(footers) = footers[Len(footers)]
      /\ Len(headers) \in Nat /\ Len(footers) \in Nat /\ Len(footers) \in 1..Len(footers)
  BY <1>0 DEF Last
<1>3. n \in Nat \ {0}
  BY <1>2
<1>4. p[n] = s
  <2>1. \A k \in 1..Len(footers) : p[Len(headers) + 1 + k] = SerializeFooter(footers[k])
    BY <1>0, PiecesAre
  <2> QED BY Zenon, <1>2, <2>1
<1>5. s \in Seq(Byte) /\ Len(s) \in Nat
  <2>1. s \in Seq(Byte)
    BY Zenon, <1>2, FieldBytes
  <2> QED BY <2>1
<1> HIDE DEF p, n
<1> DEFINE a == BufferBytes - Len(s)
<1>6. a \in Nat /\ BytesRead <= a /\ HasAt(Data, a, s)
  <2> DEFINE q == [i \in 1..(n - 1) |-> p[i]]
  <2>1. \A i \in 1..(n - 1) : q[i] = p[i]
    OBVIOUS
  <2> HIDE DEF q
  <2>2. Len(p[n]) \in Nat
    BY Zenon, <1>4, <1>5
  <2>3. /\ BufferBytes - Len(p[n]) \in Nat /\ BytesRead <= BufferBytes - Len(p[n])
        /\ HasAt(Data, BufferBytes - Len(p[n]), p[n])
    BY <1>0, <1>1, <1>3, <2>1, <2>2, LaidFront
  <2> QED BY Zenon, <1>4, <2>3
<1>7. a + Len(s) = BufferBytes
  BY <1>0, <1>5
<1> HIDE DEF a
<1>8. /\ a + Len(s) <= Len(Data) /\ BytesRead + Len(s) <= BufferBytes
      /\ BufferBytes - BytesRead \in Nat
  BY <1>0, <1>5, <1>6, <1>7
<1>9. \E rest \in Seq(Byte) : SubSeq(Data, 1, a + Len(s)) = rest \o s
  BY Zenon, <1>0, <1>5, <1>6, <1>8, BehindRest
<1>10. \E rest \in Seq(Byte) : PeekEnd = rest \o s
  BY Zenon, <1>7, <1>9 DEF PeekEnd
<1> QED BY Zenon, <1>2, <1>5, <1>8, <1>10 DEF Remaining

\* The next header reads back, and only from all its bytes.
LEMMA HeaderComesBack ==
    ASSUME IInv, phase = "reading", headers # <<>>,
           NEW s, s = SerializeHeader(Head(headers))
    PROVE  /\ NextHeader = Decoded(Len(s), Head(headers).value)
           /\ Len(s) \in 1..MaxBytes(Head(headers).kind)
           /\ \A n \in 0..Remaining :
                Head(headers).kind \notin DOMAIN PlainBytes =>
                    n >= Len(s) \/ DeserializeHeader(Head(headers).kind, Peek, n) = FormatError
<1> DEFINE field == Head(headers)
<1>1. /\ field \in Headers /\ s \in Seq(Byte)
      /\ Remaining \in Nat /\ BytesRead + Len(s) <= BufferBytes
      /\ \E rest \in Seq(Byte) : Peek = s \o rest
      /\ field.kind = "NACKLossRange" => Remaining >= kMaxLossRangeFieldBytes
  BY HeaderStands
<1>2. PICK rest \in Seq(Byte) : Peek = s \o rest
  BY <1>1
<1>3. s = SerializeHeader(field)
  OBVIOUS
<1> HIDE DEF field
<1>4. /\ Len(s) \in 1..MaxBytes(field.kind)
      /\ \A space \in Nat :
            (field.kind = "NACKLossRange" => space >= kMaxLossRangeFieldBytes) =>
                Reads(DeserializeHeader(field.kind, s \o rest, space), s, space, field.value,
                      field.kind)
  BY Zenon, <1>1, <1>3, HeaderReads
<1>5. Remaining >= Len(s) /\ Len(s) \in Nat
  <2>1. BytesRead \in Nat /\ BufferBytes \in Nat
    BY Zenon DEF IInv, TypeInv
  <2>2. Len(s) \in Nat
    BY <1>1
  <2> QED BY <1>1, <2>1, <2>2 DEF Remaining
<1>6. DeserializeHeader(field.kind, Peek, Remaining) = Decoded(Len(s), field.value)
  BY Zenon, <1>1, <1>2, <1>4, <1>5 DEF Reads
<1>7. ASSUME NEW n \in 0..Remaining, field.kind \notin DOMAIN PlainBytes
      PROVE  n >= Len(s) \/ DeserializeHeader(field.kind, Peek, n) = FormatError
  <2>1. n \in Nat
    BY <1>1
  <2>2. CASE field.kind = "NACKLossRange" /\ ~(n >= kMaxLossRangeFieldBytes)
    <3>1. n < kMaxLossRangeFieldBytes
      BY <2>1, <2>2 DEF kMaxLossRangeFieldBytes
    <3>2. DeserializeHeader(field.kind, Peek, n) = DeserializeHeader_NACKLossRange(Peek, n)
      BY Zenon, <2>2 DEF DeserializeHeader
    <3> QED BY Zenon, <3>1, <3>2 DEF DeserializeHeader_NACKLossRange
  <2>3. CASE field.kind = "NACKLossRange" => n >= kMaxLossRangeFieldBytes
    <3>1. Reads(DeserializeHeader(field.kind, Peek, n), s, n, field.value, field.kind)
      BY Zenon, <1>2, <1>4, <2>1, <2>3
    <3>2. n >= Len(s) \/ n < Len(s)
      BY <1>5, <2>1
    <3> QED BY Zenon, <1>7, <3>1, <3>2 DEF Reads
  <2> QED BY Zenon, <2>2, <2>3
<1> QED BY Zenon, <1>4, <1>6, <1>7 DEF field, NextHeader

\* So does the next footer.
LEMMA FooterComesBack ==
    ASSUME IInv, phase = "reading", footers # <<>>,
           NEW s, s = SerializeFooter(Last(footers))
    PROVE  /\ NextFooter = Decoded(Len(s), AsRead(Last(footers)))
           /\ Len(s) \in 1..MaxBytes(Last(footers).kind)
           /\ \A n \in 0..Remaining :
                n >= Len(s) \/ DeserializeFooter(Last(footers).kind, PeekEnd, n) = FormatError
<1> DEFINE field == Last(footers)
<1>1. /\ field \in Footers /\ s \in Seq(Byte)
      /\ Remaining \in Nat /\ BytesRead + Len(s) <= BufferBytes
      /\ \E rest \in Seq(Byte) : PeekEnd = rest \o s
  BY FooterStands
<1>2. PICK rest \in Seq(Byte) : PeekEnd = rest \o s
  BY <1>1
<1>3. s = SerializeFooter(field)
  OBVIOUS
<1> HIDE DEF field
<1>4. ASSUME NEW space \in Nat
      PROVE  /\ Len(s) \in 1..MaxBytes(field.kind)
             /\ DeserializeFooter(field.kind, PeekEnd, space) =
                    IF space < Len(s) THEN FormatError ELSE Decoded(Len(s), AsRead(field))
  <2>1. IsReadBack(DeserializeFooter(field.kind, rest \o s, space), s, space, AsRead(field),
                   MaxBytes(field.kind))
    BY <1>1, <1>3, FooterReads
  <2> QED BY Zenon, <1>2, <2>1 DEF IsReadBack
<1>5. Remaining >= Len(s) /\ ~(Remaining < Len(s)) /\ Len(s) \in Nat
  <2>1. BytesRead \in Nat /\ BufferBytes \in Nat
    BY Zenon DEF IInv, TypeInv
  <2>2. Len(s) \in Nat
    BY <1>1
  <2> QED BY <1>1, <2>1, <2>2 DEF Remaining
<1>6. DeserializeFooter(field.kind, PeekEnd, Remaining) = Decoded(Len(s), AsRead(field))
  BY Zenon, <1>1, <1>4, <1>5
<1>7. ASSUME NEW n \in 0..Remaining
      PROVE  n >= Len(s) \/ DeserializeFooter(field.kind, PeekEnd, n) = FormatError
  <2>1. n \in Nat /\ (n >= Len(s) \/ n < Len(s))
    BY <1>1, <1>5
  <2> QED BY Zenon, <1>4, <2>1
<1> QED BY Zenon, <1>1, <1>4, <1>6, <1>7 DEF field, NextFooter

-----------------------------------------------------------------------------
(* Steps                                                                     *)

LEMMA InitInv == Init => IInv
<1> SUFFICES ASSUME Init PROVE IInv
  OBVIOUS
<1>1. /\ Data = <<>> /\ BytesRead = 0 /\ BufferBytes = 0
      /\ headers = <<>> /\ footers = <<>> /\ phase = "headers"
  BY Zenon DEF Init
<1>2. TypeInv /\ WritingInv /\ Count = 0
  BY <1>1 DEF TypeInv, WritingInv, Count
<1> DEFINE p == Pieces(headers, payload, footers)
<1> HIDE DEF p
<1>3. Laid(Data, p, 0, 0, 0)
  <2> DEFINE at == [i \in 0..0 |-> 0]
  <2>1. at \in [0..0 -> Nat]
    OBVIOUS
  <2>2. /\ 0 \in 0..0 /\ \A i \in 0..0 : at[i] = 0
        /\ \A i \in 1..0 : FALSE
        /\ 0 <= 0
    OBVIOUS
  <2> HIDE DEF at
  <2>3. \A i, j \in 0..0 : i <= j => at[i] <= at[j]
    BY Zenon, <2>2
  <2> QED BY Zenon, <2>1, <2>2, <2>3 DEF Laid
<1> QED BY Zenon, <1>1, <1>2, <1>3 DEF IInv, p

LEMMA AddressesFit ==
    ASSUME NEW data \in Seq(Byte), NEW s \in Seq(Byte)
    PROVE  /\ data \o s \in Seq(Byte) /\ Len(data \o s) = Len(data) + Len(s)
           /\ Len(data) + Len(s) \in Nat
BY ConcatBytes

LEMMA WriteHeaderInv ==
    ASSUME IInv, WriteHeader PROVE IInv'
<1>0. /\ Data \in Seq(Byte) /\ BytesRead \in Nat /\ BufferBytes \in Nat
      /\ headers \in Seq(Headers) /\ footers \in Seq(Footers)
      /\ phase = "headers" /\ BufferBytes = Len(Data) /\ footers = <<>>
  BY Zenon DEF IInv, TypeInv, WritingInv, WriteHeader
<1>1. PICK field \in Headers :
        /\ Data' = Data \o SerializeHeader(field)
        /\ BufferBytes' = BufferBytes + Len(SerializeHeader(field))
        /\ BytesRead' = BytesRead
        /\ headers' = Append(headers, field)
        /\ payload' = payload /\ footers' = footers /\ phase' = phase
  BY Zenon DEF WriteHeader, Write
<1> DEFINE s == SerializeHeader(field)
           p == Pieces(headers, payload, footers)
           q == Pieces(headers', payload', footers')
<1>2. s \in Seq(Byte)
  BY Zenon, FieldBytes
<1>3. /\ headers' \in Seq(Headers) /\ Len(headers') = Len(headers) + 1
      /\ \A i \in 1..Len(headers) : headers'[i] = headers[i]
      /\ headers'[Len(headers) + 1] = field
      /\ Len(headers) \in Nat
  BY <1>0, <1>1, AppendProperties
<1>4. Laid(Data, p, Len(headers), BytesRead, Len(Data))
  BY Zenon, <1>0 DEF IInv, Count
<1>5. \A i \in 1..Len(headers) : p[i] = SerializeHeader(headers[i])
  <2>1. headers \in Seq(Headers) /\ footers \in Seq(Footers)
    BY Zenon, <1>0
  <2> QED BY <2>1, PiecesAre
<1>6. \A i \in 1..(Len(headers) + 1) : q[i] = SerializeHeader(headers'[i])
  <2>1. headers' \in Seq(Headers) /\ footers' \in Seq(Footers)
    BY Zenon, <1>0, <1>1, <1>3
  <2>2. \A i \in 1..Len(headers') : q[i] = SerializeHeader(headers'[i])
    BY <2>1, PiecesAre
  <2> QED BY Zenon, <1>3, <2>2
<1> HIDE DEF p, q
<1>7. \A i \in 1..Len(headers) : i \in 1..(Len(headers) + 1) /\ headers[i] \in Headers
  BY <1>0, <1>3
<1>8. Len(headers) + 1 \in 1..(Len(headers) + 1)
  BY <1>3
<1>9. /\ \A i \in 1..Len(headers) : q[i] = p[i]
      /\ \A i \in 1..Len(headers) : Len(p[i]) \in Nat
      /\ q[Len(headers) + 1] = s
  <2>1. \A t \in Seq(Byte) : Len(t) \in Nat
    OBVIOUS
  <2> QED BY Zenon, <1>3, <1>5, <1>6, <1>7, <1>8, <2>1, FieldBytes
<1> HIDE DEF s
<1>10. Laid(Data \o s, q, Len(headers) + 1, BytesRead, Len(Data) + Len(s))
  BY <1>0, <1>2, <1>3, <1>4, <1>9, LaidMore
<1>11. /\ Data' = Data \o s /\ BufferBytes' = Len(Data) + Len(s) /\ Count' = Len(headers) + 1
  BY Zenon, <1>0, <1>1, <1>3 DEF s, Count
<1>12. Laid(Data', q, Count', BytesRead', BufferBytes')
  BY Zenon, <1>1, <1>10, <1>11
<1>13. TypeInv' /\ WritingInv'
  <2>1. /\ Data' \in Seq(Byte) /\ Len(Data') = Len(Data) + Len(s) /\ BufferBytes' \in Nat
        /\ BufferBytes' <= Len(Data')
    BY <1>0, <1>2, <1>11, AddressesFit
  <2> QED BY Zenon, <1>0, <1>1, <1>3, <1>11, <2>1 DEF TypeInv, WritingInv
<1> QED BY Zenon, <1>12, <1>13 DEF IInv, q

LEMMA WriteBufferInv ==
    ASSUME IInv, WriteBuffer PROVE IInv'
<1>0. /\ Data \in Seq(Byte) /\ BytesRead \in Nat /\ BufferBytes \in Nat
      /\ headers \in Seq(Headers) /\ footers \in Seq(Footers)
      /\ phase = "headers" /\ BufferBytes = Len(Data) /\ footers = <<>>
  BY Zenon DEF IInv, TypeInv, WritingInv, WriteBuffer
<1>1. PICK s \in Payloads :
        /\ Data' = Data \o s /\ BufferBytes' = BufferBytes + Len(s) /\ BytesRead' = BytesRead
        /\ payload' = s /\ phase' = "footers"
        /\ headers' = headers /\ footers' = footers
  BY Zenon DEF WriteBuffer, Write
<1> DEFINE p == Pieces(headers, payload, footers)
           q == Pieces(headers', payload', footers')
<1>2. s \in Seq(Byte)
  BY Zenon, PayloadsAssumption
<1>3. Laid(Data, p, Len(headers), BytesRead, Len(Data))
  BY Zenon, <1>0 DEF IInv, Count
<1>4. \A i \in 1..Len(headers) : p[i] = SerializeHeader(headers[i])
  <2>1. headers \in Seq(Headers) /\ footers \in Seq(Footers)
    BY Zenon, <1>0
  <2> QED BY <2>1, PiecesAre
<1>5. /\ \A i \in 1..Len(headers) : q[i] = SerializeHeader(headers[i])
      /\ q[Len(headers) + 1] = s
  <2>1. headers \in Seq(Headers) /\ footers \in Seq(Footers)
    BY Zenon, <1>0
  <2>2. /\ \A i \in 1..Len(headers) :
            Pieces(headers, s, footers)[i] = SerializeHeader(headers[i])
        /\ Pieces(headers, s, footers)[Len(headers) + 1] = s
    BY <2>1, PiecesAre
  <2> QED BY Zenon, <1>1, <2>2
<1> HIDE DEF p, q
<1>6. Len(headers) \in Nat /\ \A i \in 1..Len(headers) : headers[i] \in Headers
  BY <1>0
<1>7. /\ \A i \in 1..Len(headers) : q[i] = p[i]
      /\ \A i \in 1..Len(headers) : Len(p[i]) \in Nat
  <2>1. \A t \in Seq(Byte) : Len(t) \in Nat
    OBVIOUS
  <2> QED BY Zenon, <1>4, <1>5, <1>6, <2>1, FieldBytes
<1>8. Laid(Data \o s, q, Len(headers) + 1, BytesRead, Len(Data) + Len(s))
  BY <1>0, <1>2, <1>3, <1>5, <1>6, <1>7, LaidMore
<1>9. Count' = Len(headers) + 1
  <2>1. Count' = Len(headers) + 1 + Len(<<>>)
    BY Zenon, <1>0, <1>1 DEF Count
  <2> QED BY <1>6, <2>1
<1>10. Laid(Data', q, Count', BytesRead', BufferBytes')
  BY Zenon, <1>0, <1>1, <1>8, <1>9
<1>11. TypeInv' /\ WritingInv'
  <2>1. /\ Data' \in Seq(Byte) /\ Len(Data') = Len(Data) + Len(s)
        /\ BufferBytes' = Len(Data) + Len(s) /\ BufferBytes' \in Nat
        /\ BufferBytes' <= Len(Data')
    BY <1>0, <1>1, <1>2, AddressesFit
  <2> QED BY Zenon, <1>0, <1>1, <2>1 DEF TypeInv, WritingInv
<1> QED BY Zenon, <1>10, <1>11 DEF IInv, q

LEMMA WriteFooterInv ==
    ASSUME IInv, WriteFooter PROVE IInv'
<1>0. /\ Data \in Seq(Byte) /\ BytesRead \in Nat /\ BufferBytes \in Nat
      /\ headers \in Seq(Headers) /\ footers \in Seq(Footers)
      /\ phase = "footers" /\ BufferBytes = Len(Data) /\ payload \in Payloads
  BY Zenon DEF IInv, TypeInv, WritingInv, WriteFooter
<1>1. PICK field \in Footers :
        /\ Data' = Data \o SerializeFooter(field)
        /\ BufferBytes' = BufferBytes + Len(SerializeFooter(field))
        /\ BytesRead' = BytesRead
        /\ footers' = Append(footers, field)
        /\ payload' = payload /\ headers' = headers /\ phase' = phase
  BY Zenon DEF WriteFooter, Write
<1> DEFINE s == SerializeFooter(field)
           p == Pieces(headers, payload, footers)
           q == Pieces(headers', payload', footers')
           n == Len(headers) + 1 + Len(footers)
<1>2. s \in Seq(Byte)
  BY Zenon, FieldBytes
<1>3. /\ footers' \in Seq(Footers) /\ Len(footers') = Len(footers) + 1
      /\ \A i \in 1..Len(footers) : footers'[i] = footers[i]
      /\ footers'[Len(footers) + 1] = field
      /\ Len(footers) \in Nat /\ Len(headers) \in Nat
  BY <1>0, <1>1, AppendProperties
<1>4. Laid(Data, p, n, BytesRead, Len(Data))
  <2>1. Count = n
    BY Zenon, <1>0 DEF Count
  <2> QED BY Zenon, <1>0, <2>1 DEF IInv
<1>5. /\ \A i \in 1..Len(headers) : p[i] = SerializeHeader(headers[i])
      /\ p[Len(headers) + 1] = payload
      /\ \A j \in 1..Len(footers) : p[Len(headers) + 1 + j] = SerializeFooter(footers[j])
  BY <1>0, PiecesAre
<1>6. /\ \A i \in 1..Len(headers) : q[i] = SerializeHeader(headers[i])
      /\ q[Len(headers) + 1] = payload
      /\ \A j \in 1..Len(footers') : q[Len(headers) + 1 + j] = SerializeFooter(footers'[j])
  <2> DEFINE fs == footers'
  <2>1. fs \in Seq(Footers) /\ headers \in Seq(Headers)
    BY Zenon, <1>0, <1>3
  <2> HIDE DEF fs
  <2>2. /\ \A i \in 1..Len(headers) :
            Pieces(headers, payload, fs)[i] = SerializeHeader(headers[i])
        /\ Pieces(headers, payload, fs)[Len(headers) + 1] = payload
        /\ \A j \in 1..Len(fs) :
            Pieces(headers, payload, fs)[Len(headers) + 1 + j] = SerializeFooter(fs[j])
    BY <2>1, PiecesAre
  <2> QED BY Zenon, <1>1, <2>2 DEF fs
<1>7. \A i \in 1..n : Len(p[i]) \in Nat
  <2>1. payload \in Seq(Byte)
    BY Zenon, <1>0, PayloadsAssumption
  <2> QED BY <1>0, <2>1, PiecesAreBytes
<1>8. \A i \in 1..n : i \in 1..Len(headers) \/ i = Len(headers) + 1
                      \/ \E j \in 1..Len(footers) : i = Len(headers) + 1 + j
  <2> TAKE i \in 1..n
  <2>1. CASE i > Len(headers) + 1
    <3>1. /\ i - (Len(headers) + 1) \in 1..Len(footers)
          /\ i = Len(headers) + 1 + (i - (Len(headers) + 1))
      BY <1>3, <2>1
    <3> QED BY Zenon, <3>1
  <2>2. CASE ~(i > Len(headers) + 1)
    <3>1. i \in 1..Len(headers) \/ i = Len(headers) + 1
      BY <1>3, <2>2
    <3> QED BY Zenon, <3>1
  <2> QED BY <2>1, <2>2
<1>9. \A j \in 1..Len(footers) : j \in 1..Len(footers')
  BY <1>3
<1>10. Len(footers) + 1 \in 1..Len(footers') /\ n + 1 = Len(headers) + 1 + (Len(footers) + 1)
       /\ n \in Nat
  BY <1>3
<1> HIDE DEF p, q, n
<1>11. ASSUME NEW i \in 1..n PROVE q[i] = p[i]
  <2>1. CASE i \in 1..Len(headers)
    BY Zenon, <1>5, <1>6, <2>1
  <2>2. CASE i = Len(headers) + 1
    BY Zenon, <1>5, <1>6, <2>2
  <2>3. CASE \E j \in 1..Len(footers) : i = Len(headers) + 1 + j
    <3>1. PICK j \in 1..Len(footers) : i = Len(headers) + 1 + j
      BY Zenon, <2>3
    <3>2. q[i] = SerializeFooter(footers'[j]) /\ p[i] = SerializeFooter(footers[j])
      BY Zenon, <1>5, <1>6, <1>9, <3>1
    <3> QED BY Zenon, <1>3, <3>2
  <2> QED BY Zenon, <1>8, <2>1, <2>2, <2>3
<1>12. q[n + 1] = s
  BY Zenon, <1>3, <1>6, <1>10
<1> HIDE DEF s
<1>13. Laid(Data \o s, q, n + 1, BytesRead, Len(Data) + Len(s))
  BY <1>0, <1>2, <1>4, <1>7, <1>10, <1>11, <1>12, LaidMore
<1>14. Count' = n + 1
  <2>1. Count' = Len(headers) + 1 + Len(footers')
    BY Zenon, <1>0, <1>1 DEF Count
  <2> QED BY Zenon, <1>3, <1>10, <2>1
<1>15. Data' = Data \o s /\ BufferBytes' = Len(Data) + Len(s)
  BY Zenon, <1>0, <1>1 DEF s
<1>16. Laid(Data', q, Count', BytesRead', BufferBytes')
  BY Zenon, <1>1, <1>13, <1>14, <1>15
<1>17. TypeInv' /\ WritingInv'
  <2>1. /\ Data' \in Seq(Byte) /\ Len(Data') = Len(Data) + Len(s) /\ BufferBytes' \in Nat
        /\ BufferBytes' <= Len(Data')
    BY <1>0, <1>2, <1>15, AddressesFit
  <2> QED BY Zenon, <1>0, <1>1, <1>3, <1>15, <2>1 DEF TypeInv, WritingInv
<1> QED BY Zenon, <1>16, <1>17 DEF IInv, q

LEMMA ReceiveInv ==
    ASSUME IInv, Receive PROVE IInv'
<1>1. /\ Data' = Data /\ BytesRead' = BytesRead /\ BufferBytes' = BufferBytes
      /\ headers' = headers /\ payload' = payload /\ footers' = footers
      /\ phase = "footers" /\ phase' = "reading"
  BY Zenon DEF Receive
<1>2. Count' = Count
  BY Zenon, <1>1 DEF Count
<1>3. TypeInv' /\ WritingInv'
  BY Zenon, <1>1 DEF IInv, TypeInv, WritingInv
<1>4. Laid(Data, Pieces(headers, payload, footers), Count, BytesRead, BufferBytes)
  BY Zenon DEF IInv
<1>5. Laid(Data, Pieces(headers, payload, footers), Count, BytesRead, BufferBytes)'
  BY Zenon, <1>1, <1>2, <1>4 DEF Laid
<1> QED BY Zenon, <1>3, <1>5 DEF IInv

LEMMA ReadHeaderInv ==
    ASSUME IInv, ReadHeader PROVE IInv'
<1>0. /\ Data \in Seq(Byte) /\ BytesRead \in Nat /\ BufferBytes \in Nat
      /\ headers \in Seq(Headers) /\ footers \in Seq(Footers) /\ payload \in Payloads
      /\ phase = "reading" /\ headers # <<>> /\ BufferBytes <= Len(Data)
  BY Zenon DEF IInv, TypeInv, WritingInv, ReadHeader
<1>1. /\ Data' = Data /\ BufferBytes' = BufferBytes
      /\ BytesRead' = BytesRead + NextHeader.bytes
      /\ payload' = payload /\ footers' = footers /\ phase' = phase /\ headers' = Tail(headers)
  BY Zenon DEF ReadHeader
<1> DEFINE s == SerializeHeader(Head(headers))
           p == Pieces(headers, payload, footers)
           q == Pieces(headers', payload', footers')
           n == Len(headers) + 1 + Len(footers)
<1>2. NextHeader = Decoded(Len(s), Head(headers).value)
  BY Zenon, <1>0, HeaderComesBack
<1>3. /\ headers' \in Seq(Headers) /\ Len(headers') = Len(headers) - 1
      /\ \A i \in 1..Len(headers') : headers'[i] = headers[i + 1]
      /\ Head(headers) = headers[1]
      /\ Len(headers) \in Nat \ {0} /\ Len(footers) \in Nat
  BY <1>0, <1>1, HeadTailProperties
<1>4. s \in Seq(Byte) /\ Len(s) \in Nat
  <2>1. s \in Seq(Byte)
    BY Zenon, <1>0, HeaderStands
  <2> HIDE DEF s
  <2> QED BY <2>1
<1>5. Laid(Data, p, n, BytesRead, BufferBytes)
  BY Zenon, <1>0 DEF IInv, Count
<1>6. /\ \A i \in 1..Len(headers) : p[i] = SerializeHeader(headers[i])
      /\ p[Len(headers) + 1] = payload
      /\ \A j \in 1..Len(footers) : p[Len(headers) + 1 + j] = SerializeFooter(footers[j])
  <2>1. headers \in Seq(Headers) /\ footers \in Seq(Footers)
    BY Zenon, <1>0
  <2> QED BY <2>1, PiecesAre
<1>7. /\ \A i \in 1..Len(headers') : q[i] = SerializeHeader(headers'[i])
      /\ q[Len(headers') + 1] = payload
      /\ \A j \in 1..Len(footers) : q[Len(headers') + 1 + j] = SerializeFooter(footers[j])
  <2> DEFINE hs == headers'
  <2>1. hs \in Seq(Headers) /\ footers \in Seq(Footers)
    BY Zenon, <1>0, <1>3
  <2> HIDE DEF hs
  <2>2. /\ \A i \in 1..Len(hs) : Pieces(hs, payload, footers)[i] = SerializeHeader(hs[i])
        /\ Pieces(hs, payload, footers)[Len(hs) + 1] = payload
        /\ \A j \in 1..Len(footers) :
            Pieces(hs, payload, footers)[Len(hs) + 1 + j] = SerializeFooter(footers[j])
    BY <2>1, PiecesAre
  <2> QED BY Zenon, <1>1, <2>2 DEF hs
<1> DEFINE h == Len(headers)
           f == Len(footers)
<1>8. /\ Len(headers') = h - 1 /\ n = h + 1 + f /\ h \in Nat \ {0} /\ f \in Nat
      /\ h - 1 + 1 = h
  BY <1>3
<1> HIDE DEF p, q, n, h, f
<1>9. ASSUME NEW i \in 1..(n - 1)
      PROVE  \/ i \in 1..(h - 1) /\ i + 1 \in 1..h
             \/ i = h
             \/ i - h \in 1..f /\ i = h + (i - h) /\ i + 1 = h + 1 + (i - h)
  BY <1>8
<1>10. ASSUME NEW i \in 1..(n - 1) PROVE q[i] = p[i + 1]
  <2>1. CASE i \in 1..(h - 1) /\ i + 1 \in 1..h
    BY Zenon, <1>3, <1>6, <1>7, <1>8, <2>1 DEF h
  <2>2. CASE i = h
    <3>1. q[h] = payload
      BY Zenon, <1>7, <1>8
    <3> QED BY Zenon, <1>6, <2>2, <3>1 DEF h
  <2>3. CASE i - h \in 1..f /\ i = h + (i - h) /\ i + 1 = h + 1 + (i - h)
    <3> DEFINE j == i - h
    <3>1. j \in 1..Len(footers) /\ i = h + j /\ i + 1 = h + 1 + j
      BY Zenon, <2>3 DEF f
    <3> HIDE DEF j
    <3>2. q[h - 1 + 1 + j] = SerializeFooter(footers[j])
      BY Zenon, <1>7, <1>8, <3>1
    <3>3. p[h + 1 + j] = SerializeFooter(footers[j])
      BY Zenon, <1>6, <3>1 DEF h
    <3> QED BY Zenon, <1>8, <3>1, <3>2, <3>3
  <2> QED BY Zenon, <1>9, <2>1, <2>2, <2>3
<1>11. n \in Nat \ {0} /\ 1 \in 1..h
  BY <1>8
<1>12. p[1] = s
  BY Zenon, <1>3, <1>6, <1>11 DEF h
<1> HIDE DEF s
<1>13. /\ Laid(Data, q, n - 1, BytesRead + Len(s), BufferBytes)
       /\ BytesRead + Len(s) <= BufferBytes
  <2>1. Len(p[1]) \in Nat
    BY Zenon, <1>4, <1>12
  <2>2. /\ Laid(Data, q, n - 1, BytesRead + Len(p[1]), BufferBytes)
        /\ BytesRead + Len(p[1]) <= BufferBytes
    BY <1>0, <1>5, <1>10, <1>11, <2>1, LaidTail
  <2> QED BY Zenon, <1>12, <2>2
<1>14. BytesRead' = BytesRead + Len(s) /\ BytesRead' \in Nat
  <2>1. BytesRead' = BytesRead + Len(s)
    BY Zenon, <1>1, <1>2 DEF Decoded
  <2>2. BytesRead + Len(s) \in Nat
    BY <1>0, <1>4
  <2> QED BY Zenon, <2>1, <2>2
<1>15. Count' = n - 1
  <2>1. Count' = Len(headers') + 1 + f
    BY Zenon, <1>0, <1>1 DEF Count, f
  <2>2. h - 1 + 1 + f = n - 1
    BY <1>8
  <2> QED BY Zenon, <1>8, <2>1, <2>2
<1>16. Laid(Data', q, Count', BytesRead', BufferBytes')
  BY Zenon, <1>1, <1>13, <1>14, <1>15
<1>17. TypeInv' /\ WritingInv'
  BY Zenon, <1>0, <1>1, <1>3, <1>14 DEF TypeInv, WritingInv
<1> QED BY Zenon, <1>16, <1>17 DEF IInv, q

LEMMA ReadFooterInv ==
    ASSUME IInv, ReadFooter PROVE IInv'
<1>0. /\ Data \in Seq(Byte) /\ BytesRead \in Nat /\ BufferBytes \in Nat
      /\ headers \in Seq(Headers) /\ footers \in Seq(Footers) /\ payload \in Payloads
      /\ phase = "reading" /\ footers # <<>> /\ BufferBytes <= Len(Data)
  BY Zenon DEF IInv, TypeInv, WritingInv, ReadFooter
<1>1. /\ Data' = Data /\ BytesRead' = BytesRead
      /\ BufferBytes' = BufferBytes - NextFooter.bytes
      /\ payload' = payload /\ headers' = headers /\ phase' = phase /\ footers' = Front(footers)
  BY Zenon DEF ReadFooter
<1> DEFINE s == SerializeFooter(Last(footers))
           p == Pieces(headers, payload, footers)
           q == Pieces(headers', payload', footers')
           n == Len(headers) + 1 + Len(footers)
<1>2. NextFooter = Decoded(Len(s), AsRead(Last(footers)))
  BY Zenon, <1>0, FooterComesBack
<1>3. /\ footers' \in Seq(Footers) /\ Len(footers') = Len(footers) - 1
      /\ \A i \in 1..Len(footers') : footers'[i] = footers[i]
      /\ Last(footers) = footers[Len(footers)]
      /\ Len(footers) \in Nat \ {0} /\ Len(headers) \in Nat
  <2>1. /\ \A i \in 1..(Len(footers) - 1) : footers[i] \in Footers
        /\ 1 \in Int /\ Len(footers) - 1 \in Int /\ Len(footers) \in Nat \ {0}
        /\ Len(headers) \in Nat
    BY <1>0
  <2>2. /\ Front(footers) \in Seq(Footers)
        /\ Len(Front(footers)) =
               IF 1 <= Len(footers) - 1 THEN (Len(footers) - 1) - 1 + 1 ELSE 0
        /\ \A i \in 1..((Len(footers) - 1) - 1 + 1) : Front(footers)[i] = footers[1 + i - 1]
    BY <2>1, SubSeqProperties DEF Front
  <2>3. /\ Len(Front(footers)) = Len(footers) - 1
        /\ \A i \in 1..(Len(footers) - 1) : Front(footers)[i] = footers[i]
    <3> DEFINE k == Len(footers) - 1
    <3>1. k \in Nat
      BY <2>1
    <3> HIDE DEF k
    <3>2. /\ (IF 1 <= k THEN k - 1 + 1 ELSE 0) = k
          /\ k - 1 + 1 = k /\ \A i \in 1..k : 1 + i - 1 = i
      BY <3>1
    <3> QED BY Zenon, <2>2, <3>2 DEF k
  <2> QED BY Zenon, <1>1, <2>1, <2>2, <2>3 DEF Last
<1>4. s \in Seq(Byte) /\ Len(s) \in Nat
  <2>1. s \in Seq(Byte)
    BY Zenon, <1>0, FooterStands
  <2> HIDE DEF s
  <2> QED BY <2>1
<1>5. Laid(Data, p, n, BytesRead, BufferBytes)
  BY Zenon, <1>0 DEF IInv, Count
<1>6. /\ \A i \in 1..Len(headers) : p[i] = SerializeHeader(headers[i])
      /\ p[Len(headers) + 1] = payload
      /\ \A j \in 1..Len(footers) : p[Len(headers) + 1 + j] = SerializeFooter(footers[j])
  <2>1. headers \in Seq(Headers) /\ footers \in Seq(Footers)
    BY Zenon, <1>0
  <2> QED BY <2>1, PiecesAre
<1>7. /\ \A i \in 1..Len(headers) : q[i] = SerializeHeader(headers[i])
      /\ q[Len(headers) + 1] = payload
      /\ \A j \in 1..Len(footers') : q[Len(headers) + 1 + j] = SerializeFooter(footers'[j])
  <2> DEFINE fs == footers'
  <2>1. fs \in Seq(Footers) /\ headers \in Seq(Headers)
    BY Zenon, <1>0, <1>3
  <2> HIDE DEF fs
  <2>2. /\ \A i \in 1..Len(headers) :
            Pieces(headers, payload, fs)[i] = SerializeHeader(headers[i])
        /\ Pieces(headers, payload, fs)[Len(headers) + 1] = payload
        /\ \A j \in 1..Len(fs) :
            Pieces(headers, payload, fs)[Len(headers) + 1 + j] = SerializeFooter(fs[j])
    BY <2>1, PiecesAre
  <2> QED BY Zenon, <1>1, <2>2 DEF fs
<1> DEFINE h == Len(headers)
           f == Len(footers)
<1>8. /\ Len(footers') = f - 1 /\ n = h + 1 + f /\ h \in Nat /\ f \in Nat \ {0}
      /\ n \in Nat \ {0} /\ f \in 1..f
  BY <1>3
<1> HIDE DEF p, q, n, h, f
<1>9. ASSUME NEW i \in 1..(n - 1)
      PROVE  \/ i \in 1..h
             \/ i = h + 1
             \/ /\ i - (h + 1) \in 1..(f - 1) /\ i - (h + 1) \in 1..f
                /\ i = h + 1 + (i - (h + 1))
  BY <1>8
<1>10. ASSUME NEW i \in 1..(n - 1) PROVE q[i] = p[i]
  <2>1. CASE i \in 1..h
    BY Zenon, <1>6, <1>7, <2>1 DEF h
  <2>2. CASE i = h + 1
    BY Zenon, <1>6, <1>7, <2>2 DEF h
  <2>3. CASE /\ i - (h + 1) \in 1..(f - 1) /\ i - (h + 1) \in 1..f
             /\ i = h + 1 + (i - (h + 1))
    <3> DEFINE j == i - (h + 1)
    <3>1. j \in 1..Len(footers) /\ j \in 1..Len(footers') /\ i = h + 1 + j
      BY Zenon, <1>8, <2>3 DEF f
    <3> HIDE DEF j
    <3>2. q[i] = SerializeFooter(footers'[j]) /\ p[i] = SerializeFooter(footers[j])
      BY Zenon, <1>6, <1>7, <3>1 DEF h
    <3> QED BY Zenon, <1>3, <3>1, <3>2
  <2> QED BY Zenon, <1>9, <2>1, <2>2, <2>3
<1>11. p[n] = s
  BY Zenon, <1>3, <1>6, <1>8 DEF h, f
<1> HIDE DEF s
<1>12. /\ Laid(Data, q, n - 1, BytesRead, BufferBytes - Len(s))
       /\ BufferBytes - Len(s) \in Nat /\ BytesRead <= BufferBytes - Len(s)
  <2>1. Len(p[n]) \in Nat
    BY Zenon, <1>4, <1>11
  <2>2. /\ Laid(Data, q, n - 1, BytesRead, BufferBytes - Len(p[n]))
        /\ BufferBytes - Len(p[n]) \in Nat /\ BytesRead <= BufferBytes - Len(p[n])
    BY <1>0, <1>5, <1>8, <1>10, <2>1, LaidFront
  <2> QED BY Zenon, <1>11, <2>2
<1>13. BufferBytes' = BufferBytes - Len(s)
  BY Zenon, <1>1, <1>2 DEF Decoded
<1>14. Count' = n - 1
  <2>1. Count' = h + 1 + Len(footers')
    BY Zenon, <1>0, <1>1 DEF Count, h
  <2>2. h + 1 + (f - 1) = n - 1
    BY <1>8
  <2> QED BY Zenon, <1>8, <2>1, <2>2
<1>15. Laid(Data', q, Count', BytesRead', BufferBytes')
  BY Zenon, <1>1, <1>12, <1>13, <1>14
<1>16. TypeInv' /\ WritingInv'
  <2>1. BufferBytes' \in Nat /\ BufferBytes' <= Len(Data')
    <3>1. Len(Data) \in Nat
      BY <1>0
    <3>2. BufferBytes - Len(s) <= Len(Data)
      BY <1>0, <1>4, <3>1
    <3> QED BY Zenon, <1>1, <1>12, <1>13, <3>2
  <2> QED BY Zenon, <1>0, <1>1, <1>3, <2>1 DEF TypeInv, WritingInv
<1> QED BY Zenon, <1>15, <1>16 DEF IInv, q

LEMMA StepInv == IInv /\ [Next]_vars => IInv'
<1> SUFFICES ASSUME IInv, [Next]_vars PROVE IInv'
  OBVIOUS
<1>1. CASE UNCHANGED vars
  <2>1. /\ Data' = Data /\ BytesRead' = BytesRead /\ BufferBytes' = BufferBytes
        /\ headers' = headers /\ payload' = payload /\ footers' = footers /\ phase' = phase
    BY Zenon, <1>1 DEF vars
  <2>2. Count' = Count
    BY Zenon, <2>1 DEF Count
  <2>3. TypeInv' /\ WritingInv'
    BY Zenon, <2>1 DEF IInv, TypeInv, WritingInv
  <2>4. Laid(Data, Pieces(headers, payload, footers), Count, BytesRead, BufferBytes)
    BY Zenon DEF IInv
  <2>5. Laid(Data, Pieces(headers, payload, footers), Count, BytesRead, BufferBytes)'
    BY Zenon, <2>1, <2>2, <2>4 DEF Laid
  <2> QED BY Zenon, <2>3, <2>5 DEF IInv
<1>2. CASE WriteHeader
  BY Zenon, <1>2, WriteHeaderInv
<1>3. CASE WriteBuffer
  BY Zenon, <1>3, WriteBufferInv
<1>4. CASE WriteFooter
  BY Zenon, <1>4, WriteFooterInv
<1>5. CASE Receive
  BY Zenon, <1>5, ReceiveInv
<1>6. CASE ReadHeader
  BY Zenon, <1>6, ReadHeaderInv
<1>7. CASE ReadFooter
  BY Zenon, <1>7, ReadFooterInv
<1> QED BY Zenon, <1>1, <1>2, <1>3, <1>4, <1>5, <1>6, <1>7 DEF Next

-----------------------------------------------------------------------------
(* The theorems                                                              *)

\* What is left to read of a packet lies between the two ends of the stream,
\* field behind field, in every state.
THEOREM Invariance == Spec => []IInv
BY InitInv, StepInv, PTL DEF Spec

\* Whatever is around it, a header or a footer reads back as it was written.
THEOREM PacketsReadBack == Spec => []FieldsReadBack
<1>1. IInv => FieldsReadBack
  <2> SUFFICES ASSUME IInv PROVE FieldsReadBack
    OBVIOUS
  <2>1. ASSUME phase = "reading", headers # <<>>
        PROVE  ReadsBack(Head(headers), SerializeHeader(Head(headers)), NextHeader,
                         Head(headers).value)
    <3> DEFINE s == SerializeHeader(Head(headers))
    <3>1. /\ NextHeader = Decoded(Len(s), Head(headers).value)
          /\ Len(s) \in 1..MaxBytes(Head(headers).kind)
      BY Zenon, <2>1, HeaderComesBack
    <3>2. Len(s) <= MaxBytes(Head(headers).kind)
      <4> HIDE DEF s
      <4> QED BY <3>1
    <3> QED BY Zenon, <3>1, <3>2 DEF ReadsBack
  <2>2. ASSUME phase = "reading", footers # <<>>
        PROVE  ReadsBack(Last(footers), SerializeFooter(Last(footers)), NextFooter,
                         AsRead(Last(footers)))
    <3> DEFINE s == SerializeFooter(Last(footers))
    <3>1. /\ NextFooter = Decoded(Len(s), AsRead(Last(footers)))
          /\ Len(s) \in 1..MaxBytes(Last(footers).kind)
      BY Zenon, <2>2, FooterComesBack
    <3>2. Len(s) <= MaxBytes(Last(footers).kind)
      <4> HIDE DEF s
      <4> QED BY <3>1
    <3> QED BY Zenon, <3>1, <3>2 DEF ReadsBack
  <2> QED BY Zenon, <2>1, <2>2 DEF FieldsReadBack
<1> QED BY Invariance, <1>1, PTL

\* When all fields are read, from whatever end first, the payload is left.
THEOREM PayloadRemains == Spec => []PayloadIsLeft
<1>1. IInv => PayloadIsLeft
  <2> SUFFICES ASSUME IInv, phase = "reading", headers = <<>>, footers = <<>>
               PROVE  SubSeq(Data, BytesRead + 1, BufferBytes) = payload
    BY DEF PayloadIsLeft
  <2>1. /\ Data \in Seq(Byte) /\ BytesRead \in Nat /\ BufferBytes \in Nat
        /\ headers \in Seq(Headers) /\ footers \in Seq(Footers) /\ payload \in Payloads
        /\ BufferBytes <= Len(Data)
    BY Zenon DEF IInv, TypeInv, WritingInv
  <2> DEFINE p == Pieces(headers, payload, footers)
  <2>2. p[1] = payload
    <3>1. \A hs \in Seq(Headers), fs \in Seq(Footers) : \A bytes :
              Pieces(hs, bytes, fs)[Len(hs) + 1] = bytes
      BY PiecesAre
    <3>2. Len(headers) + 1 = 1
      OBVIOUS
    <3>3. p[Len(headers) + 1] = payload
      BY Zenon, <2>1, <3>1
    <3> QED BY Zenon, <3>2, <3>3
  <2>3. payload \in Seq(Byte)
    BY Zenon, <2>1, PayloadsAssumption
  <2>4. Len(payload) \in Nat
    BY <2>3
  <2>5. Laid(Data, p, 1, BytesRead, BufferBytes)
    <3>1. Count = 1
      <4>1. Count = Len(headers) + 1 + Len(footers)
        BY Zenon DEF Count
      <4> QED BY <4>1
    <3> QED BY Zenon, <3>1 DEF IInv
  <2> HIDE DEF p
  <2>6. PICK at \in [0..1 -> Nat] :
          /\ at[0] = BytesRead /\ at[1] = BufferBytes
          /\ \A i \in 1..1 : /\ at[i] = at[i - 1] + Len(p[i])
                             /\ \A k \in 1..Len(p[i]) : Data[at[i - 1] + k] = p[i][k]
    BY Zenon, <2>5 DEF Laid
  <2>7. 1 \in 1..1 /\ 1 - 1 = 0
    OBVIOUS
  <2>8. /\ at[1] = at[1 - 1] + Len(payload)
        /\ \A k \in 1..Len(payload) : Data[at[1 - 1] + k] = payload[k]
    BY Zenon, <2>2, <2>6, <2>7
  <2>9. BufferBytes = BytesRead + Len(payload) /\ HasAt(Data, BytesRead, payload)
    BY Zenon, <2>6, <2>7, <2>8 DEF HasAt
  <2>10. SubSeq(Data, BytesRead + 1, BytesRead + Len(payload)) = payload
    BY Zenon, <2>1, <2>3, <2>9, BytesThere
  <2> QED BY Zenon, <2>9, <2>10
<1> QED BY Invariance, <1>1, PTL

\* A field that is cut short is refused, whatever lies behind or in front of
\* what is left of it.
THEOREM CutFieldsAreRefused == Spec => []CutFieldIsRefused
<1>1. IInv => CutFieldIsRefused
  <2> SUFFICES ASSUME IInv PROVE CutFieldIsRefused
    OBVIOUS
  <2>1. ASSUME phase = "reading", headers # <<>>, NEW n \in 0..Remaining,
               Head(headers).kind \notin DOMAIN PlainBytes
        PROVE  \/ n >= Len(SerializeHeader(Head(headers)))
               \/ DeserializeHeader(Head(headers).kind, Peek, n) = FormatError
    BY Zenon, <2>1, HeaderComesBack
  <2>2. ASSUME phase = "reading", footers # <<>>, NEW n \in 0..Remaining
        PROVE  \/ n >= Len(SerializeFooter(Last(footers)))
               \/ DeserializeFooter(Last(footers).kind, PeekEnd, n) = FormatError
    BY Zenon, <2>2, FooterComesBack
  <2> QED BY Zenon, <2>1, <2>2 DEF CutFieldIsRefused
<1> QED BY Invariance, <1>1, PTL
=============================================================================
