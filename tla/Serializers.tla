------------------------------ MODULE Serializers ------------------------------
(***************************************************************************)
(* The variable-length fields of SiameseSerializers.h.  A buffer is a      *)
(* sequence of bytes; `bufferSpaceBytes` says how many of them belong to   *)
(* the field's packet, the others are memory behind (or, for a footer, in  *)
(* front of) it.  An OR of disjoint bits is a sum.                         *)
(*                                                                         *)
(* A footer is its header in reverse: both are written most significant    *)
(* byte towards the end at which it is read first.                         *)
(***************************************************************************)
EXTENDS Columns, Sequences, SequencesExt

SIAMESE_PACKET_NUM_COUNT == 4194304
SIAMESE_MAX_PACKETS == 256

kMaxPacketNumEncodedBytes == 3
kMaxPacketCountFieldBytes == 2
kMaxPacketLengthFieldBytes == 4
kMaxRecoveryMetadataBytes == 8
kMaxLossRangeFieldBytes == 7

Byte == 0..255

\* What Deserialize* returns: how many bytes it read, and what they say.
Decoded(bytes, value) == [bytes |-> bytes, value |-> value]
FormatError == [bytes |-> -1, value |-> 0]

-----------------------------------------------------------------------------
(* Plain data *)

\* What a byte counts in its place, the least significant one first.
Place == <<1, 256, 65536, 16777216>>

WriteLE(value, bytes) == [i \in 1..bytes |-> (value \div Place[i]) % 256]

ReadLE(buffer, bytes) ==
    LET part(i) == IF i <= bytes THEN buffer[i] * Place[i] ELSE 0
    IN  part(1) + part(2) + part(3) + part(4)

-----------------------------------------------------------------------------
(* Packet number, 0..SIAMESE_PACKET_NUM_COUNT - 1 *)

\* Mutant of SerializeHeader_PacketNum: the one-byte form is used too often.
SerializeHeader_PacketNumLong(packetNum) ==
    IF packetNum <= 255 THEN <<packetNum>>
    ELSE <<192 + packetNum \div 65536, (packetNum \div 256) % 256, packetNum % 256>>

SerializeHeader_PacketNum(packetNum) ==
    CASE packetNum <= 127 -> <<packetNum>>
      [] packetNum > 127 /\ packetNum <= 16383 ->
             <<128 + packetNum \div 256, packetNum % 256>>
      [] packetNum > 16383 ->
             <<192 + packetNum \div 65536, (packetNum \div 256) % 256, packetNum % 256>>

\* Mutant of DeserializeHeader_PacketNum: the space is not looked at.
DeserializeHeader_PacketNumUnchecked(buffer, bufferSpaceBytes) ==
    LET byteCount == buffer[1] \div 64
    IN  CASE bufferSpaceBytes < 1 -> FormatError
          [] bufferSpaceBytes >= 1 /\ byteCount <= 1 -> Decoded(1, buffer[1])
          [] bufferSpaceBytes >= 1 /\ byteCount = 2 ->
                 Decoded(2, (buffer[1] * 256 + buffer[2]) % 16384)
          [] bufferSpaceBytes >= 1 /\ byteCount = 3 ->
                 Decoded(3, (buffer[1] * 65536 + buffer[2] * 256 + buffer[3]) % 4194304)

DeserializeHeader_PacketNum(buffer, bufferSpaceBytes) ==
    LET byteCount == buffer[1] \div 64
    IN  CASE bufferSpaceBytes < 1 -> FormatError
          [] bufferSpaceBytes >= 1 /\ byteCount <= 1 -> Decoded(1, buffer[1])
          [] bufferSpaceBytes >= 1 /\ byteCount >= 2 /\ bufferSpaceBytes < byteCount -> FormatError
          [] byteCount = 2 /\ bufferSpaceBytes >= 2 ->
                 Decoded(2, (buffer[1] * 256 + buffer[2]) % 16384)
          [] byteCount = 3 /\ bufferSpaceBytes >= 3 ->
                 Decoded(3, (buffer[1] * 65536 + buffer[2] * 256 + buffer[3]) % 4194304)

SerializeFooter_PacketNum(packetNum) == Reverse(SerializeHeader_PacketNum(packetNum))
DeserializeFooter_PacketNum(buffer, bufferSpaceBytes) ==
    DeserializeHeader_PacketNum(Reverse(buffer), bufferSpaceBytes)

\* For buffers of at least three bytes, which it does not ask for.
DeserializeFooter_PacketNum_Unsafe(buffer) ==
    LET fromEnd(i) == buffer[Len(buffer) + 1 - i]
        byteCount == fromEnd(1) \div 64
    IN  CASE byteCount <= 1 -> Decoded(1, fromEnd(1))
          [] byteCount = 2 -> Decoded(2, (fromEnd(1) * 256 + fromEnd(2)) % 16384)
          [] byteCount = 3 ->
                 Decoded(3, (fromEnd(1) * 65536 + fromEnd(2) * 256 + fromEnd(3)) % 4194304)

-----------------------------------------------------------------------------
(* Packet count, 0..SIAMESE_MAX_PACKETS *)

SerializeHeader_PacketCount(count) ==
    IF count <= 127 THEN <<count>> ELSE <<128 + count \div 256, count % 256>>

DeserializeHeader_PacketCount(buffer, bufferSpaceBytes) ==
    LET long == buffer[1] >= 128
    IN  CASE bufferSpaceBytes < 1 -> FormatError
          [] bufferSpaceBytes >= 1 /\ ~long -> Decoded(1, buffer[1])
          [] bufferSpaceBytes = 1 /\ long -> FormatError
          [] bufferSpaceBytes >= 2 /\ long ->
                 Decoded(2, (buffer[2] + buffer[1] * 256) % 32768)

SerializeFooter_PacketCount(count) == Reverse(SerializeHeader_PacketCount(count))
DeserializeFooter_PacketCount(buffer, bufferSpaceBytes) ==
    DeserializeHeader_PacketCount(Reverse(buffer), bufferSpaceBytes)

-----------------------------------------------------------------------------
(* Packet length, 1..0x1fffffff *)

SerializeHeader_PacketLength(length) ==
    CASE length <= 127 -> <<length>>
      [] length > 127 /\ length <= 16383 -> <<128 + length \div 256, length % 256>>
      [] length > 16383 /\ length <= 2097151 ->
             <<192 + length \div 65536, (length \div 256) % 256, length % 256>>
      [] length > 2097151 ->
             <<224 + length \div 16777216, (length \div 65536) % 256,
               (length \div 256) % 256, length % 256>>

\* The number of bytes the first one announces.
LengthBytes(byte) ==
    CASE byte < 128 -> 1
      [] byte >= 128 /\ byte < 192 -> 2
      [] byte >= 192 /\ byte < 224 -> 3
      [] byte >= 224 -> 4

\* In the last line the mask is applied to the first byte: the unmasked sum
\* is too large for TLC.
DeserializeHeader_PacketLength(buffer, bufferSpaceBytes) ==
    LET byteCount == LengthBytes(buffer[1])
    IN  CASE bufferSpaceBytes < 1 -> FormatError
          [] bufferSpaceBytes >= 1 /\ bufferSpaceBytes < byteCount -> FormatError
          [] byteCount = 1 /\ bufferSpaceBytes >= 1 -> Decoded(1, buffer[1])
          [] byteCount = 2 /\ bufferSpaceBytes >= 2 ->
                 Decoded(2, (buffer[1] * 256 + buffer[2]) % 16384)
          [] byteCount = 3 /\ bufferSpaceBytes >= 3 ->
                 Decoded(3, (buffer[1] * 65536 + buffer[2] * 256 + buffer[3]) % 2097152)
          [] byteCount = 4 /\ bufferSpaceBytes >= 4 ->
                 Decoded(4, (buffer[1] % 32) * 16777216 + buffer[2] * 65536
                                + buffer[3] * 256 + buffer[4])

SerializeFooter_PacketLength(length) == Reverse(SerializeHeader_PacketLength(length))
DeserializeFooter_PacketLength(buffer, bufferSpaceBytes) ==
    DeserializeHeader_PacketLength(Reverse(buffer), bufferSpaceBytes)

-----------------------------------------------------------------------------
(* Recovery metadata *)

\* The row is the byte in front of the other fields, all of them footers.
SerializeFooter_RecoveryMetadata(metadata) ==
    (IF metadata.SumCount > 1
     THEN <<metadata.Row>> \o SerializeFooter_PacketCount(metadata.LDPCCount)
     ELSE <<>>)
    \o SerializeFooter_PacketNum(metadata.ColumnStart)
    \o SerializeFooter_PacketCount(metadata.SumCount - 1)

\* A buffer without the last `bytes` of it.
Before(buffer, bytes) == SubSeq(buffer, 1, Len(buffer) - bytes)

DeserializeFooter_RecoveryMetadata(buffer, bufferSpaceBytes) ==
    LET sum == DeserializeFooter_PacketCount(buffer, bufferSpaceBytes)
        SumCount == sum.value + 1
        space1 == bufferSpaceBytes - sum.bytes
        column == DeserializeFooter_PacketNum(Before(buffer, sum.bytes), space1)
        space2 == space1 - column.bytes
        rest == Before(buffer, sum.bytes + column.bytes)
        ldpc == DeserializeFooter_PacketCount(rest, space2)
        space3 == space2 - ldpc.bytes
        result(LDPCCount, row) ==
            [ColumnStart |-> column.value, SumCount |-> SumCount,
             LDPCCount |-> LDPCCount, Row |-> row]
    IN  IF sum.bytes < 0 \/ column.bytes < 0 THEN FormatError
        ELSE IF SumCount <= 1
             THEN Decoded(bufferSpaceBytes - space2, result(1, 0))
        ELSE IF ldpc.bytes < 0 \/ SumCount < ldpc.value \/ space3 < 1 THEN FormatError
        ELSE Decoded(bufferSpaceBytes - space3 + 1,
                 result(ldpc.value, Last(Before(rest, ldpc.bytes))))

-----------------------------------------------------------------------------
(* NACK loss range: a start in 5 + 7 + 7 + 3 bits and a count less one in 2, *)
(* or 2 + 7 + 7 + 8 bits; a high bit says that more follow                   *)

Extension(value) ==
    CASE value < 128 -> <<value>>
      [] value >= 128 /\ value < 16384 -> <<128 + (value % 128), value \div 128>>
      [] value >= 16384 ->
             <<128 + (value % 128), 128 + ((value \div 128) % 128), value \div 16384>>

\* The extension that starts behind the first `offset` bytes of the buffer.
ReadExtension(buffer, offset) ==
    LET byte1 == buffer[offset + 1]
        byte2 == buffer[offset + 2]
        byte3 == buffer[offset + 3]
    IN  CASE byte1 < 128 -> Decoded(1, byte1)
          [] byte1 >= 128 /\ byte2 < 128 -> Decoded(2, (byte1 % 128) + byte2 * 128)
          [] byte1 >= 128 /\ byte2 >= 128 ->
                 Decoded(3, (byte1 % 128) + (byte2 % 128) * 128 + byte3 * 16384)

SerializeHeader_NACKLossRange(relativeStart, lossCountM1) ==
    LET flags == IF lossCountM1 <= 2 THEN lossCountM1 ELSE 3
        low == flags + 8 * (relativeStart % 32)
    IN  (IF relativeStart >= 32 THEN <<low + 4>> \o Extension(relativeStart \div 32) ELSE <<low>>)
        \o (IF lossCountM1 >= 3 THEN Extension(lossCountM1 - 3) ELSE <<>>)

DeserializeHeader_NACKLossRange(buffer, bufferSpaceBytes) ==
    LET byte0 == buffer[1]
        start == IF (byte0 \div 4) % 2 = 1 THEN ReadExtension(buffer, 1) ELSE Decoded(0, 0)
        count == IF byte0 % 4 = 3 THEN ReadExtension(buffer, 1 + start.bytes) ELSE Decoded(0, 0)
    IN  IF bufferSpaceBytes < kMaxLossRangeFieldBytes THEN FormatError
        ELSE Decoded(1 + start.bytes + count.bytes,
                 <<byte0 \div 8 + 32 * start.value, (byte0 % 4) + count.value>>)
=============================================================================
