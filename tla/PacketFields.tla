------------------------------ MODULE PacketFields ------------------------------
(***************************************************************************)
(* A packet made of fields: headers, a payload, footers.  It is written    *)
(* front to back with WriteByteStream, and read with ReadByteStream: the   *)
(* headers from the front, the footers from the back, in any order of the  *)
(* two.  The reader knows which fields to expect and nothing else.         *)
(***************************************************************************)
EXTENDS Serializers

CONSTANTS Headers,    \* the header fields a writer may write
          Footers,    \* the footer fields
          Payloads,   \* what it may write between them
          MaxFields   \* bound: fields of one packet

ASSUME PayloadsAssumption == Payloads \subseteq Seq(Byte)
ASSUME BoundAssumption == MaxFields \in Nat

VARIABLES
    Data,          \* the bytes of the packet
    BytesRead,     \* ReadByteStream: bytes read from the front
    BufferBytes,   \* the bytes of Data that belong to it: the caller takes footers off
    headers,       \* fields in front that are not read, first one first
    payload,       \* what is between them
    footers,       \* fields at the end that are not read, last one last
    phase          \* what is written next, or "reading"

vars == <<Data, BytesRead, BufferBytes, headers, payload, footers, phase>>

-----------------------------------------------------------------------------
(* One field *)

PlainBytes == [U8 |-> 1, U16 |-> 2, U24 |-> 3, U32 |-> 4]

SerializeHeader(field) ==
    CASE field.kind = "PacketNum" -> SerializeHeader_PacketNum(field.value)
      [] field.kind = "PacketCount" -> SerializeHeader_PacketCount(field.value)
      [] field.kind = "PacketLength" -> SerializeHeader_PacketLength(field.value)
      [] field.kind = "NACKLossRange" ->
             SerializeHeader_NACKLossRange(field.value[1], field.value[2])
      [] OTHER -> WriteLE(field.value, PlainBytes[field.kind])

DeserializeHeader(kind, buffer, bufferSpaceBytes) ==
    CASE kind = "PacketNum" -> DeserializeHeader_PacketNum(buffer, bufferSpaceBytes)
      [] kind = "PacketCount" -> DeserializeHeader_PacketCount(buffer, bufferSpaceBytes)
      [] kind = "PacketLength" -> DeserializeHeader_PacketLength(buffer, bufferSpaceBytes)
      [] kind = "NACKLossRange" -> DeserializeHeader_NACKLossRange(buffer, bufferSpaceBytes)
      [] OTHER -> Decoded(PlainBytes[kind], ReadLE(buffer, PlainBytes[kind]))

SerializeFooter(field) ==
    CASE field.kind = "PacketNum" -> SerializeFooter_PacketNum(field.value)
      [] field.kind = "PacketCount" -> SerializeFooter_PacketCount(field.value)
      [] field.kind = "PacketLength" -> SerializeFooter_PacketLength(field.value)
      [] OTHER -> SerializeFooter_RecoveryMetadata(field.value)

DeserializeFooter(kind, buffer, bufferSpaceBytes) ==
    CASE kind = "PacketNum" -> DeserializeFooter_PacketNum(buffer, bufferSpaceBytes)
      [] kind = "PacketCount" -> DeserializeFooter_PacketCount(buffer, bufferSpaceBytes)
      [] kind = "PacketLength" -> DeserializeFooter_PacketLength(buffer, bufferSpaceBytes)
      [] OTHER -> DeserializeFooter_RecoveryMetadata(buffer, bufferSpaceBytes)

-----------------------------------------------------------------------------
(* What may be written *)

PacketNumbers == {n \in Nat : n < SIAMESE_PACKET_NUM_COUNT}
PacketLengths == {bytes \in Nat \ {0} : bytes <= 536870911}
Metadata ==
    {m \in [Row : Row, ColumnStart : Column,
            SumCount : 1..SIAMESE_MAX_PACKETS, LDPCCount : 0..SIAMESE_MAX_PACKETS] :
        m.LDPCCount <= m.SumCount}

\* The values that the writer of a field asserts, or that its type holds.  A
\* count of 0 is written in footers only, which the theorems need not tell apart.
ValuesOf(kind) ==
    CASE kind = "PacketNum" -> PacketNumbers
      [] kind = "PacketCount" -> 0..SIAMESE_MAX_PACKETS
      [] kind = "PacketLength" -> PacketLengths
      [] kind = "NACKLossRange" -> PacketNumbers \X PacketNumbers
      [] kind = "RecoveryMetadata" -> Metadata
      [] OTHER -> {v \in Nat : v \div Place[PlainBytes[kind]] <= 255}

HeaderKinds == {"PacketNum", "PacketCount", "PacketLength", "NACKLossRange"} \cup DOMAIN PlainBytes
FooterKinds == {"PacketNum", "PacketCount", "PacketLength", "RecoveryMetadata"}

ASSUME HeadersAssumption ==
    \A field \in Headers : field.kind \in HeaderKinds /\ field.value \in ValuesOf(field.kind)
ASSUME FootersAssumption ==
    \A field \in Footers : field.kind \in FooterKinds /\ field.value \in ValuesOf(field.kind)

\* The reader of a loss range asks for its seven bytes whatever it finds there
\* (SiameseSerializers.h:935).
ASSUME LossRangeAssumption ==
    (\E field \in Headers : field.kind = "NACKLossRange") =>
        \A bytes \in Payloads : Len(bytes) >= kMaxLossRangeFieldBytes

-----------------------------------------------------------------------------
(* The streams *)

Remaining == BufferBytes - BytesRead
Peek == SubSeq(Data, BytesRead + 1, Len(Data))
PeekEnd == SubSeq(Data, 1, BufferBytes)

Write(bytes) ==
    /\ Data' = Data \o bytes
    /\ BufferBytes' = BufferBytes + Len(bytes)
    /\ UNCHANGED BytesRead

WriteHeader ==
    /\ phase = "headers" /\ Len(headers) < MaxFields
    /\ \E field \in Headers :
        /\ Write(SerializeHeader(field))
        /\ headers' = Append(headers, field)
    /\ UNCHANGED <<payload, footers, phase>>

WriteBuffer ==
    /\ phase = "headers"
    /\ \E bytes \in Payloads : Write(bytes) /\ payload' = bytes
    /\ phase' = "footers"
    /\ UNCHANGED <<headers, footers>>

WriteFooter ==
    /\ phase = "footers" /\ Len(headers) + Len(footers) < MaxFields
    /\ \E field \in Footers :
        /\ Write(SerializeFooter(field))
        /\ footers' = Append(footers, field)
    /\ UNCHANGED <<headers, payload, phase>>

Receive ==
    /\ phase = "footers"
    /\ phase' = "reading"
    /\ UNCHANGED <<Data, BytesRead, BufferBytes, headers, payload, footers>>

\* What the reader gets of the next field at either end.
NextHeader == DeserializeHeader(Head(headers).kind, Peek, Remaining)
NextFooter == DeserializeFooter(Last(footers).kind, PeekEnd, Remaining)

\* Mutant of ReadHeader: the reader goes one byte on, whatever it read.
ReadHeaderByte ==
    /\ phase = "reading" /\ headers # <<>> /\ NextHeader.bytes >= 0
    /\ BytesRead' = BytesRead + 1
    /\ headers' = Tail(headers)
    /\ UNCHANGED <<Data, BufferBytes, payload, footers, phase>>

ReadHeader ==
    /\ phase = "reading" /\ headers # <<>> /\ NextHeader.bytes >= 0
    /\ BytesRead' = BytesRead + NextHeader.bytes
    /\ headers' = Tail(headers)
    /\ UNCHANGED <<Data, BufferBytes, payload, footers, phase>>

ReadFooter ==
    /\ phase = "reading" /\ footers # <<>> /\ NextFooter.bytes >= 0
    /\ BufferBytes' = BufferBytes - NextFooter.bytes
    /\ footers' = Front(footers)
    /\ UNCHANGED <<Data, BytesRead, headers, payload, phase>>

Init ==
    /\ Data = <<>> /\ BytesRead = 0 /\ BufferBytes = 0
    /\ headers = <<>> /\ payload = <<>> /\ footers = <<>>
    /\ phase = "headers"

Next == WriteHeader \/ WriteBuffer \/ WriteFooter \/ Receive \/ ReadHeader \/ ReadFooter

Spec == Init /\ [][Next]_vars

-----------------------------------------------------------------------------
(* Properties *)

\* A metadata footer of a single packet carries neither row nor LDPC count
\* (tests/test_serializers.cpp:526).
AsRead(field) ==
    IF field.kind = "RecoveryMetadata" /\ field.value.SumCount = 1
    THEN [field.value EXCEPT !.LDPCCount = 1, !.Row = 0] ELSE field.value

\* The bytes that callers provide for each kind of field.
MaxBytes(kind) ==
    CASE kind = "PacketNum" -> kMaxPacketNumEncodedBytes
      [] kind = "PacketCount" -> kMaxPacketCountFieldBytes
      [] kind = "PacketLength" -> kMaxPacketLengthFieldBytes
      [] kind = "RecoveryMetadata" -> kMaxRecoveryMetadataBytes
      [] kind = "NACKLossRange" -> kMaxLossRangeFieldBytes
      [] OTHER -> PlainBytes[kind]

ReadsBack(field, bytes, read, value) ==
    /\ read = Decoded(Len(bytes), value)
    /\ Len(bytes) <= MaxBytes(field.kind)

\* Whatever is around it, a header or a footer reads back as it was written,
\* over all the bytes it was written in, which are no more than its constant
\* makes callers provide (SiameseSerializers.h:332, 385, 728).
FieldsReadBack ==
    /\ phase = "reading" /\ headers # <<>> =>
        LET field == Head(headers)
        IN  ReadsBack(field, SerializeHeader(field), NextHeader, field.value)
    /\ phase = "reading" /\ footers # <<>> =>
        LET field == Last(footers)
        IN  ReadsBack(field, SerializeFooter(field), NextFooter, AsRead(field))

\* When all fields are read, from whatever end first, the payload is left.
PayloadIsLeft ==
    phase = "reading" /\ headers = <<>> /\ footers = <<>> =>
        SubSeq(Data, BytesRead + 1, BufferBytes) = payload

\* A field that is cut short is refused, whatever lies in memory behind (or in
\* front of) what is left of it: no reader takes bytes it was not given.
CutFieldIsRefused ==
    /\ \A n \in 0..Remaining :
        phase = "reading" /\ headers # <<>> /\ Head(headers).kind \notin DOMAIN PlainBytes =>
            \/ n >= Len(SerializeHeader(Head(headers)))
            \/ DeserializeHeader(Head(headers).kind, Peek, n) = FormatError
    /\ \A n \in 0..Remaining :
        phase = "reading" /\ footers # <<>> =>
            \/ n >= Len(SerializeFooter(Last(footers)))
            \/ DeserializeFooter(Last(footers).kind, PeekEnd, n) = FormatError
=============================================================================
