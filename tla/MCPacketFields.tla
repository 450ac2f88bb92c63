----------------------------- MODULE MCPacketFields -----------------------------
(* Fields for PacketFields: values at both sides of every change of width. *)
EXTENDS PacketFields

Fields(kind, values) == {[kind |-> kind, value |-> v] : v \in values}

Numbers == {0, 127, 128, 16383, 16384, 65535, SIAMESE_PACKET_NUM_COUNT - 1}
Counts == {1, 127, 128, 255, SIAMESE_MAX_PACKETS}
Lengths == {1, 127, 128, 16383, 16384, 2097151, 2097152, 536870911}
RelativeStarts == {0, 31, 32, 4095, 4096, 524287, 524288, SIAMESE_PACKET_NUM_COUNT - 1}
LossCountM1s == {0, 2, 3, 130, 131, 16386, 16387, SIAMESE_PACKET_NUM_COUNT - 1}
SomeMetadata ==
    {m \in [Row : {0, kRowPeriod - 1}, ColumnStart : {0, 128, kColumnPeriod - 1},
            SumCount : {1, 2, 128, 129, SIAMESE_MAX_PACKETS},
            LDPCCount : {1, 127, 128}] : m.LDPCCount <= m.SumCount}

AllHeaders ==
    Fields("PacketNum", Numbers) \cup Fields("PacketCount", Counts)
    \cup Fields("PacketLength", Lengths)
    \cup Fields("NACKLossRange", RelativeStarts \X LossCountM1s)
    \cup Fields("U8", {255}) \cup Fields("U16", {43981}) \cup Fields("U24", {11259375})
    \cup Fields("U32", {2309737})

AllFooters ==
    Fields("PacketNum", Numbers) \cup Fields("PacketCount", Counts \cup {0})
    \cup Fields("PacketLength", Lengths) \cup Fields("RecoveryMetadata", SomeMetadata)

\* A payload is long enough for a loss range to be read in front of it.
TwoPayloads == {[i \in 1..7 |-> 0], [i \in 1..7 |-> 255]}
=============================================================================
