--------------------------- MODULE MCPacketAllocator ---------------------------
(* Small instances of PacketAllocator for TLC. *)
EXTENDS PacketAllocator

CONSTANTS w1, w2, c1, c2

Huge1 == <<w1>>
=============================================================================
