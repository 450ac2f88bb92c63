---------------------------- MODULE MCGrowingBuffers ----------------------------
(* A small instance of GrowingBuffers for TLC: its constants are in the cfg. *)
EXTENDS GrowingBuffers
=============================================================================
