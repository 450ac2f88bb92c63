----------------------------- MODULE MCCustomBitSet -----------------------------
(* A small instance of CustomBitSet for TLC: its constants are in the cfg. *)
EXTENDS CustomBitSet
=============================================================================
