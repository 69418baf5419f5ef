--------------------------- MODULE MCBinarySearch ---------------------------
(* Every sorted table of up to MaxSize pairs over a few keys, for TLC. *)
EXTENDS BinarySearch

MCKeys == 1..5
=============================================================================
