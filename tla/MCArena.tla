------------------------------ MODULE MCArena ------------------------------
(***************************************************************************)
(* Small sizes in the proportions of the code: a default chunk of 4 bytes, *)
(* a largest chunk four times that, allocations of up to half the largest, *)
(* which is asked for too, and a byte more.                                *)
(***************************************************************************)
EXTENDS Arena

MCSizes == {0, 1, 3, 5, 8, 9}
=============================================================================
