------------------------------ MODULE MCSmemset ------------------------------
(* Every alignment, and lengths with up to two blocks of eight-byte words. *)
EXTENDS Smemset
=============================================================================
