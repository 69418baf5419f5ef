----------------------------- MODULE MCHashStack -----------------------------
(* Small instances of the lock-free stack for TLC. *)
EXTENDS HashStack

CONSTANTS t1, t2, a, b

\* The sixth hash repeats the second.
MCHashAt == [i \in 0..MaxDrawn |-> IF i = 6 THEN 2 ELSE i]
=============================================================================
