----------------------------- MODULE MCLSMTree -----------------------------
(***************************************************************************)
(* Small instances of the LSM tree for TLC.  The key 2 is too long for its *)
(* field and is cut to 1, the value c to a.  Memory nobody wrote holds a   *)
(* pair whose key is too long: it is found where a put key never is.       *)
(***************************************************************************)
EXTENDS LSMTree

CONSTANTS a, b, c

MCKeys == {1, 2, 3}
MCVals == {a, b, c}
MCStored == [k \in MCKeys |-> IF k = 2 THEN 1 ELSE k]
MCKept == [v \in MCVals |-> IF v = c THEN a ELSE v]
MCGarbage == {[key |-> 2, value |-> b]}
=============================================================================
