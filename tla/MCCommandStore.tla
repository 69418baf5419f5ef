--------------------------- MODULE MCCommandStore ---------------------------
(***************************************************************************)
(* "long" is cut down to "cut", a short key of the same bucket, which k     *)
(* shares; "far" is cut down to k, but lives in another bucket.  The value *)
(* "big" is cut down to w.                                                 *)
(***************************************************************************)
EXTENDS CommandStore

CONSTANTS k, long, cut, far, v, w, big

MCKeys == {k, long, cut, far}
MCVals == {v, w, big}
MCBuckets == {1, 2}
MCHome == [x \in MCKeys |-> IF x = far THEN 2 ELSE 1]
MCStored == [x \in MCKeys |-> CASE x = long -> cut [] x = far -> k [] OTHER -> x]
MCKept == [x \in MCVals |-> IF x = big THEN w ELSE x]
=============================================================================
