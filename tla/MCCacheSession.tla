--------------------------- MODULE MCCacheSession ---------------------------
(* Small instances of clients and server for TLC. *)
EXTENDS CacheSession

CONSTANTS k, mixed, v, mixedv, longv, c1, t1, t2

MCKeys == {k, mixed}
MCVals == {v, mixedv, longv}
MCHome == [x \in MCKeys |-> 1]
MCStored == [x \in MCKeys |-> x]
MCKept == [x \in MCVals |-> x]

\* Two threads share one client.
SharedOwner == [t \in {t1, t2} |-> c1]

SetCall == [cmd |-> "SET", key |-> k, value |-> v]
LongCall == [cmd |-> "SET", key |-> k, value |-> longv]
GetCall == [cmd |-> "GET", key |-> k]
PingCall == [cmd |-> "PING"]
FlushCall == [cmd |-> "FLUSH"]

SetGet == {SetCall, GetCall}
SetGetConnect == SetGet \cup {LongCall, Connecting}
SetFlushPing == {SetCall, FlushCall, PingCall}
=============================================================================
