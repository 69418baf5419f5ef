------------------------------ MODULE CacheMap ------------------------------
(***************************************************************************)
(* What the server's table promises for the keys it can hold whole: a map  *)
(* from keys to values, without buckets, chains or nodes.                  *)
(***************************************************************************)
EXTENDS CacheProtocol, FiniteSets

CONSTANTS
    Plain,    \* the keys the promise is about
    NoValue,
    Kept      \* Kept[v]: what the table keeps of a value

VARIABLES map, request, reply

vars == <<map, request, reply>>

Empty == [k \in Plain |-> NoValue]
Mapped == {k \in Plain : map[k] # NoValue}

Init == map = Empty /\ request = [cmd |-> "UNKNOWN"] /\ reply = Say("NONE")

\* Only a key that is new may be refused.
Set(k, v) ==
    \/ /\ map' = [map EXCEPT ![k] = Kept[v]]
       /\ reply' = Say("OK")
    \/ /\ map[k] = NoValue
       /\ reply' = Say("ERROR_MEMORY")
       /\ UNCHANGED map

Get(k) ==
    /\ reply' = IF k \in Mapped THEN SayValue(map[k]) ELSE Say("NOT_FOUND")
    /\ UNCHANGED map

Exists(k) ==
    /\ reply' = IF k \in Mapped THEN Say("ONE") ELSE Say("ZERO")
    /\ UNCHANGED map

\* A delete answered OK should have removed the key, which is what the client's
\* program tells its user; the server's handler removes nothing.  Both are
\* allowed: what is promised of the other commands holds either way.
Delete(k) ==
    /\ reply' = Say("OK")
    /\ map' \in {map, [map EXCEPT ![k] = NoValue]}

Flush == reply' = Say("OK") /\ map' = Empty

\* Nodes that no key leads to may be counted too.
Stats ==
    /\ reply' \in [tag : {"KEYS"}, keys : Nat]
    /\ reply'.keys >= Cardinality(Mapped)
    /\ UNCHANGED map

\* A command without a key, or about a key outside Plain, leaves the map alone.
Aside(req) ==
    /\ \/ req.cmd \in {"PING", "SET_NO_VALUE", "UNKNOWN"}
       \/ /\ req.cmd \in KeyCommand \cup {"SET"}
          /\ req.key \notin Plain
    /\ reply' \in Reply
    /\ UNCHANGED map

Handle(req) ==
    /\ request' = req
    /\ \/ req.cmd = "SET" /\ req.key \in Plain /\ Set(req.key, req.value)
       \/ req.cmd = "GET" /\ req.key \in Plain /\ Get(req.key)
       \/ req.cmd = "EXISTS" /\ req.key \in Plain /\ Exists(req.key)
       \/ req.cmd = "DELETE" /\ req.key \in Plain /\ Delete(req.key)
       \/ req.cmd = "FLUSH" /\ Flush
       \/ req.cmd = "STATS" /\ Stats
       \/ Aside(req)

Next == \E req \in Request : Handle(req)

Spec == Init /\ [][Next]_vars
=============================================================================
