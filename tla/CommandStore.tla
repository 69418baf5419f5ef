---------------------------- MODULE CommandStore ----------------------------
(***************************************************************************)
(* The server's table of keys, g_storage, and the commands on it: what     *)
(* handle_client_connection of server/commands/commands.c does with one    *)
(* command it has received.  There is one thread that runs it, so a        *)
(* command is one step.                                                    *)
(*                                                                         *)
(* Keys are abstract strings with a home bucket (hash) and a stored form:  *)
(* a node holds at most 63 characters of its key, 255 of its value.  Keys  *)
(* whose hash & 1000 is 1000 are left out: they use the memory behind      *)
(* buckets[1000].                                                          *)
(* storage_get is read as strcmp, the call without its length that the     *)
(* source has does not compile; likewise calloc(sizeof ...).               *)
(***************************************************************************)
EXTENDS CacheProtocol, Sequences, FiniteSets, FiniteSetsExt

CONSTANTS
    NoValue,   \* no node: the NULL of storage_get
    Buckets,   \* the buckets in use
    Home,      \* Home[k]: the bucket hash(k)
    Stored,    \* Stored[k]: what strncpy leaves of k in a node
    Kept,      \* Kept[v]: what strncpy leaves of a value in a node
    MaxNodes   \* bound: calloc fails from this many nodes on

ASSUME HomeAssumption == Home \in [Keys -> Buckets]
ASSUME StoredAssumption == /\ Stored \in [Keys -> Keys]
                           /\ \A k \in Keys : Stored[Stored[k]] = Stored[k]
ASSUME KeptAssumption == Kept \in [Vals -> Vals]
ASSUME NoValueAssumption == NoValue \notin Vals
ASSUME MaxNodesAssumption == MaxNodes \in Nat

VARIABLES
    buckets,  \* buckets[b]: the chain of nodes, head first
    size,     \* g_storage.size
    request,  \* the last command handled
    reply,    \* and the answer sent
    last      \* history: the value of the last SET answered OK, since a FLUSH

storeVars == <<buckets, size, last>>
vars == <<buckets, size, request, reply, last>>

Node == [key : Keys, value : Vals]

\* The nodes of k's chain whose key is k: what the strcmp walk can stop at.
Hits(k) == {i \in DOMAIN buckets[Home[k]] : buckets[Home[k]][i].key = k}

\* storage_get
Find(k) == IF Hits(k) = {} THEN NoValue
           ELSE buckets[Home[k]][Min(Hits(k))].value

Init ==
    /\ buckets = [b \in Buckets |-> <<>>]
    /\ size = 0
    /\ request = [cmd |-> "UNKNOWN"]
    /\ reply = Say("NONE")
    /\ last = [k \in Keys |-> NoValue]

---------------------------------------------------------------------------
(* storage_set: overwrite the first node of that key, or prepend a node. *)

Overwrite(k, v) ==
    /\ Hits(k) # {}
    /\ buckets' = [buckets EXCEPT ![Home[k]][Min(Hits(k))].value = Kept[v]]
    /\ UNCHANGED size

\* The operators named Bug... are never used by the specification: each is a
\* mistake that a change to the code could make, kept as a test of a property.

\* A node is added without a look at the chain.
BugNoWalk(k, v) ==
    /\ size < MaxNodes
    /\ buckets' = [buckets EXCEPT ![Home[k]] = <<[key |-> Stored[k], value |-> Kept[v]]>> \o @]
    /\ size' = size + 1

Prepend(k, v) ==
    /\ Hits(k) = {}
    /\ size < MaxNodes
    /\ buckets' = [buckets EXCEPT ![Home[k]] = <<[key |-> Stored[k], value |-> Kept[v]]>> \o @]
    /\ size' = size + 1

\* The result of storage_set is ignored.
BugAlwaysOk(k, v) ==
    /\ \/ Overwrite(k, v) \/ Prepend(k, v)
       \/ Hits(k) = {} /\ UNCHANGED <<buckets, size>>
    /\ reply' = Say("OK")
    /\ last' = [last EXCEPT ![k] = v]

Set(k, v) ==
    \/ /\ Overwrite(k, v) \/ Prepend(k, v)
       /\ reply' = Say("OK")
       /\ last' = [last EXCEPT ![k] = v]
    \/ /\ Hits(k) = {}            \* calloc fails
       /\ reply' = Say("ERROR_MEMORY")
       /\ UNCHANGED storeVars

Get(k) ==
    /\ reply' = IF Find(k) = NoValue THEN Say("NOT_FOUND") ELSE SayValue(Find(k))
    /\ UNCHANGED storeVars

Exists(k) ==
    /\ reply' = IF Find(k) = NoValue THEN Say("ZERO") ELSE Say("ONE")
    /\ UNCHANGED storeVars

\* The handler of DELETE answers and does nothing else.
Delete(k) ==
    /\ reply' = Say("OK")
    /\ UNCHANGED storeVars

\* The count is not reset.
BugSizeKept ==
    /\ buckets' = [b \in Buckets |-> <<>>]
    /\ last' = [k \in Keys |-> NoValue]
    /\ reply' = Say("OK")
    /\ UNCHANGED size

Flush ==
    /\ buckets' = [b \in Buckets |-> <<>>]
    /\ size' = 0
    /\ last' = [k \in Keys |-> NoValue]
    /\ reply' = Say("OK")

Stats == reply' = SayKeys(size) /\ UNCHANGED storeVars
Ping == reply' = Say("PONG") /\ UNCHANGED storeVars
BadSet == reply' = Say("ERROR_FORMAT") /\ UNCHANGED storeVars
Unknown == reply' = Say("ERROR_UNKNOWN") /\ UNCHANGED storeVars

\* handle_client_connection, from the received command to the answer sent.
Handle(req) ==
    /\ request' = req
    /\ \/ req.cmd = "PING" /\ Ping
       \/ req.cmd = "FLUSH" /\ Flush
       \/ req.cmd = "SET" /\ Set(req.key, req.value)
       \/ req.cmd = "SET_NO_VALUE" /\ BadSet
       \/ req.cmd = "GET" /\ Get(req.key)
       \/ req.cmd = "DELETE" /\ Delete(req.key)
       \/ req.cmd = "EXISTS" /\ Exists(req.key)
       \/ req.cmd = "STATS" /\ Stats
       \/ req.cmd = "UNKNOWN" /\ Unknown

Next == \E req \in Request : Handle(req)

Spec == Init /\ [][Next]_vars

---------------------------------------------------------------------------
(* Properties *)

TypeOK ==
    /\ buckets \in [Buckets -> Seq(Node)]
    /\ size \in Nat
    /\ request \in Request
    /\ reply \in Reply
    /\ last \in [Keys -> Vals \cup {NoValue}]

\* A key that a node holds whole.
Short == {k \in Keys : Stored[k] = k}

\* A short key that no longer key of the same bucket is cut down to.
Plain == {k \in Short : \A l \in Keys \ {k} : ~(Stored[l] = k /\ Home[l] = Home[k])}

\* A plain key has at most one node in its bucket: storage_set overwrites it
\* and never leaves an older value behind that a walk of the chain could meet.
OneNodePerPlainKey == \A k \in Plain : Cardinality(Hits(k)) <= 1

\* size, which STATS reports, counts the nodes of all the chains, through any
\* run of inserts, overwrites, refused inserts and flushes.
SizeCountsNodes == size = MapThenSumSet(LAMBDA b : Len(buckets[b]), Buckets)

\* What the last SET answered OK has stored is read back, for a plain key.  For
\* a key that is cut down when it is stored it never is, although the client lets
\* such keys through and is answered OK.
SetIsStored ==
    \A k \in Keys :
        /\ k \in Plain => Find(k) = IF last[k] = NoValue THEN NoValue ELSE Kept[last[k]]
        /\ k \notin Short => Find(k) = NoValue

---------------------------------------------------------------------------
View == [k \in Plain |-> Find(k)]
CM == INSTANCE CacheMap WITH map <- View

\* For the plain keys the table of buckets is a map, whatever longer keys and
\* collisions do to the chains, and every answer is the one the map gives.  Of
\* DELETE only the answer is expected, since its handler stops there; whether
\* the key is gone is left open.
PlainKeysFormMap == CM!Spec
=============================================================================
