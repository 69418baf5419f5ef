------------------------------ MODULE HashStack ------------------------------
(***************************************************************************)
(* The lock-free stack of third-party/ephemeral_hash_cas: every load,      *)
(* store and compare-and-swap of push and pop is a step of its own.  The   *)
(* head is a pointer with a 16-bit hash; each new head takes the next hash *)
(* of a shared generator, to tell it from an earlier head with the same    *)
(* pointer.  Nodes belong to the callers: a popped node may be written,    *)
(* freed and used again, and pushed again.                                 *)
(***************************************************************************)
EXTENDS Integers, Sequences, FiniteSets, Functions

CONSTANTS
    Threads, Nodes,
    Null,      \* the null pointer
    Hashes,    \* the values of 16 bits
    HashAt,    \* HashAt[i]: the i-th hash of the generator; HashAt[0] is 0
    MaxDrawn   \* bound on the hashes drawn

ASSUME NullAssumption == Null \notin Nodes
ASSUME NodesAssumption == IsFiniteSet(Nodes)
ASSUME HashAssumption == MaxDrawn \in Nat /\ HashAt \in [0..MaxDrawn -> Hashes]

VARIABLES
    head,    \* stack->head: [ptr, hash]
    drawn,   \* hashes drawn from stack->hash_gen
    next,    \* node->next
    owned,   \* owned[t]: the nodes in the hands of the callers of thread t
    result,  \* result[t]: what the last pop of t returned
    pc, op,  \* per thread: where it is, and in which of the two functions
    node, link, old, new,  \* its local variables; link is next_node
    version, \* history: the successful compare-and-swaps of the head
    seen,    \* history: per thread, version at its last load of the head
    fooled   \* history: a compare-and-swap has succeeded on a head that had
             \* been replaced since it was loaded

locals == <<node, link, old, new>>
vars == <<head, drawn, next, owned, result, pc, op, locals, version, seen, fooled>>

Pointer == Nodes \cup {Null}
HashPtr == [ptr : Pointer, hash : Hashes]

Init ==
    /\ head = [ptr |-> Null, hash |-> HashAt[0]]
    /\ drawn = 0
    /\ next = [n \in Nodes |-> Null]
    /\ owned \in [Threads -> SUBSET Nodes]
    /\ \A n \in Nodes : \E t \in Threads : n \in owned[t]
    /\ \A t, u \in Threads : t # u => owned[t] \cap owned[u] = {}
    /\ result = [t \in Threads |-> Null]
    /\ pc = [t \in Threads |-> "idle"]
    /\ op = [t \in Threads |-> "pop"]
    /\ node = [t \in Threads |-> Null]
    /\ link = [t \in Threads |-> Null]
    /\ old = [t \in Threads |-> head]
    /\ new = [t \in Threads |-> head]
    /\ version = 0
    /\ seen = [t \in Threads |-> 0]
    /\ fooled = FALSE

Goto(t, label) == pc' = [pc EXCEPT ![t] = label]

---------------------------------------------------------------------------
(* The callers. *)

CallPush(t) ==
    /\ pc[t] = "idle"
    /\ \E n \in owned[t] : node' = [node EXCEPT ![t] = n]
    /\ op' = [op EXCEPT ![t] = "push"]
    /\ Goto(t, "load")
    /\ UNCHANGED <<head, drawn, next, owned, result, link, old, new, version, seen, fooled>>

CallPop(t) ==
    /\ pc[t] = "idle"
    /\ op' = [op EXCEPT ![t] = "pop"]
    /\ Goto(t, "load")
    /\ UNCHANGED <<head, drawn, next, owned, result, locals, version, seen, fooled>>

\* A popped node is its owner's: it may be freed, and hold any pointer.  Left out
\* is a word that is no pointer of 48 bits, on which make_ehash_ptr aborts.
Reuse(t) ==
    /\ pc[t] = "idle"
    /\ \E n \in owned[t], p \in Pointer : next' = [next EXCEPT ![n] = p]
    /\ UNCHANGED <<head, drawn, owned, result, pc, op, locals, version, seen, fooled>>

---------------------------------------------------------------------------
(* The loops of ehash_stack_push and ehash_stack_pop. *)

\* EHash_load
Load(t) ==
    /\ old' = [old EXCEPT ![t] = head]
    /\ seen' = [seen EXCEPT ![t] = version]

PushLoad(t) ==
    /\ pc[t] = "load" /\ op[t] = "push"
    /\ Load(t)
    /\ Goto(t, "link")
    /\ UNCHANGED <<head, drawn, next, owned, result, op, node, link, new, version, fooled>>

PushLink(t) ==
    /\ pc[t] = "link"
    /\ next' = [next EXCEPT ![node[t]] = old[t].ptr]
    /\ Goto(t, "draw")
    /\ UNCHANGED <<head, drawn, owned, result, op, locals, version, seen, fooled>>

\* The operators named Bug... are never used by the specification: each is a
\* mistake that a change to the code could make, kept as a test of a property.

PopLoad(t) ==
    /\ pc[t] = "load" /\ op[t] = "pop"
    /\ head.ptr # Null
    /\ Load(t)
    /\ node' = [node EXCEPT ![t] = head.ptr]
    /\ Goto(t, "read")
    /\ UNCHANGED <<head, drawn, next, owned, result, op, link, new, version, fooled>>

PopEmpty(t) ==
    /\ pc[t] = "load" /\ op[t] = "pop"
    /\ head.ptr = Null
    /\ result' = [result EXCEPT ![t] = Null]
    /\ Goto(t, "idle")
    /\ UNCHANGED <<head, drawn, next, owned, op, locals, version, seen, fooled>>

\* The node may have been popped, written and pushed since it was loaded.
PopRead(t) ==
    /\ pc[t] = "read"
    /\ link' = [link EXCEPT ![t] = next[node[t]]]
    /\ Goto(t, "draw")
    /\ UNCHANGED <<head, drawn, next, owned, result, op, node, old, new, version, seen, fooled>>

\* hash_generator_next, which takes effect at the compare-and-swap that ends
\* its loop, and make_ehash_ptr.
Draw(t) ==
    /\ pc[t] = "draw"
    /\ drawn < MaxDrawn
    /\ drawn' = drawn + 1
    /\ new' = [new EXCEPT ![t] =
                 [ptr |-> IF op[t] = "push" THEN node[t] ELSE link[t],
                  hash |-> HashAt[drawn']]]
    /\ Goto(t, "cas")
    /\ UNCHANGED <<head, next, owned, result, op, node, link, old, version, seen, fooled>>

\* Only the pointers are compared.
BugPointersOnly(t) == head.ptr = old[t].ptr

\* EHash_CAS compares all 64 bits.
Unchanged(t) == head = old[t]

Swap(t) ==
    /\ pc[t] = "cas"
    /\ Unchanged(t)
    /\ head' = new[t]
    /\ version' = version + 1
    /\ fooled' = (fooled \/ seen[t] # version)
    /\ Goto(t, "idle")

PushSwap(t) ==
    /\ op[t] = "push"
    /\ Swap(t)
    /\ owned' = [owned EXCEPT ![t] = @ \ {node[t]}]
    /\ UNCHANGED <<drawn, next, result, op, locals, seen>>

PopSwap(t) ==
    /\ op[t] = "pop"
    /\ Swap(t)
    /\ owned' = [owned EXCEPT ![t] = @ \cup {node[t]}]
    /\ result' = [result EXCEPT ![t] = node[t]]
    /\ UNCHANGED <<drawn, next, op, locals, seen>>

\* The failed compare-and-swap leaves the present head in old_head, and the
\* loop goes on with it without setting next again.
BugOldUpdated(t) ==
    /\ pc[t] = "cas"
    /\ ~Unchanged(t)
    /\ Load(t)
    /\ Goto(t, "draw")
    /\ UNCHANGED <<head, drawn, next, owned, result, op, node, link, new, version, fooled>>

SwapFails(t) ==
    /\ pc[t] = "cas"
    /\ ~Unchanged(t)
    /\ Goto(t, "load")
    /\ UNCHANGED <<head, drawn, next, owned, result, op, locals, version, seen, fooled>>

Next == \E t \in Threads :
    \/ CallPush(t) \/ CallPop(t) \/ Reuse(t)
    \/ PushLoad(t) \/ PushLink(t) \/ PopLoad(t) \/ PopEmpty(t) \/ PopRead(t)
    \/ Draw(t) \/ PushSwap(t) \/ PopSwap(t) \/ SwapFails(t)

Spec == Init /\ [][Next]_vars

---------------------------------------------------------------------------
(* Properties *)

TypeOK ==
    /\ head \in HashPtr
    /\ drawn \in 0..MaxDrawn
    /\ next \in [Nodes -> Pointer]
    /\ owned \in [Threads -> SUBSET Nodes]
    /\ result \in [Threads -> Pointer]
    /\ pc \in [Threads -> {"idle", "load", "link", "read", "draw", "cas"}]
    /\ op \in [Threads -> {"push", "pop"}]
    /\ node \in [Threads -> Pointer] /\ link \in [Threads -> Pointer]
    /\ old \in [Threads -> HashPtr] /\ new \in [Threads -> HashPtr]
    /\ version \in 0..drawn
    /\ seen \in [Threads -> 0..drawn]
    /\ fooled \in BOOLEAN
    /\ \A t \in Threads : pc[t] \in {"link", "read"} => node[t] \in Nodes

\* The nodes met from p on, following the links, cut off where they must have run
\* into a cycle.
ChainFrom(p, links) ==
    LET met[k \in 0..Cardinality(Nodes)] ==
          IF k = 0 THEN p
          ELSE IF met[k - 1] = Null THEN Null ELSE links[met[k - 1]]
    IN  [i \in 1..Cardinality({k \in DOMAIN met : met[k] # Null}) |-> met[i - 1]]

Chain == ChainFrom(head.ptr, next)

\* Every node is on the stack, once, or in the hands of one thread: none is
\* lost, handed out twice, or on the stack while a caller writes it, until a
\* compare-and-swap is fooled.
NodesAccounted ==
    ~fooled =>
        /\ IsInjective(Chain)
        /\ \A n \in Nodes :
             Cardinality({t \in Threads : n \in owned[t]})
               = IF n \in Range(Chain) THEN 0 ELSE 1

\* A compare-and-swap is fooled only by a hash that the generator has returned
\* twice since the stack was made: the hash is all that protects the head.
FooledByRepeatOnly ==
    [][\A t \in Threads :
         fooled' # fooled /\ (PushSwap(t) \/ PopSwap(t)) =>
             Cardinality({i \in 0..drawn : HashAt[i] = old[t].hash}) > 1]_vars

---------------------------------------------------------------------------
Abstract == INSTANCE NodeStack WITH stack <- Chain

\* Until a compare-and-swap is fooled, push and pop are the steps of a stack,
\* each at its compare-and-swap, and a pop of nothing at its load.
StackUntilFooled ==
    Abstract!Init /\ [][fooled' \/ Abstract!Next]_(Abstract!vars)
=============================================================================
