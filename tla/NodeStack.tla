------------------------------ MODULE NodeStack ------------------------------
(***************************************************************************)
(* What the lock-free stack of third-party/ephemeral_hash_cas promises:    *)
(* push and pop are single steps on a sequence of nodes, and a node is on  *)
(* the stack or in the hands of one thread.                                *)
(***************************************************************************)
EXTENDS Sequences

CONSTANTS Threads, Nodes, Null

VARIABLES
    stack,  \* the nodes, top first
    owned,  \* owned[t]: the nodes that thread t may push
    result  \* result[t]: what the last pop of t returned

vars == <<stack, owned, result>>

Init ==
    /\ stack = <<>>
    /\ owned \in [Threads -> SUBSET Nodes]
    /\ result = [t \in Threads |-> Null]

Push(t) ==
    \E n \in owned[t] :
        /\ stack' = <<n>> \o stack
        /\ owned' = [owned EXCEPT ![t] = @ \ {n}]
        /\ UNCHANGED result

Pop(t) ==
    /\ stack # <<>>
    /\ stack' = Tail(stack)
    /\ owned' = [owned EXCEPT ![t] = @ \cup {Head(stack)}]
    /\ result' = [result EXCEPT ![t] = Head(stack)]

PopEmpty(t) ==
    /\ stack = <<>>
    /\ result' = [result EXCEPT ![t] = Null]
    /\ UNCHANGED <<stack, owned>>

Next == \E t \in Threads : Push(t) \/ Pop(t) \/ PopEmpty(t)

Spec == Init /\ [][Next]_vars
=============================================================================
