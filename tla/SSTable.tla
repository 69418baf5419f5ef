------------------------------ MODULE SSTable ------------------------------
(***************************************************************************)
(* Operators on tables of pairs: an SSTable of kryolsm/lsm-drive/code.c is *)
(* a sequence of records with a key and a value.  Keys are integers, in    *)
(* the order that compare_keys (strcmp) gives the strings.                 *)
(***************************************************************************)
EXTENDS Integers, Sequences, FiniteSets, Functions, FiniteSetsExt

CONSTANT Keys  \* key strings, as integers ordered as strcmp does

ASSUME KeysAssumption == Keys \subseteq Nat

KeysIn(pairs) == {p.key : p \in pairs}

Sorted(t) == \A i, j \in DOMAIN t : i < j => t[i].key <= t[j].key
StrictlySorted(t) == \A i, j \in DOMAIN t : i < j => t[i].key < t[j].key

\* qsort with compare_keys: the sorted orders of s, equal keys in any order.
SortsOf(s) ==
    {t \in {[i \in DOMAIN s |-> s[p[i]]] : p \in Bijection(DOMAIN s, DOMAIN s)} :
        Sorted(t)}

\* The ways to list a set of keys in strictly increasing order (there is one).
Listings(ks) ==
    {f \in [1..Cardinality(ks) -> ks] :
        /\ Range(f) = ks
        /\ \A i, j \in DOMAIN f : i < j => f[i] < f[j]}

\* The binary search of lsm_get between two positions <<left, right>>, counted
\* from 1; 0 when k is not met.
Search(t, k) ==
    LET mid(i) == i[1] + (i[2] - i[1]) \div 2
        seek[i \in (1..(Len(t) + 1)) \X (0..Len(t))] ==
            IF i[1] > i[2] THEN 0
            ELSE IF t[mid(i)].key = k THEN mid(i)
            ELSE IF t[mid(i)].key < k THEN seek[<<mid(i) + 1, i[2]>>]
            ELSE seek[<<i[1], mid(i) - 1>>]
    IN  seek[<<1, Len(t)>>]
=============================================================================
