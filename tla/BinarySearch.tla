---------------------------- MODULE BinarySearch ----------------------------
(***************************************************************************)
(* The loop of lsm_get that searches one SSTable, an iteration per step.   *)
(* left, right and mid are the C variables: positions from 0, the pair at  *)
(* position i being table[i + 1].                                          *)
(***************************************************************************)
EXTENDS SSTable

CONSTANT MaxSize  \* bound on the size of the tables searched

ASSUME MaxSizeAssumption == MaxSize \in Nat

VARIABLES
    pc,      \* "loop", "found", "missing"
    table,   \* the SSTable; qsort has sorted it
    key,     \* the key looked for
    left, right

loopVars == <<pc, table, key, left, right>>

Tables == UNION {[1..n -> [key : Keys]] : n \in 0..MaxSize}

Mid == left + (right - left) \div 2
Probe == table[Mid + 1].key

\* The operators named Bug... are never used by the specification: each is a
\* mistake that a change to the code could make, kept as a test of a property.

\* right starts behind the last pair.
BugPastEnd ==
    /\ pc = "loop"
    /\ table \in Tables
    /\ Sorted(table)
    /\ key \in Keys
    /\ left = 0
    /\ right = Len(table)

LoopInit ==
    /\ pc = "loop"
    /\ table \in Tables
    /\ Sorted(table)
    /\ key \in Keys
    /\ left = 0
    /\ right = Len(table) - 1

Hit ==
    /\ pc = "loop" /\ left <= right
    /\ Probe = key
    /\ pc' = "found"
    /\ UNCHANGED <<table, key, left, right>>

\* The interval keeps its middle.
BugMiddleKept ==
    /\ pc = "loop" /\ left <= right
    /\ Probe < key
    /\ left' = Mid
    /\ UNCHANGED <<pc, table, key, right>>

\* "The key you are looking for is bigger"
GoRight ==
    /\ pc = "loop" /\ left <= right
    /\ Probe < key
    /\ left' = Mid + 1
    /\ UNCHANGED <<pc, table, key, right>>

\* One pair too many is given up.
BugSkipsOne ==
    /\ pc = "loop" /\ left <= right
    /\ Probe > key
    /\ right' = Mid - 2
    /\ UNCHANGED <<pc, table, key, left>>

\* "The key you are looking for is less"
GoLeft ==
    /\ pc = "loop" /\ left <= right
    /\ Probe > key
    /\ right' = Mid - 1
    /\ UNCHANGED <<pc, table, key, left>>

\* The loop condition fails: on to the next older table, or NULL.
Miss ==
    /\ pc = "loop" /\ left > right
    /\ pc' = "missing"
    /\ UNCHANGED <<table, key, left, right>>

LoopNext == Hit \/ GoRight \/ GoLeft \/ Miss

LoopSpec == LoopInit /\ [][LoopNext]_loopVars /\ WF_loopVars(LoopNext)

---------------------------------------------------------------------------
LoopTypeOK ==
    /\ pc \in {"loop", "found", "missing"}
    /\ table \in Tables
    /\ key \in Keys
    /\ left \in 0..Len(table)
    /\ right \in -1..(Len(table) - 1)

\* The search says "missing" only of a key that no pair of the table has, and
\* stops at "found" only on a pair with the key: lsm_get falls through to an
\* older table exactly when this one cannot answer.
SearchIsRight ==
    /\ pc = "missing" => key \notin KeysIn(Range(table))
    /\ pc = "found" => Probe = key

\* No iteration reads a pair outside the table, whatever left and right became.
ProbeInTable == pc = "loop" /\ left <= right => Mid + 1 \in DOMAIN table

\* The operator that module LSMTree uses for a whole search gives the position
\* at which this loop stops.
SearchAgrees ==
    pc # "loop" => Search(table, key) = IF pc = "found" THEN Mid + 1 ELSE 0

\* The loop always stops.
Terminates == <>(pc # "loop")

---------------------------------------------------------------------------
\* A pair with the key, if there is one, lies between left and right.
Narrowing ==
    \A i \in DOMAIN table : table[i].key = key /\ pc # "found" => left < i /\ i <= right + 1

LoopInv == LoopTypeOK /\ Sorted(table) /\ Narrowing /\ (pc = "missing" => left > right)
        /\ (pc = "found" => left <= right /\ Probe = key)
=============================================================================
