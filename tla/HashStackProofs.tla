--------------------------- MODULE HashStackProofs ---------------------------
(***************************************************************************)
(* The lock-free stack for every number of threads, nodes and hashes: until*)
(* a compare-and-swap is fooled its nodes are a stack and no node is lost  *)
(* or handed out twice, and it is fooled by a repeated hash only.          *)
(***************************************************************************)
EXTENDS HashStack, FiniteSetTheorems, WellFoundedInduction, TLAPS

---------------------------------------------------------------------------
(* The chain of nodes. *)

\* s is the stack whose head is p: each of its nodes links to the one below.
Below(s, i) == IF i < Len(s) THEN s[i + 1] ELSE Null
Linked(s, p, links) ==
    /\ p = Below(s, 0)
    /\ \A i \in DOMAIN s : links[s[i]] = Below(s, i)

\* A set of naturals has a least element.
LEMMA LeastExists ==
    ASSUME NEW S, S \subseteq Nat, S # {}
    PROVE  \E x \in S : \A y \in S : x <= y
<1> DEFINE less == OpToRel(<, Nat)
<1>1. \E x \in S : \A y \in S : ~(<<y, x>> \in less)
  <2>1. IsWellFoundedOn(less, Nat)
    BY NatLessThanWellFounded
  <2> HIDE DEF less
  <2> QED
    BY <2>1, WFMin
<1>2. PICK x \in S : \A y \in S : ~(<<y, x>> \in less)
  BY <1>1
<1>3. ASSUME NEW y \in S PROVE x <= y
  <2>1. x \in Nat /\ y \in Nat
    OBVIOUS
  <2>2. ~(y < x)
    BY <1>2, <2>1 DEF OpToRel
  <2> QED
    BY <2>1, <2>2
<1> QED
  BY <1>3

\* A sequence that has no node twice is no longer than there are nodes.
LEMMA StackFits ==
    ASSUME NEW s \in Seq(Nodes), IsInjective(s)
    PROVE  Cardinality(Nodes) \in Nat /\ Len(s) \in 0..Cardinality(Nodes)
<1>1. Cardinality(Nodes) \in Nat
  BY NodesAssumption, FS_CardinalityType
<1>2. Len(s) \in Nat /\ s \in Injection(1..Len(s), Nodes)
  BY DEF Injection, IsInjective
<1>3. Cardinality(1..Len(s)) <= Cardinality(Nodes)
  BY <1>2, NodesAssumption, FS_Injection
<1>4. Cardinality(1..Len(s)) = Len(s)
  <2>1. 1 \in Int /\ Len(s) \in Int
    BY <1>2
  <2>2. Cardinality(1..Len(s)) = IF 1 > Len(s) THEN 0 ELSE Len(s) - 1 + 1
    BY <2>1, FS_Interval
  <2> QED
    BY <1>2, <2>2
<1> QED
  BY <1>1, <1>2, <1>3, <1>4

\* ChainFrom follows the links of a stack from its head to its last node.
LEMMA ChainOfStack ==
    ASSUME NEW s \in Seq(Nodes), IsInjective(s), NEW p, NEW links, Linked(s, p, links)
    PROVE  ChainFrom(p, links) = s
<1> DEFINE step(f) == [k \in 0..Cardinality(Nodes) |->
                         IF k = 0 THEN p
                         ELSE IF f[k - 1] = Null THEN Null ELSE links[f[k - 1]]]
           met == CHOOSE f : f = step(f)
           full == {k \in DOMAIN met : met[k] # Null}
           below == [k \in 0..Cardinality(Nodes) |-> Below(s, k)]
<1>1. /\ Cardinality(Nodes) \in Nat /\ Len(s) \in 0..Cardinality(Nodes)
      /\ DOMAIN s = 1..Len(s) /\ \A i \in 1..Len(s) : s[i] \in Nodes
      /\ Null \notin Nodes
  BY StackFits, NullAssumption
<1>2. /\ p = Below(s, 0)
      /\ \A k \in Nat : k < Len(s) => Below(s, k) # Null
      /\ \A k \in Nat : k >= Len(s) => Below(s, k) = Null
      /\ \A k \in Nat : Below(s, k + 1) =
            IF Below(s, k) = Null THEN Null ELSE links[Below(s, k)]
  BY <1>1 DEF Linked, Below
<1>3. ChainFrom(p, links) = [i \in 1..Cardinality(full) |-> met[i - 1]]
  BY DEF ChainFrom
<1>4. below = step(below)
  <2> HIDE DEF below
  <2>1. DOMAIN below = 0..Cardinality(Nodes) /\ below = [k \in DOMAIN below |-> below[k]]
        /\ \A k \in 0..Cardinality(Nodes) : below[k] = Below(s, k)
    BY DEF below
  <2>2. \A k \in 0..Cardinality(Nodes) :
          Below(s, k) = IF k = 0 THEN p
                        ELSE IF below[k - 1] = Null THEN Null ELSE links[below[k - 1]]
    <3> SUFFICES ASSUME NEW k \in 0..Cardinality(Nodes), k # 0
                 PROVE  Below(s, k) = IF below[k - 1] = Null THEN Null
                                      ELSE links[below[k - 1]]
      BY <1>2
    <3>1. k - 1 \in Nat /\ k - 1 \in 0..Cardinality(Nodes) /\ (k - 1) + 1 = k
      BY <1>1
    <3> QED
      BY <1>2, <2>1, <3>1
  <2> QED
    BY <2>1, <2>2
<1>5. met = step(met)
  <2> HIDE DEF below, step
  <2> QED
    BY <1>4
<1> HIDE DEF met
<1>6. /\ DOMAIN met = 0..Cardinality(Nodes)
      /\ \A k \in 0..Cardinality(Nodes) :
           met[k] = IF k = 0 THEN p
                    ELSE IF met[k - 1] = Null THEN Null ELSE links[met[k - 1]]
  <2>1. /\ DOMAIN step(met) = 0..Cardinality(Nodes)
        /\ \A k \in 0..Cardinality(Nodes) :
             step(met)[k] = IF k = 0 THEN p
                            ELSE IF met[k - 1] = Null THEN Null ELSE links[met[k - 1]]
    OBVIOUS
  <2> HIDE DEF step
  <2> QED
    BY <1>5, <2>1
<1>7. \A k \in 0..Cardinality(Nodes) : met[k] = Below(s, k)
  <2> DEFINE other == {k \in 0..Cardinality(Nodes) : met[k] # Below(s, k)}
  <2> SUFFICES ASSUME other # {} PROVE FALSE
    OBVIOUS
  <2>1. PICK k \in other : \A j \in other : k <= j
    <3>1. other \subseteq Nat
      BY <1>1
    <3> HIDE DEF other
    <3> QED
      BY <3>1, LeastExists
  <2>2. k # 0
    BY <1>1, <1>2, <1>6, <2>1
  <2>3. k - 1 \in 0..Cardinality(Nodes) /\ k - 1 \in Nat /\ (k - 1) + 1 = k
    BY <1>1, <2>1, <2>2
  <2>4. met[k - 1] = Below(s, k - 1)
    BY <2>1, <2>3
  <2> QED
    BY <1>2, <1>6, <2>1, <2>2, <2>3, <2>4
<1>8. full = 0..(Len(s) - 1)
  <2>1. ASSUME NEW k \in 0..Cardinality(Nodes)
        PROVE  met[k] # Null <=> k < Len(s)
    <3>1. k \in Nat /\ Len(s) \in Nat /\ met[k] = Below(s, k)
      BY <1>1, <1>7
    <3>2. CASE k < Len(s)
      BY <1>2, <3>1, <3>2
    <3>3. CASE k >= Len(s)
      BY <1>2, <3>1, <3>3
    <3> QED
      BY <3>1, <3>2, <3>3
  <2>2. full = {k \in 0..Cardinality(Nodes) : k < Len(s)}
    BY <1>6, <2>1
  <2> HIDE DEF full
  <2> QED
    BY <1>1, <2>2
<1>9. Cardinality(full) = Len(s)
  <2>1. 0 \in Int /\ Len(s) - 1 \in Int
    BY <1>1
  <2>2. Cardinality(0..(Len(s) - 1)) =
          IF 0 > Len(s) - 1 THEN 0 ELSE Len(s) - 1 - 0 + 1
    BY <2>1, FS_Interval
  <2> HIDE DEF full
  <2> QED
    BY <1>1, <1>8, <2>2
<1>10. \A i \in 1..Len(s) : met[i - 1] = s[i]
  BY <1>1, <1>7 DEF Below
<1> QED
  BY <1>1, <1>3, <1>9, <1>10

\* Nothing changes for a stack when only other nodes are written.
LEMMA LinkedApart ==
    ASSUME NEW s \in Seq(Nodes), NEW p, NEW links, NEW links2, Linked(s, p, links),
           \A n \in Range(s) : links2[n] = links[n]
    PROVE  Linked(s, p, links2)
BY DEF Linked, Range

\* A node that is not on the stack and links to its head can be put on it.
LEMMA PushedStack ==
    ASSUME NEW s \in Seq(Nodes), IsInjective(s), NEW p, NEW links, Linked(s, p, links),
           NEW n \in Nodes, n \notin Range(s), links[n] = p
    PROVE  /\ <<n>> \o s \in Seq(Nodes)
           /\ IsInjective(<<n>> \o s)
           /\ Linked(<<n>> \o s, n, links)
           /\ Range(<<n>> \o s) = Range(s) \cup {n}
<1> DEFINE q == <<n>> \o s
<1>1. /\ q \in Seq(Nodes) /\ Len(s) \in Nat
      /\ DOMAIN s = 1..Len(s) /\ Len(q) = Len(s) + 1
      /\ DOMAIN q = 1..(Len(s) + 1)
      /\ q[1] = n /\ \A i \in 1..Len(s) : q[i + 1] = s[i]
  OBVIOUS
<1> HIDE DEF q
<1>2. \A i \in DOMAIN q : i = 1 \/ (i - 1 \in 1..Len(s) /\ q[i] = s[i - 1])
  BY <1>1
<1>3. IsInjective(q)
  <2> SUFFICES ASSUME NEW i \in DOMAIN q, NEW j \in DOMAIN q, q[i] = q[j] PROVE i = j
    BY DEF IsInjective
  <2>1. \A k \in 1..Len(s) : s[k] # n
    BY <1>1 DEF Range
  <2>2. CASE i = 1 \/ j = 1
    BY <1>1, <1>2, <2>1, <2>2
  <2>3. CASE i # 1 /\ j # 1
    <3>1. i - 1 \in DOMAIN s /\ j - 1 \in DOMAIN s /\ s[i - 1] = s[j - 1]
      BY <1>1, <1>2, <2>3
    <3>2. i - 1 = j - 1
      BY <3>1 DEF IsInjective
    <3> QED
      BY <1>1, <3>2
  <2> QED
    BY <2>2, <2>3
<1>4. Linked(q, n, links)
  <2>1. /\ Below(q, 0) = n
        /\ Below(q, 1) = Below(s, 0)
        /\ \A i \in 1..Len(s) : Below(q, i + 1) = Below(s, i)
    BY <1>1 DEF Below
  <2>2. p = Below(s, 0) /\ \A i \in 1..Len(s) : links[s[i]] = Below(s, i)
    BY <1>1 DEF Linked
  <2>3. ASSUME NEW i \in DOMAIN q PROVE links[q[i]] = Below(q, i)
    <3>1. CASE i = 1
      BY <1>1, <2>1, <2>2, <3>1
    <3>2. CASE i # 1
      <4>1. i - 1 \in 1..Len(s) /\ q[i] = s[i - 1] /\ (i - 1) + 1 = i
        BY <1>1, <1>2, <3>2
      <4> QED
        BY <2>1, <2>2, <4>1
    <3> QED
      BY <3>1, <3>2
  <2> QED
    BY <2>1, <2>3 DEF Linked
<1>5. Range(q) = Range(s) \cup {n}
  <2>1. Range(q) \subseteq Range(s) \cup {n}
    BY <1>1, <1>2 DEF Range
  <2>2. \A i \in 1..Len(s) : i + 1 \in DOMAIN q /\ 1 \in DOMAIN q
    BY <1>1
  <2>3. Range(s) \subseteq Range(q)
    BY <1>1, <2>2 DEF Range
  <2>4. n \in Range(q)
    BY <1>1 DEF Range
  <2> QED
    BY <2>1, <2>3, <2>4
<1> QED
  BY <1>1, <1>3, <1>4, <1>5 DEF q

\* The head of a stack that is not empty can be taken off it.
LEMMA PoppedStack ==
    ASSUME NEW s \in Seq(Nodes), IsInjective(s), NEW p \in Nodes, NEW links,
           Linked(s, p, links)
    PROVE  /\ s # <<>> /\ Head(s) = p /\ p \in Range(s)
           /\ Tail(s) \in Seq(Nodes)
           /\ IsInjective(Tail(s))
           /\ Linked(Tail(s), links[p], links)
           /\ Range(Tail(s)) = Range(s) \ {p}
<1>1. Len(s) \in Nat /\ DOMAIN s = 1..Len(s) /\ \A i \in 1..Len(s) : s[i] \in Nodes
  OBVIOUS
<1>2. Len(s) # 0 /\ s[1] = p
  BY <1>1, NullAssumption DEF Linked, Below
<1>3. s # <<>> /\ Head(s) = p /\ p \in Range(s)
  BY <1>1, <1>2 DEF Range
<1> DEFINE q == Tail(s)
<1>4. /\ q \in Seq(Nodes) /\ Len(q) = Len(s) - 1 /\ DOMAIN q = 1..(Len(s) - 1)
      /\ \A i \in 1..(Len(s) - 1) : q[i] = s[i + 1]
  BY <1>1, <1>3
<1> HIDE DEF q
<1>5. IsInjective(q)
  <2> SUFFICES ASSUME NEW i \in DOMAIN q, NEW j \in DOMAIN q, q[i] = q[j] PROVE i = j
    BY DEF IsInjective
  <2>1. i + 1 \in DOMAIN s /\ j + 1 \in DOMAIN s /\ s[i + 1] = s[j + 1]
    BY <1>1, <1>4
  <2>2. i + 1 = j + 1
    BY <2>1 DEF IsInjective
  <2> QED
    BY <1>1, <1>4, <2>2
<1>6. Linked(q, links[p], links)
  <2>1. \A i \in 0..(Len(s) - 1) : Below(q, i) = Below(s, i + 1)
    BY <1>1, <1>4 DEF Below
  <2>2. \A i \in 1..Len(s) : links[s[i]] = Below(s, i)
    BY <1>1 DEF Linked
  <2>3. links[p] = Below(q, 0)
    BY <1>1, <1>2, <2>1, <2>2
  <2>4. \A i \in DOMAIN q : links[q[i]] = Below(q, i)
    BY <1>1, <1>4, <2>1, <2>2
  <2> QED
    BY <2>3, <2>4 DEF Linked
<1>7. Range(q) = Range(s) \ {p}
  <2>1. Range(q) \subseteq Range(s) \ {p}
    <3> SUFFICES ASSUME NEW i \in DOMAIN q PROVE q[i] \in Range(s) /\ q[i] # p
      BY DEF Range
    <3>1. i + 1 \in DOMAIN s /\ 1 \in DOMAIN s /\ i + 1 # 1 /\ q[i] = s[i + 1]
      BY <1>1, <1>4
    <3>2. s[i + 1] # s[1]
      BY <3>1 DEF IsInjective
    <3> QED
      BY <1>2, <3>1, <3>2 DEF Range
  <2>2. Range(s) \ {p} \subseteq Range(q)
    <3> SUFFICES ASSUME NEW i \in DOMAIN s, s[i] # p PROVE s[i] \in Range(q)
      BY DEF Range
    <3>1. i - 1 \in DOMAIN q /\ q[i - 1] = s[i]
      BY <1>1, <1>2, <1>4
    <3> QED
      BY <3>1 DEF Range
  <2> QED
    BY <2>1, <2>2
<1> QED
  BY <1>3, <1>4, <1>5, <1>6, <1>7 DEF q

---------------------------------------------------------------------------
(* The invariant. *)

\* Thread t has loaded the head that it will compare with.
Loaded(t) == pc[t] \in {"link", "read", "draw", "cas"}

\* What a thread knows at the place where it is, whatever the hashes do: the node
\* that it pushes is its own, the node that it pops is the one it has loaded, and
\* the head is what it has loaded until a compare-and-swap succeeds.
AtPlace(t) ==
    /\ pc[t] = "link" => op[t] = "push"
    /\ pc[t] = "read" => op[t] = "pop"
    /\ op[t] = "push" /\ pc[t] # "idle" => node[t] \in owned[t]
    /\ op[t] = "pop" /\ Loaded(t) => node[t] = old[t].ptr /\ node[t] \in Nodes
    /\ pc[t] = "cas" => new[t].ptr = IF op[t] = "push" THEN node[t] ELSE link[t]
    /\ Loaded(t) /\ seen[t] = version => old[t] = head

\* What a thread that is about to swap has linked or read is still so.
LinkedRight(t) ==
    pc[t] \in {"draw", "cas"} =>
        /\ op[t] = "push" => next[node[t]] = old[t].ptr
        /\ op[t] = "pop" /\ seen[t] = version => link[t] = next[node[t]]

\* s is what the head leads to, and nobody owns a node of it.
IsStack(s) ==
    /\ Linked(s, head.ptr, next)
    /\ IsInjective(s)
    /\ \A n \in Nodes : n \in Range(s) <=> \A t \in Threads : n \notin owned[t]

\* Until a compare-and-swap is fooled the nodes that nobody owns are a stack.
StackInv ==
    ~fooled =>
        /\ \A t, u \in Threads : t # u => owned[t] \cap owned[u] = {}
        /\ \A t \in Threads : LinkedRight(t)
        /\ \E s \in Seq(Nodes) : IsStack(s)

\* h[v] is the number of the hash that the head had at version v, d[t] the one of
\* the hash that t has drawn for the head: no number is used twice.
Numbering(h, d) ==
    /\ h \in [0..version -> 0..drawn] /\ d \in [Threads -> 0..drawn]
    /\ \A v, w \in 0..version : h[v] = h[w] => v = w
    /\ head.hash = HashAt[h[version]]
    /\ \A t \in Threads : Loaded(t) => old[t].hash = HashAt[h[seen[t]]]
    /\ \A t \in Threads : pc[t] = "cas" =>
          /\ new[t].hash = HashAt[d[t]]
          /\ \A v \in 0..version : h[v] # d[t]
          /\ \A u \in Threads : pc[u] = "cas" /\ d[u] = d[t] => u = t

HashesNumbered == \E h, d : Numbering(h, d)

\* The types, with what the threads have seen bounded by what there was.
Types ==
    /\ head \in HashPtr
    /\ drawn \in 0..MaxDrawn
    /\ next \in [Nodes -> Pointer]
    /\ owned \in [Threads -> SUBSET Nodes]
    /\ result \in [Threads -> Pointer]
    /\ pc \in [Threads -> {"idle", "load", "link", "read", "draw", "cas"}]
    /\ op \in [Threads -> {"push", "pop"}]
    /\ node \in [Threads -> Pointer] /\ link \in [Threads -> Pointer]
    /\ old \in [Threads -> HashPtr] /\ new \in [Threads -> HashPtr]
    /\ version \in Nat
    /\ seen \in [Threads -> 0..version]
    /\ fooled \in BOOLEAN

\* The invariant.
IInv ==
    /\ Types
    /\ \A t \in Threads : AtPlace(t)
    /\ StackInv
    /\ HashesNumbered

---------------------------------------------------------------------------
(* Types, and what a thread knows at its place. *)

\* All is idle at first.
LEMMA InitTypes == Init => Types /\ \A t \in Threads : AtPlace(t)
<1> SUFFICES ASSUME Init PROVE Types /\ \A t \in Threads : AtPlace(t)
  OBVIOUS
<1>1. HashAt[0] \in Hashes /\ 0 \in 0..MaxDrawn
  BY HashAssumption
<1>2. head \in HashPtr
  BY <1>1 DEF Init, HashPtr, Pointer
<1>3. /\ next \in [Nodes -> Pointer] /\ result \in [Threads -> Pointer]
      /\ node \in [Threads -> Pointer] /\ link \in [Threads -> Pointer]
      /\ pc \in [Threads -> {"idle", "load", "link", "read", "draw", "cas"}]
      /\ op \in [Threads -> {"push", "pop"}]
  BY DEF Init, Pointer
<1>4. /\ old \in [Threads -> HashPtr] /\ new \in [Threads -> HashPtr]
      /\ version \in Nat /\ seen \in [Threads -> 0..version]
  BY <1>2 DEF Init
<1>5. Types
  BY <1>1, <1>2, <1>3, <1>4 DEF Init, Types
<1>6. \A t \in Threads : pc[t] = "idle" /\ op[t] = "pop"
  BY DEF Init
<1> QED
  BY <1>5, <1>6 DEF AtPlace, Loaded

\* Every step keeps the types.  Nothing but a node is followed or handed out, for
\* what a thread is about to read or swap is one (AtPlace).
LEMMA NextTypes ==
    ASSUME Types, \A t \in Threads : AtPlace(t), [Next]_vars
    PROVE  Types'
<1>1. ASSUME NEW t \in Threads, CallPush(t) \/ CallPop(t) PROVE Types'
  <2>1. node' \in [Threads -> Pointer]
    BY <1>1 DEF CallPush, CallPop, Types, Pointer, locals
  <2> QED
    BY <1>1, <2>1 DEF CallPush, CallPop, Types, Goto, locals
<1>2. ASSUME NEW t \in Threads, Reuse(t) PROVE Types'
  BY <1>2 DEF Reuse, Types, locals
<1>3. ASSUME NEW t \in Threads, PushLoad(t) PROVE Types'
  BY <1>3 DEF PushLoad, Load, Types, Goto
<1>4. ASSUME NEW t \in Threads, PushLink(t) PROVE Types'
  BY <1>4 DEF PushLink, Types, Goto, locals, HashPtr
<1>5. ASSUME NEW t \in Threads, PopLoad(t) PROVE Types'
  BY <1>5 DEF PopLoad, Load, Types, Goto, HashPtr
<1>6. ASSUME NEW t \in Threads, PopEmpty(t) PROVE Types'
  BY <1>6 DEF PopEmpty, Types, Goto, locals, Pointer
<1>7. ASSUME NEW t \in Threads, PopRead(t) PROVE Types'
  <2>1. node[t] \in Nodes
    BY <1>7 DEF PopRead, AtPlace, Loaded
  <2> QED
    BY <1>7, <2>1 DEF PopRead, Types, Goto
<1>8. ASSUME NEW t \in Threads, Draw(t) PROVE Types'
  <2>1. drawn' \in 0..MaxDrawn /\ HashAt[drawn'] \in Hashes
    BY <1>8, HashAssumption DEF Draw, Types
  <2>2. [ptr |-> IF op[t] = "push" THEN node[t] ELSE link[t],
         hash |-> HashAt[drawn']] \in HashPtr
    BY <2>1 DEF Types, HashPtr
  <2> QED
    BY <1>8, <2>1, <2>2 DEF Draw, Types, Goto
<1>9. ASSUME NEW t \in Threads, PushSwap(t) PROVE Types'
  <2>1. version' \in Nat /\ seen' \in [Threads -> 0..version'] /\ fooled' \in BOOLEAN
    BY <1>9 DEF PushSwap, Swap, Types
  <2> QED
    BY <1>9, <2>1 DEF PushSwap, Swap, Types, Goto, locals
<1>10. ASSUME NEW t \in Threads, PopSwap(t) PROVE Types'
  <2>1. version' \in Nat /\ seen' \in [Threads -> 0..version'] /\ fooled' \in BOOLEAN
    BY <1>10 DEF PopSwap, Swap, Types
  <2>2. node[t] \in Nodes /\ node[t] \in Pointer
    BY <1>10 DEF PopSwap, Swap, AtPlace, Loaded, Pointer
  <2> QED
    BY <1>10, <2>1, <2>2 DEF PopSwap, Swap, Types, Goto, locals
<1>11. ASSUME NEW t \in Threads, SwapFails(t) PROVE Types'
  BY <1>11 DEF SwapFails, Types, Goto, locals
<1>12. CASE UNCHANGED vars
  BY <1>12 DEF vars, locals, Types
<1> QED
  BY <1>1, <1>2, <1>3, <1>4, <1>5, <1>6, <1>7, <1>8, <1>9, <1>10, <1>11, <1>12 DEF Next

\* A thread takes no step of another, and a compare-and-swap that succeeds makes
\* what the others have loaded old.
LEMMA NextAtPlace ==
    ASSUME Types, \A t \in Threads : AtPlace(t), [Next]_vars, NEW u \in Threads
    PROVE  AtPlace(u)'
<1>0. AtPlace(u)
  OBVIOUS
<1>1. ASSUME NEW t \in Threads, CallPush(t) \/ CallPop(t) PROVE AtPlace(u)'
  BY <1>0, <1>1 DEF CallPush, CallPop, Types, AtPlace, Loaded, Goto, locals
<1>2. ASSUME NEW t \in Threads, Reuse(t) PROVE AtPlace(u)'
  BY <1>0, <1>2 DEF Reuse, AtPlace, Loaded, locals
<1>3. ASSUME NEW t \in Threads, PushLoad(t) PROVE AtPlace(u)'
  BY <1>0, <1>3 DEF PushLoad, Load, Types, AtPlace, Loaded, Goto
<1>4. ASSUME NEW t \in Threads, PushLink(t) PROVE AtPlace(u)'
  BY <1>0, <1>4 DEF PushLink, Types, AtPlace, Loaded, Goto, locals
<1>5. ASSUME NEW t \in Threads, PopLoad(t) PROVE AtPlace(u)'
  <2>1. head.ptr \in Nodes
    BY <1>5 DEF PopLoad, Types, HashPtr, Pointer
  <2> QED
    BY <1>0, <1>5, <2>1 DEF PopLoad, Load, Types, AtPlace, Loaded, Goto
<1>6. ASSUME NEW t \in Threads, PopEmpty(t) PROVE AtPlace(u)'
  BY <1>0, <1>6 DEF PopEmpty, Types, AtPlace, Loaded, Goto, locals
<1>7. ASSUME NEW t \in Threads, PopRead(t) PROVE AtPlace(u)'
  BY <1>0, <1>7 DEF PopRead, Types, AtPlace, Loaded, Goto
<1>8. ASSUME NEW t \in Threads, Draw(t) PROVE AtPlace(u)'
  BY <1>0, <1>8 DEF Draw, Types, AtPlace, Loaded, Goto
<1>9. ASSUME NEW t \in Threads, PushSwap(t) \/ PopSwap(t) PROVE AtPlace(u)'
  <2>1. /\ pc' = [pc EXCEPT ![t] = "idle"] /\ version' = version + 1
        /\ \A w \in Threads : w # t => owned'[w] = owned[w]
        /\ UNCHANGED <<op, node, link, old, new, seen>>
    BY <1>9 DEF PushSwap, PopSwap, Swap, Goto, locals, Types
  <2>2. seen[u] # version'
    BY <2>1 DEF Types
  <2> QED
    BY <1>0, <2>1, <2>2 DEF Types, AtPlace, Loaded
<1>10. ASSUME NEW t \in Threads, SwapFails(t) PROVE AtPlace(u)'
  BY <1>0, <1>10 DEF SwapFails, Types, AtPlace, Loaded, Goto, locals
<1>11. CASE UNCHANGED vars
  BY <1>0, <1>11 DEF vars, locals, AtPlace, Loaded
<1> QED
  BY <1>1, <1>2, <1>3, <1>4, <1>5, <1>6, <1>7, <1>8, <1>9, <1>10, <1>11 DEF Next

---------------------------------------------------------------------------
(* The numbers of the hashes. *)

\* The first head has the first hash.
LEMMA InitNumbered == Init => HashesNumbered
<1> SUFFICES ASSUME Init PROVE HashesNumbered
  OBVIOUS
<1>0. PICK h, d : h = [v \in 0..0 |-> 0] /\ d = [t \in Threads |-> 0]
  OBVIOUS
<1>1. h \in [0..version -> 0..drawn] /\ d \in [Threads -> 0..drawn]
  BY <1>0 DEF Init
<1>2. Numbering(h, d)
  BY <1>0, <1>1 DEF Init, Numbering, Loaded
<1> QED
  BY <1>2 DEF HashesNumbered

\* A step that draws no hash and leaves the head leaves the numbers as they are.
LEMMA QuietNumbering ==
    ASSUME Types, NEW h, NEW d, Numbering(h, d),
           UNCHANGED <<head, drawn, version, new>>,
           \A u \in Threads :
              /\ pc'[u] = "cas" => pc[u] = "cas"
              /\ Loaded(u)' => \/ Loaded(u) /\ old'[u] = old[u] /\ seen'[u] = seen[u]
                               \/ old'[u] = head /\ seen'[u] = version
    PROVE  HashesNumbered'
<1>1. Numbering(h, d)'
  BY DEF Numbering
<1> QED
  BY <1>1 DEF HashesNumbered

\* The number of a hash that is drawn is a new one.
LEMMA DrawNumbered ==
    ASSUME Types, NEW h, NEW d, Numbering(h, d), NEW t \in Threads, Draw(t)
    PROVE  HashesNumbered'
<1>0. PICK e : e = [d EXCEPT ![t] = drawn']
  OBVIOUS
<1>1. /\ h \in [0..version -> 0..drawn] /\ d \in [Threads -> 0..drawn]
      /\ drawn \in Nat /\ drawn' = drawn + 1 /\ version' = version
  BY HashAssumption DEF Numbering, Draw, Types
<1>2. /\ h \in [0..version' -> 0..drawn'] /\ e \in [Threads -> 0..drawn']
      /\ \A v \in 0..version : h[v] \in 0..drawn
      /\ \A u \in Threads : d[u] \in 0..drawn /\ e[u] = IF u = t THEN drawn' ELSE d[u]
      /\ drawn' \notin 0..drawn
  BY <1>0, <1>1
<1>3. /\ head' = head /\ old' = old /\ seen' = seen
      /\ \A u \in Threads : /\ pc'[u] = IF u = t THEN "cas" ELSE pc[u]
                            /\ u # t => new'[u] = new[u]
      /\ new'[t].hash = HashAt[drawn']
      /\ pc[t] = "draw"
  BY DEF Draw, Types, Goto
<1>4. \A u \in Threads : Loaded(u)' => Loaded(u)
  BY <1>3 DEF Loaded
<1>5. ASSUME NEW u \in Threads, pc'[u] = "cas"
      PROVE  /\ new'[u].hash = HashAt[e[u]]
             /\ \A v \in 0..version : h[v] # e[u]
             /\ \A w \in Threads : pc'[w] = "cas" /\ e[w] = e[u] => w = u
  <2>1. CASE u = t
    BY <1>2, <1>3, <2>1
  <2>2. CASE u # t
    BY <1>2, <1>3, <1>5, <2>2 DEF Numbering
  <2> QED
    BY <2>1, <2>2
<1>6. Numbering(h, e)'
  BY <1>1, <1>2, <1>3, <1>4, <1>5 DEF Numbering
<1> QED
  BY <1>6 DEF HashesNumbered

\* The new head has the number that the thread has drawn.
LEMMA SwapNumbered ==
    ASSUME Types, NEW h, NEW d, Numbering(h, d), NEW t \in Threads, Swap(t),
           UNCHANGED <<drawn, locals, seen>>
    PROVE  HashesNumbered'
<1>0. PICK g : g = [v \in 0..version' |-> IF v = version' THEN d[t] ELSE h[v]]
  OBVIOUS
<1>1. /\ h \in [0..version -> 0..drawn] /\ d \in [Threads -> 0..drawn]
      /\ version \in Nat /\ version' = version + 1 /\ drawn' = drawn
  BY DEF Numbering, Swap, Types
<1>2. /\ g \in [0..version' -> 0..drawn'] /\ d \in [Threads -> 0..drawn']
      /\ g[version'] = d[t] /\ \A v \in 0..version : g[v] = h[v]
      /\ \A v \in 0..version' : v = version' \/ v \in 0..version
      /\ version' \notin 0..version /\ version' \in 0..version'
  BY <1>0, <1>1
<1>3. /\ head' = new[t] /\ old' = old /\ new' = new /\ seen' = seen
      /\ pc[t] = "cas"
      /\ \A u \in Threads : pc'[u] = IF u = t THEN "idle" ELSE pc[u]
      /\ \A u \in Threads : seen[u] \in 0..version
  BY DEF Swap, Goto, locals, Types
<1>4. \A v, w \in 0..version' : g[v] = g[w] => v = w
  <2>1. \A v, w \in 0..version : h[v] = h[w] => v = w
    BY DEF Numbering
  <2>2. \A v \in 0..version : h[v] # d[t]
    BY <1>3 DEF Numbering
  <2> QED
    BY <1>2, <2>1, <2>2
<1>5. head'.hash = HashAt[g[version']]
  BY <1>2, <1>3 DEF Numbering
<1>6. ASSUME NEW u \in Threads, Loaded(u)'
      PROVE  old'[u].hash = HashAt[g[seen'[u]]]
  <2>1. Loaded(u) /\ seen[u] \in 0..version
    BY <1>3, <1>6 DEF Loaded
  <2> QED
    BY <1>2, <1>3, <2>1 DEF Numbering
<1>7. ASSUME NEW u \in Threads, pc'[u] = "cas"
      PROVE  /\ new'[u].hash = HashAt[d[u]]
             /\ \A v \in 0..version' : g[v] # d[u]
             /\ \A w \in Threads : pc'[w] = "cas" /\ d[w] = d[u] => w = u
  <2>1. u # t /\ pc[u] = "cas" /\ d[t] # d[u]
    BY <1>3, <1>7 DEF Numbering
  <2> QED
    BY <1>2, <1>3, <2>1 DEF Numbering
<1>8. Numbering(g, d)'
  BY <1>2, <1>4, <1>5, <1>6, <1>7 DEF Numbering
<1> QED
  BY <1>8 DEF HashesNumbered

\* Every step keeps the hashes numbered.
LEMMA NextNumbered ==
    ASSUME Types, HashesNumbered, [Next]_vars
    PROVE  HashesNumbered'
<1>0. PICK h, d : Numbering(h, d)
  BY DEF HashesNumbered
<1>1. ASSUME NEW t \in Threads,
             CallPush(t) \/ CallPop(t) \/ Reuse(t) \/ PushLink(t) \/ PopEmpty(t)
             \/ PopRead(t) \/ SwapFails(t)
      PROVE  HashesNumbered'
  <2>1. UNCHANGED <<head, drawn, version, new, old, seen>>
    BY <1>1 DEF CallPush, CallPop, Reuse, PushLink, PopEmpty, PopRead, SwapFails, locals
  <2>2. \A u \in Threads : /\ pc'[u] = "cas" => pc[u] = "cas"
                           /\ Loaded(u)' => Loaded(u)
    BY <1>1 DEF CallPush, CallPop, Reuse, PushLink, PopEmpty, PopRead, SwapFails, Goto,
       Types, Loaded
  <2> QED
    BY <1>0, <2>1, <2>2, QuietNumbering
<1>2. ASSUME NEW t \in Threads, PushLoad(t) \/ PopLoad(t)
      PROVE  HashesNumbered'
  <2>1. UNCHANGED <<head, drawn, version, new>>
    BY <1>2 DEF PushLoad, PopLoad
  <2>2. \A u \in Threads :
          /\ pc'[u] = "cas" => pc[u] = "cas"
          /\ Loaded(u)' => \/ Loaded(u) /\ old'[u] = old[u] /\ seen'[u] = seen[u]
                           \/ old'[u] = head /\ seen'[u] = version
    BY <1>2 DEF PushLoad, PopLoad, Load, Goto, Types, Loaded
  <2> QED
    BY <1>0, <2>1, <2>2, QuietNumbering
<1>3. ASSUME NEW t \in Threads, Draw(t) PROVE HashesNumbered'
  BY <1>0, <1>3, DrawNumbered
<1>4. ASSUME NEW t \in Threads, PushSwap(t) \/ PopSwap(t) PROVE HashesNumbered'
  <2>1. Swap(t) /\ UNCHANGED <<drawn, locals, seen>>
    BY <1>4 DEF PushSwap, PopSwap
  <2> QED
    BY <1>0, <2>1, SwapNumbered
<1>5. CASE UNCHANGED vars
  <2>1. UNCHANGED <<head, drawn, version, new, old, seen, pc>>
    BY <1>5 DEF vars, locals
  <2> QED
    BY <1>0, <2>1, QuietNumbering DEF Loaded
<1> QED
  BY <1>1, <1>2, <1>3, <1>4, <1>5 DEF Next

---------------------------------------------------------------------------
(* The stack. *)

\* At first every node is in the hands of one caller.
LEMMA InitStack == Init => StackInv
<1> SUFFICES ASSUME Init PROVE StackInv
  OBVIOUS
<1>1. \A t \in Threads : LinkedRight(t)
  BY DEF Init, LinkedRight
<1>2. <<>> \in Seq(Nodes) /\ IsInjective(<<>>) /\ Linked(<<>>, head.ptr, next)
      /\ Range(<<>>) = {}
  BY DEF Init, Linked, Below, IsInjective, Range
<1>3. IsStack(<<>>)
  BY <1>2 DEF Init, IsStack
<1> QED
  BY <1>1, <1>2, <1>3 DEF Init, StackInv

\* A node that a thread owns is not on the stack, and no other thread's.
LEMMA OwnedIsApart ==
    ASSUME Types, StackInv, ~fooled, NEW t \in Threads, NEW n \in owned[t]
    PROVE  /\ n \in Nodes
           /\ \A u \in Threads \ {t} : n \notin owned[u]
           /\ \A s \in Seq(Nodes) : IsStack(s) => n \notin Range(s)
<1>1. n \in Nodes
  BY DEF Types
<1> QED
  BY <1>1 DEF StackInv, IsStack

\* The node that a pop has loaded is on the stack as long as the head is the same.
LEMMA LoadedIsOnStack ==
    ASSUME Types, NEW u \in Threads, AtPlace(u), op[u] = "pop", Loaded(u),
           seen[u] = version, NEW s \in Seq(Nodes), IsStack(s)
    PROVE  node[u] \in Range(s)
<1>1. node[u] = head.ptr /\ node[u] \in Nodes
  BY DEF AtPlace
<1>2. IsInjective(s) /\ Linked(s, head.ptr, next)
  BY DEF IsStack
<1> QED
  BY <1>1, <1>2, PoppedStack

\* A thread that writes the link of a node of its own disturbs neither the stack
\* nor what the others have linked or read.
LEMMA OwnLinkKeeps ==
    ASSUME Types, \A u \in Threads : AtPlace(u), StackInv, ~fooled,
           NEW t \in Threads, NEW n \in owned[t], NEW p,
           pc[t] \notin {"draw", "cas"},
           next' = [next EXCEPT ![n] = p],
           UNCHANGED <<head, owned, op, node, link, old, version, seen>>,
           \A u \in Threads \ {t} : pc'[u] = pc[u],
           LinkedRight(t)'
    PROVE  /\ StackInv'
           /\ \A s \in Seq(Nodes) : IsStack(s) => IsStack(s)'
<1>1. /\ n \in Nodes
      /\ \A u \in Threads \ {t} : n \notin owned[u]
      /\ \A s \in Seq(Nodes) : IsStack(s) => n \notin Range(s)
  BY OwnedIsApart
<1>2. \A m \in Nodes : m # n => next'[m] = next[m]
  BY DEF Types
<1>3. ASSUME NEW s \in Seq(Nodes), IsStack(s) PROVE IsStack(s)'
  <2>1. Range(s) \subseteq Nodes
    BY DEF Range
  <2>2. \A m \in Range(s) : next'[m] = next[m]
    BY <1>1, <1>2, <1>3, <2>1
  <2>3. Linked(s, head.ptr, next')
    BY <1>3, <2>2, LinkedApart DEF IsStack
  <2> QED
    BY <1>3, <2>3 DEF IsStack, Linked
<1>4. PICK s \in Seq(Nodes) : IsStack(s)
  BY DEF StackInv
<1>5. ASSUME NEW u \in Threads \ {t} PROVE LinkedRight(u)'
  <2> SUFFICES ASSUME pc[u] \in {"draw", "cas"}
               PROVE  /\ op[u] = "push" => next'[node[u]] = old[u].ptr
                      /\ op[u] = "pop" /\ seen[u] = version => link[u] = next'[node[u]]
    BY DEF LinkedRight
  <2>1. LinkedRight(u) /\ AtPlace(u) /\ Loaded(u)
    BY DEF StackInv, Loaded
  <2>2. op[u] = "push" => node[u] \in owned[u] /\ node[u] \in Nodes
    BY <2>1 DEF AtPlace, Types
  <2>3. op[u] = "pop" /\ seen[u] = version => node[u] \in Nodes /\ node[u] # n
    BY <1>1, <1>4, <2>1, LoadedIsOnStack DEF AtPlace
  <2> QED
    BY <1>1, <1>2, <2>1, <2>2, <2>3 DEF LinkedRight
<1>6. StackInv'
  BY <1>3, <1>4, <1>5 DEF StackInv
<1> QED
  BY <1>3, <1>6

\* A step that writes no link and leaves the head and the owners leaves the stack.
LEMMA QuietStack ==
    ASSUME StackInv, ~fooled, UNCHANGED <<head, next, owned>>,
           \A u \in Threads : LinkedRight(u)'
    PROVE  /\ StackInv'
           /\ \A s : IsStack(s) => IsStack(s)'
<1>1. \A s : IsStack(s) => IsStack(s)'
  BY DEF IsStack, Linked
<1> QED
  BY <1>1 DEF StackInv

\* The first half of a push or pop, up to the compare-and-swap, and what callers
\* do with their nodes, leave the stack.
LEMMA StepsBeforeSwap ==
    ASSUME Types, \A u \in Threads : AtPlace(u), StackInv, ~fooled,
           NEW t \in Threads,
           \/ CallPush(t) \/ CallPop(t) \/ Reuse(t) \/ PushLoad(t) \/ PushLink(t)
           \/ PopLoad(t) \/ PopEmpty(t) \/ PopRead(t) \/ Draw(t) \/ SwapFails(t)
    PROVE  /\ StackInv'
           /\ \A s \in Seq(Nodes) : IsStack(s) => IsStack(s)'
<1>0. \A u \in Threads : LinkedRight(u)
  BY DEF StackInv
<1>1. CASE CallPush(t) \/ CallPop(t)
  <2>1. \A u \in Threads : LinkedRight(u)'
    BY <1>0, <1>1 DEF CallPush, CallPop, Goto, locals, Types, LinkedRight
  <2>2. UNCHANGED <<head, next, owned>>
    BY <1>1 DEF CallPush, CallPop
  <2> QED
    BY <2>1, <2>2, QuietStack
<1>2. CASE Reuse(t)
  <2>1. PICK n \in owned[t], p \in Pointer : next' = [next EXCEPT ![n] = p]
    BY <1>2 DEF Reuse
  <2>2. pc[t] = "idle" /\ UNCHANGED <<head, owned, pc, op, node, link, old, version, seen>>
    BY <1>2 DEF Reuse, locals
  <2>3. LinkedRight(t)'
    BY <2>2 DEF LinkedRight
  <2> QED
    BY <2>1, <2>2, <2>3, OwnLinkKeeps
<1>3. CASE PushLoad(t) \/ PopLoad(t) \/ PopEmpty(t) \/ SwapFails(t)
  <2>1. \A u \in Threads : LinkedRight(u)'
    BY <1>0, <1>3 DEF PushLoad, PopLoad, PopEmpty, SwapFails, Load, Goto, locals, Types,
       LinkedRight
  <2>2. UNCHANGED <<head, next, owned>>
    BY <1>3 DEF PushLoad, PopLoad, PopEmpty, SwapFails
  <2> QED
    BY <2>1, <2>2, QuietStack
<1>4. CASE PushLink(t)
  <2>1. /\ pc[t] = "link" /\ op[t] = "push" /\ node[t] \in owned[t]
        /\ next' = [next EXCEPT ![node[t]] = old[t].ptr]
        /\ pc' = [pc EXCEPT ![t] = "draw"]
        /\ UNCHANGED <<head, owned, op, node, link, old, version, seen>>
    BY <1>4 DEF PushLink, AtPlace, Goto, locals
  <2>2. LinkedRight(t)'
    BY <2>1 DEF LinkedRight, Types
  <2>3. \A u \in Threads \ {t} : pc'[u] = pc[u]
    BY <2>1 DEF Types
  <2> QED
    BY <2>1, <2>2, <2>3, OwnLinkKeeps
<1>5. CASE PopRead(t)
  <2>1. \A u \in Threads : LinkedRight(u)'
    BY <1>0, <1>5 DEF PopRead, AtPlace, Goto, Types, LinkedRight
  <2>2. UNCHANGED <<head, next, owned>>
    BY <1>5 DEF PopRead
  <2> QED
    BY <2>1, <2>2, QuietStack
<1>6. CASE Draw(t)
  <2>1. \A u \in Threads : LinkedRight(u)'
    BY <1>0, <1>6 DEF Draw, Goto, Types, LinkedRight
  <2>2. UNCHANGED <<head, next, owned>>
    BY <1>6 DEF Draw
  <2> QED
    BY <2>1, <2>2, QuietStack
<1> QED
  BY <1>1, <1>2, <1>3, <1>4, <1>5, <1>6

\* What the others have linked stays so when a thread swaps: their nodes are not
\* written, and those who had read the head's link must load again.
LEMMA SwapKeepsLinks ==
    ASSUME Types, StackInv, ~fooled, NEW t \in Threads, Swap(t),
           UNCHANGED <<next, op, locals, seen>>, NEW u \in Threads
    PROVE  LinkedRight(u)'
<1>1. LinkedRight(u) /\ seen[u] # version'
  BY DEF StackInv, Swap, Types
<1> QED
  BY <1>1 DEF Swap, Goto, Types, LinkedRight, locals

\* The push whose compare-and-swap succeeds, and is not fooled, puts its node on
\* the stack.
LEMMA PushIsPush ==
    ASSUME Types, \A u \in Threads : AtPlace(u), StackInv, ~fooled', NEW t \in Threads,
           PushSwap(t), NEW s \in Seq(Nodes), IsStack(s)
    PROVE  /\ StackInv'
           /\ \E n \in owned[t] : /\ n = node[t]
                                 /\ <<n>> \o s \in Seq(Nodes)
                                 /\ IsStack(<<n>> \o s)'
<1>1. /\ ~fooled /\ seen[t] = version /\ pc[t] = "cas" /\ op[t] = "push"
      /\ head = old[t] /\ head' = new[t]
      /\ owned' = [owned EXCEPT ![t] = @ \ {node[t]}]
      /\ UNCHANGED <<next, op, locals, seen>>
  BY DEF PushSwap, Swap, Unchanged, Types
<1>2. node[t] \in owned[t] /\ new[t].ptr = node[t] /\ LinkedRight(t)
  BY <1>1 DEF AtPlace, StackInv
<1>3. next[node[t]] = head.ptr
  BY <1>1, <1>2 DEF LinkedRight
<1>4. /\ node[t] \in Nodes /\ node[t] \notin Range(s)
      /\ \A u \in Threads \ {t} : node[t] \notin owned[u]
  BY <1>1, <1>2, OwnedIsApart
<1>5. PICK n, q : n = node[t] /\ q = <<n>> \o s
  OBVIOUS
<1>6. /\ q \in Seq(Nodes) /\ IsInjective(q) /\ Linked(q, node[t], next)
      /\ Range(q) = Range(s) \cup {node[t]}
  BY <1>3, <1>4, <1>5, PushedStack DEF IsStack
<1>7. \A u \in Threads : owned'[u] = IF u = t THEN owned[u] \ {node[t]} ELSE owned[u]
  BY <1>1 DEF Types
<1>8. \A e \in Nodes : e \in Range(q) <=> \A u \in Threads : e \notin owned'[u]
  <2>1. \A e \in Nodes : e \in Range(s) <=> \A u \in Threads : e \notin owned[u]
    BY DEF IsStack
  <2> QED
    BY <1>2, <1>4, <1>6, <1>7, <2>1
<1>9. IsStack(q)'
  BY <1>1, <1>2, <1>6, <1>8 DEF IsStack, Linked
<1>10. \A u, w \in Threads : u # w => owned'[u] \cap owned'[w] = {}
  BY <1>1, <1>7 DEF StackInv
<1>11. \A u \in Threads : LinkedRight(u)'
  BY <1>1, SwapKeepsLinks DEF PushSwap
<1>12. StackInv'
  BY <1>6, <1>9, <1>10, <1>11 DEF StackInv
<1> QED
  BY <1>2, <1>5, <1>6, <1>9, <1>12

\* The pop whose compare-and-swap succeeds, and is not fooled, takes the first
\* node off the stack.
LEMMA PopIsPop ==
    ASSUME Types, \A u \in Threads : AtPlace(u), StackInv, ~fooled', NEW t \in Threads,
           PopSwap(t), NEW s \in Seq(Nodes), IsStack(s)
    PROVE  /\ StackInv'
           /\ s # <<>> /\ node[t] = Head(s)
           /\ Tail(s) \in Seq(Nodes)
           /\ IsStack(Tail(s))'
<1>1. /\ ~fooled /\ seen[t] = version /\ pc[t] = "cas" /\ op[t] = "pop"
      /\ head = old[t] /\ head' = new[t]
      /\ owned' = [owned EXCEPT ![t] = @ \cup {node[t]}]
      /\ UNCHANGED <<next, op, locals, seen>>
  BY DEF PopSwap, Swap, Unchanged, Types
<1>2. /\ node[t] = head.ptr /\ node[t] \in Nodes
      /\ new[t].ptr = link[t] /\ link[t] = next[node[t]]
  BY <1>1 DEF AtPlace, Loaded, StackInv, LinkedRight
<1>3. PICK q : q = Tail(s)
  OBVIOUS
<1>4. /\ s # <<>> /\ Head(s) = node[t] /\ node[t] \in Range(s)
      /\ q \in Seq(Nodes) /\ IsInjective(q) /\ Linked(q, link[t], next)
      /\ Range(q) = Range(s) \ {node[t]}
  BY <1>2, <1>3, PoppedStack DEF IsStack
<1>5. \A u \in Threads : owned'[u] = IF u = t THEN owned[u] \cup {node[t]} ELSE owned[u]
  BY <1>1 DEF Types
<1>6. \A u \in Threads : node[t] \notin owned[u]
  BY <1>2, <1>4 DEF IsStack
<1>7. \A n \in Nodes : n \in Range(q) <=> \A u \in Threads : n \notin owned'[u]
  <2>1. \A n \in Nodes : n \in Range(s) <=> \A u \in Threads : n \notin owned[u]
    BY DEF IsStack
  <2>2. node[t] \in owned'[t]
    BY <1>5
  <2> QED
    BY <1>4, <1>5, <2>1, <2>2
<1>8. IsStack(q)'
  BY <1>1, <1>2, <1>4, <1>7 DEF IsStack, Linked
<1>9. \A u, w \in Threads : u # w => owned'[u] \cap owned'[w] = {}
  BY <1>1, <1>5, <1>6 DEF StackInv
<1>10. \A u \in Threads : LinkedRight(u)'
  BY <1>1, SwapKeepsLinks DEF PopSwap
<1> QED
  BY <1>3, <1>4, <1>8, <1>9, <1>10 DEF StackInv

---------------------------------------------------------------------------
(* The theorems. *)

\* The first stack is empty, with the first hash.
LEMMA InitIInv == Init => IInv
  BY InitTypes, InitStack, InitNumbered DEF IInv

\* A fooled swap says nothing about the stack afterwards; every other step keeps it.
LEMMA NextStack ==
    ASSUME Types, \A u \in Threads : AtPlace(u), StackInv, [Next]_vars
    PROVE  StackInv'
<1> SUFFICES ASSUME ~fooled' PROVE StackInv'
  BY DEF StackInv
<1>1. CASE UNCHANGED vars
  <2>1. ~fooled /\ UNCHANGED <<head, next, owned>>
    BY <1>1 DEF vars
  <2>2. \A u \in Threads : LinkedRight(u)'
    BY <1>1, <2>1 DEF StackInv, vars, locals, LinkedRight
  <2> QED
    BY <2>1, <2>2, QuietStack
<1>2. ASSUME NEW t \in Threads, PushSwap(t) \/ PopSwap(t) PROVE StackInv'
  <2>1. ~fooled
    BY <1>2 DEF PushSwap, PopSwap, Swap, Types
  <2>2. PICK s \in Seq(Nodes) : IsStack(s)
    BY <2>1 DEF StackInv
  <2> QED
    BY <1>2, <2>2, PushIsPush, PopIsPop
<1>3. ASSUME NEW t \in Threads,
             \/ CallPush(t) \/ CallPop(t) \/ Reuse(t) \/ PushLoad(t) \/ PushLink(t)
             \/ PopLoad(t) \/ PopEmpty(t) \/ PopRead(t) \/ Draw(t) \/ SwapFails(t)
      PROVE  StackInv'
  <2>1. ~fooled
    BY <1>3 DEF CallPush, CallPop, Reuse, PushLoad, PushLink, PopLoad, PopEmpty, PopRead,
       Draw, SwapFails
  <2> QED
    BY <1>3, <2>1, StepsBeforeSwap
<1> QED
  BY <1>1, <1>2, <1>3 DEF Next

\* Every step keeps the invariant.
LEMMA NextIInv == IInv /\ [Next]_vars => IInv'
<1> SUFFICES ASSUME IInv, [Next]_vars PROVE IInv'
  OBVIOUS
<1>1. Types' /\ StackInv' /\ HashesNumbered'
  BY NextTypes, NextStack, NextNumbered DEF IInv
<1>2. \A u \in Threads : AtPlace(u)'
  BY NextAtPlace DEF IInv
<1> QED
  BY <1>1, <1>2 DEF IInv

\* The strengthened invariant holds in every state.
THEOREM Invariance == Spec => []IInv
<1> QED
  BY InitIInv, NextIInv, PTL DEF Spec

\* As every head has a hash of its own number, there are no more heads than hashes.
LEMMA HeadsAreDrawn ==
    ASSUME Types, HashesNumbered
    PROVE  version \in 0..drawn
<1>1. PICK h, d : Numbering(h, d)
  BY DEF HashesNumbered
<1>2. drawn \in Nat /\ version \in Nat
  BY HashAssumption DEF Types
<1>3. h \in Injection(0..version, 0..drawn)
  BY <1>1 DEF Numbering, Injection, IsInjective
<1>4. /\ IsFiniteSet(0..drawn) /\ Cardinality(0..drawn) = drawn + 1
      /\ Cardinality(0..version) = version + 1
  <2>1. 0 \in Int /\ drawn \in Int /\ version \in Int
    BY <1>2
  <2>2. /\ IsFiniteSet(0..drawn)
        /\ Cardinality(0..drawn) = IF 0 > drawn THEN 0 ELSE drawn - 0 + 1
        /\ Cardinality(0..version) = IF 0 > version THEN 0 ELSE version - 0 + 1
    BY <2>1, FS_Interval
  <2> QED
    BY <1>2, <2>2
<1>5. Cardinality(0..version) <= Cardinality(0..drawn)
  BY <1>3, <1>4, FS_Injection
<1> QED
  BY <1>2, <1>4, <1>5

\* For any number of threads and nodes the variables keep their types, and the
\* head is never replaced more often than hashes are drawn.
THEOREM TypeCorrect == Spec => []TypeOK
<1>1. IInv => TypeOK
  <2> SUFFICES ASSUME IInv PROVE TypeOK
    OBVIOUS
  <2>1. Types /\ \A t \in Threads : AtPlace(t)
    BY DEF IInv
  <2>2. version \in 0..drawn /\ drawn \in Nat
    BY HeadsAreDrawn, HashAssumption DEF IInv, Types
  <2>3. seen \in [Threads -> 0..drawn]
    BY <2>1, <2>2 DEF Types
  <2>4. \A t \in Threads : pc[t] \in {"link", "read"} => node[t] \in Nodes
    BY <2>1 DEF AtPlace, Loaded, Types
  <2> QED
    BY <2>1, <2>2, <2>3, <2>4 DEF Types, TypeOK
<1> QED
  BY <1>1, Invariance, PTL

\* Until a compare-and-swap is fooled every node is on the stack, once, or in the
\* hands of one thread, for any number of threads, nodes and hashes.
THEOREM NodesAreAccounted == Spec => []NodesAccounted
<1>1. IInv => NodesAccounted
  <2> SUFFICES ASSUME IInv, ~fooled
               PROVE  /\ IsInjective(Chain)
                      /\ \A n \in Nodes :
                           Cardinality({t \in Threads : n \in owned[t]})
                             = IF n \in Range(Chain) THEN 0 ELSE 1
    BY DEF NodesAccounted
  <2>1. PICK s \in Seq(Nodes) : IsStack(s)
    BY DEF IInv, StackInv
  <2>2. Chain = s /\ IsInjective(s)
    BY <2>1, ChainOfStack DEF IsStack, Chain
  <2>3. ASSUME NEW n \in Nodes
        PROVE  Cardinality({t \in Threads : n \in owned[t]})
                 = IF n \in Range(s) THEN 0 ELSE 1
    <3> DEFINE owners == {t \in Threads : n \in owned[t]}
    <3> SUFFICES Cardinality(owners) = IF n \in Range(s) THEN 0 ELSE 1
      OBVIOUS
    <3>1. n \in Range(s) <=> owners = {}
      BY <2>1 DEF IsStack
    <3>2. \A t, u \in owners : t = u
      BY DEF IInv, StackInv
    <3> HIDE DEF owners
    <3>3. CASE owners = {}
      BY <3>1, <3>3, FS_EmptySet
    <3>4. CASE owners # {}
      <4>1. PICK t : owners = {t}
        BY <3>2, <3>4
      <4> QED
        BY <3>1, <3>4, <4>1, FS_Singleton
    <3> QED
      BY <3>3, <3>4
  <2> QED
    BY <2>2, <2>3
<1> QED
  BY <1>1, Invariance, PTL

\* A set with two members has more than one.
LEMMA TwoAreMore ==
    ASSUME NEW S, IsFiniteSet(S), NEW x \in S, NEW y \in S, x # y
    PROVE  Cardinality(S) > 1
<1>1. IsFiniteSet({x}) /\ Cardinality({x}) = 1
  BY FS_Singleton
<1>2. IsFiniteSet({x} \cup {y}) /\ Cardinality({x} \cup {y}) = 2
  BY <1>1, FS_AddElement
<1>3. {x} \cup {y} \in SUBSET S
  OBVIOUS
<1>4. Cardinality({x} \cup {y}) <= Cardinality(S)
  BY <1>3, FS_Subset
<1>5. Cardinality(S) \in Nat
  BY FS_CardinalityType
<1> QED
  BY <1>2, <1>4, <1>5

\* For any number of threads: a compare-and-swap is fooled only when the generator
\* has returned the same hash twice since the stack was made.
THEOREM FooledByARepeat == Spec => FooledByRepeatOnly
<1> DEFINE Repeat(t) == Cardinality({i \in 0..drawn : HashAt[i] = old[t].hash}) > 1
<1>1. ASSUME IInv, [Next]_vars, NEW t \in Threads, fooled' # fooled,
             PushSwap(t) \/ PopSwap(t)
      PROVE  Repeat(t)
  <2>1. /\ pc[t] = "cas" /\ head = old[t] /\ seen[t] # version
        /\ seen[t] \in 0..version /\ version \in Nat /\ drawn \in Nat
    BY <1>1, HashAssumption DEF IInv, PushSwap, PopSwap, Swap, Unchanged, Types
  <2>2. PICK h, d : Numbering(h, d)
    BY <1>1 DEF IInv, HashesNumbered
  <2>3. /\ h[version] \in 0..drawn /\ h[seen[t]] \in 0..drawn
        /\ h[version] # h[seen[t]]
        /\ HashAt[h[version]] = old[t].hash /\ HashAt[h[seen[t]]] = old[t].hash
    BY <2>1, <2>2 DEF Numbering, Loaded
  <2> DEFINE same == {i \in 0..drawn : HashAt[i] = old[t].hash}
  <2>4. IsFiniteSet(same)
    <3>1. IsFiniteSet(0..drawn)
      <4>1. 0 \in Int /\ drawn \in Int
        BY <2>1
      <4> QED
        BY <4>1, FS_Interval
    <3>2. same \in SUBSET (0..drawn)
      OBVIOUS
    <3> HIDE DEF same
    <3> QED
      BY <3>1, <3>2, FS_Subset
  <2>5. h[version] \in same /\ h[seen[t]] \in same
    BY <2>3
  <2> HIDE DEF same
  <2>6. Cardinality(same) > 1
    BY <2>3, <2>4, <2>5, TwoAreMore
  <2> QED
    BY <2>6 DEF same
<1>2. IInv /\ [Next]_vars =>
        [\A t \in Threads : fooled' # fooled /\ (PushSwap(t) \/ PopSwap(t)) => Repeat(t)]_vars
  BY <1>1
<1> QED
  BY <1>2, Invariance, PTL DEF Spec, FooledByRepeatOnly

\* What the steps are to the stack of module NodeStack, until one is fooled.
LEMMA StepOfStack ==
    ASSUME IInv, IInv', [Next]_vars, ~fooled'
    PROVE  [Abstract!Next]_(Abstract!vars)
<1>0. Types /\ (\A t \in Threads : AtPlace(t)) /\ StackInv
  BY DEF IInv
<1>1. \A s \in Seq(Nodes) : IsStack(s) => Chain = s
  BY ChainOfStack DEF IsStack, Chain
<1>2. \A s \in Seq(Nodes) : IsStack(s)' => Chain' = s
  BY ChainOfStack DEF IsStack, Chain
<1>3. ~fooled
  BY DEF Next, vars, CallPush, CallPop, Reuse, PushLoad, PushLink, PopLoad, PopEmpty, PopRead,
     Draw, SwapFails, PushSwap, PopSwap, Swap, IInv, Types
<1>4. PICK s \in Seq(Nodes) : IsStack(s)
  BY <1>0, <1>3 DEF StackInv
<1>5. Chain = s
  BY <1>1, <1>4
<1>6. ASSUME NEW t \in Threads, PushSwap(t) PROVE Abstract!Next
  <2>1. PICK n \in owned[t] : /\ n = node[t] /\ <<n>> \o s \in Seq(Nodes)
                              /\ IsStack(<<n>> \o s)'
    BY <1>0, <1>4, <1>6, PushIsPush
  <2>2. Chain' = <<n>> \o Chain
    BY <1>2, <1>5, <2>1
  <2>3. owned' = [owned EXCEPT ![t] = @ \ {n}] /\ UNCHANGED result
    BY <1>6, <2>1 DEF PushSwap
  <2>4. Abstract!Push(t)
    BY <2>2, <2>3 DEF Abstract!Push
  <2> QED
    BY <2>4 DEF Abstract!Next
<1>7. ASSUME NEW t \in Threads, PopSwap(t) PROVE Abstract!Next
  <2>1. s # <<>> /\ node[t] = Head(s) /\ Tail(s) \in Seq(Nodes) /\ IsStack(Tail(s))'
    BY <1>0, <1>4, <1>7, PopIsPop
  <2>2. Chain # <<>> /\ Chain' = Tail(Chain) /\ node[t] = Head(Chain)
    BY <1>2, <1>5, <2>1
  <2>3. Abstract!Pop(t)
    BY <1>7, <2>2 DEF PopSwap, Abstract!Pop
  <2> QED
    BY <2>3 DEF Abstract!Next
<1>8. ASSUME NEW t \in Threads, PopEmpty(t) PROVE Abstract!Next
  <2>1. Chain = <<>> /\ Chain' = Chain
    <3>1. Below(s, 0) = Null
      BY <1>4, <1>8 DEF PopEmpty, IsStack, Linked
    <3>2. s = <<>>
      BY <3>1, NullAssumption DEF Below
    <3>3. UNCHANGED <<head, next>>
      BY <1>8 DEF PopEmpty
    <3> QED
      BY <1>5, <3>2, <3>3 DEF Chain
  <2>2. Abstract!PopEmpty(t)
    BY <1>8, <2>1 DEF PopEmpty, Abstract!PopEmpty
  <2> QED
    BY <2>2 DEF Abstract!Next
<1>9. ASSUME NEW t \in Threads,
             \/ CallPush(t) \/ CallPop(t) \/ Reuse(t) \/ PushLoad(t) \/ PushLink(t)
             \/ PopLoad(t) \/ PopRead(t) \/ Draw(t) \/ SwapFails(t)
      PROVE  UNCHANGED Abstract!vars
  <2>1. IsStack(s)'
    BY <1>0, <1>3, <1>4, <1>9, StepsBeforeSwap
  <2>2. Chain' = Chain
    BY <1>2, <1>5, <2>1
  <2>3. UNCHANGED <<owned, result>>
    BY <1>9 DEF CallPush, CallPop, Reuse, PushLoad, PushLink, PopLoad, PopRead, Draw, SwapFails
  <2> QED
    BY <2>2, <2>3 DEF Abstract!vars
<1>10. CASE UNCHANGED vars
  BY <1>10 DEF vars, Chain, Abstract!vars
<1> QED
  BY <1>6, <1>7, <1>8, <1>9, <1>10 DEF Next

\* For any number of threads and nodes: until a compare-and-swap is fooled, push
\* and pop are the steps of the stack of module NodeStack.
THEOREM StackIsImplemented == Spec => StackUntilFooled
<1>1. Init => Abstract!Init
  <2> SUFFICES ASSUME Init PROVE Abstract!Init
    OBVIOUS
  <2>1. Linked(<<>>, head.ptr, next) /\ IsInjective(<<>>) /\ <<>> \in Seq(Nodes)
    BY DEF Init, Linked, Below, IsInjective
  <2>2. Chain = <<>>
    BY <2>1, ChainOfStack DEF Chain
  <2> QED
    BY <2>2 DEF Init, Abstract!Init
<1>2. IInv /\ IInv' /\ [Next]_vars => [fooled' \/ Abstract!Next]_(Abstract!vars)
  BY StepOfStack
<1> QED
  BY <1>1, <1>2, Invariance, PTL DEF Spec, StackUntilFooled
=============================================================================
