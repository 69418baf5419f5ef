-------------------------- MODULE CommandStoreProofs --------------------------
(***************************************************************************)
(* What holds of the server's table for every number of keys, buckets and  *)
(* nodes.  The lemmas that matter say what storage_set does to every       *)
(* look-up: OverwriteFinds, PrependFinds, and SetFinds for the plain keys. *)
(* Then come the single commands, and the sum that counts the nodes.       *)
(***************************************************************************)
EXTENDS CommandStore, FiniteSetTheorems, WellFoundedInduction, TLAPS

\* A set of naturals has a least element, which Min names.
LEMMA MinIsLeast ==
    ASSUME NEW S, S \subseteq Nat, S # {}
    PROVE  Min(S) \in S /\ \A x \in S : Min(S) <= x
<1> DEFINE below == OpToRel(<, Nat)
<1>1. \E x \in S : \A y \in S : ~(<<y, x>> \in below)
  <2>1. IsWellFoundedOn(below, Nat)
    BY NatLessThanWellFounded
  <2> HIDE DEF below
  <2> QED
    BY <2>1, WFMin
<1>2. \A x, y \in Nat : y < x => <<y, x>> \in below
  BY DEF OpToRel
<1> HIDE DEF below
<1>3. \E x \in S : \A y \in S : x <= y
  <2>1. PICK x \in S : \A y \in S : ~(<<y, x>> \in below)
    BY <1>1
  <2>2. ASSUME NEW y \in S PROVE x <= y
    <3>1. x \in Nat /\ y \in Nat
      OBVIOUS
    <3>2. ~(y < x)
      BY <1>2, <2>1, <3>1
    <3> QED
      BY <3>1, <3>2
  <2> QED
    BY <2>2
<1> QED
  BY <1>3 DEF Min

\* The least element is the only one with that property.
LEMMA MinIs ==
    ASSUME NEW S, S \subseteq Nat, NEW m \in S, \A x \in S : m <= x
    PROVE  Min(S) = m
<1>1. Min(S) \in S /\ Min(S) <= m
  BY MinIsLeast
<1>2. m <= Min(S) /\ m \in Nat /\ Min(S) \in Nat
  BY <1>1
<1> QED
  BY <1>1, <1>2

---------------------------------------------------------------------------
(* The invariant. *)

\* A plain key is met once.
HitOnce == \A k \in Plain : \A i, j \in Hits(k) : i = j

\* The plain keys that are found are counted.
FoundKeys == {k \in Plain : Find(k) # NoValue}
FoundAreCounted == IsFiniteSet(FoundKeys) /\ Cardinality(FoundKeys) <= size

IInv == TypeOK /\ HitOnce /\ SetIsStored /\ FoundAreCounted

\* Plain keys are short, and short keys are keys.
LEMMA PlainKeys == Plain \subseteq Short /\ Short \subseteq Keys
  BY DEF Plain, Short

\* The positions of a chain that carry a key are positions.
LEMMA HitsArePositions ==
    ASSUME TypeOK, NEW k \in Keys
    PROVE  /\ Home[k] \in Buckets
           /\ buckets[Home[k]] \in Seq(Node)
           /\ Hits(k) \subseteq Nat
           /\ Hits(k) # {} => /\ Min(Hits(k)) \in DOMAIN buckets[Home[k]]
                              /\ buckets[Home[k]][Min(Hits(k))] \in Node
                              /\ buckets[Home[k]][Min(Hits(k))].key = k
<1>1. Home[k] \in Buckets /\ buckets[Home[k]] \in Seq(Node)
  BY HomeAssumption DEF TypeOK
<1>2. Hits(k) \subseteq Nat
  BY <1>1 DEF Hits
<1>3. Hits(k) # {} => Min(Hits(k)) \in Hits(k)
  BY <1>2, MinIsLeast
<1>4. \A i \in Hits(k) : /\ i \in DOMAIN buckets[Home[k]]
                         /\ buckets[Home[k]][i].key = k
  BY DEF Hits
<1>5. \A i \in DOMAIN buckets[Home[k]] : buckets[Home[k]][i] \in Node
  BY <1>1
<1> QED
  BY <1>1, <1>2, <1>3, <1>4, <1>5

\* Every value found is one that a node holds.
LEMMA FindType ==
    ASSUME TypeOK, NEW k \in Keys
    PROVE  /\ Find(k) \in Vals \cup {NoValue}
           /\ Find(k) = NoValue <=> Hits(k) = {}
<1>1. CASE Hits(k) = {}
  BY <1>1 DEF Find
<1>2. CASE Hits(k) # {}
  <2>1. buckets[Home[k]][Min(Hits(k))] \in Node
    BY <1>2, HitsArePositions
  <2>2. buckets[Home[k]][Min(Hits(k))].value \in Vals
    BY <2>1 DEF Node
  <2> QED
    BY <1>2, <2>2, NoValueAssumption DEF Find
<1> QED
  BY <1>1, <1>2

---------------------------------------------------------------------------
(* What storage_set does to the look-ups. *)

\* An overwrite changes the value of one key and the positions of none.
LEMMA OverwriteFinds ==
    ASSUME TypeOK, NEW k \in Keys, NEW v \in Vals, Overwrite(k, v)
    PROVE  /\ buckets' \in [Buckets -> Seq(Node)]
           /\ \A l \in Keys : Hits(l)' = Hits(l)
           /\ \A l \in Keys : Find(l)' = IF l = k THEN Kept[v] ELSE Find(l)
<1> DEFINE b == Home[k]
           m == Min(Hits(k))
<1>1. buckets' = [buckets EXCEPT ![b][m].value = Kept[v]]
  BY DEF Overwrite
<1>2. /\ b \in Buckets /\ buckets[b] \in Seq(Node)
      /\ m \in DOMAIN buckets[b] /\ buckets[b][m] \in Node /\ buckets[b][m].key = k
  BY HitsArePositions DEF Overwrite
<1>3. Hits(k) # {}
  BY DEF Overwrite
<1> HIDE DEF b, m
<1>4. DOMAIN buckets = Buckets
  BY DEF TypeOK
<1>5. DOMAIN buckets' = Buckets /\ \A e \in Buckets : e # b => buckets'[e] = buckets[e]
  BY <1>1, <1>4
<1>6. buckets'[b] = [buckets[b] EXCEPT ![m].value = Kept[v]]
  BY <1>1, <1>2, <1>4
<1>7. /\ DOMAIN buckets'[b] = DOMAIN buckets[b]
      /\ \A i \in DOMAIN buckets[b] : i # m => buckets'[b][i] = buckets[b][i]
      /\ buckets'[b][m] = [buckets[b][m] EXCEPT !.value = Kept[v]]
  BY <1>2, <1>6
<1>8. /\ buckets'[b][m] \in Node
      /\ buckets'[b][m].key = k /\ buckets'[b][m].value = Kept[v]
  BY <1>2, <1>7, KeptAssumption DEF Node
<1>9. buckets' \in [Buckets -> Seq(Node)]
  <2>2. buckets'[b] = [buckets[b] EXCEPT ![m] = buckets'[b][m]]
    BY <1>2, <1>6, <1>7
  <2>3. buckets'[b] \in Seq(Node)
    BY <1>2, <1>8, <2>2
  <2>4. \A e \in Buckets : buckets'[e] \in Seq(Node)
    BY <1>5, <2>3 DEF TypeOK
  <2>5. buckets' = [e \in Buckets |-> buckets'[e]]
    BY <1>1, <1>4
  <2> QED
    BY <2>4, <2>5
<1>10. ASSUME NEW l \in Keys PROVE Hits(l)' = Hits(l)
  <2>1. Home[l] \in Buckets
    BY HomeAssumption
  <2>2. /\ DOMAIN buckets'[Home[l]] = DOMAIN buckets[Home[l]]
        /\ \A i \in DOMAIN buckets[Home[l]] :
              buckets'[Home[l]][i].key = buckets[Home[l]][i].key
    BY <1>2, <1>5, <1>7, <1>8, <2>1
  <2> QED
    BY <2>2 DEF Hits
<1>11. ASSUME NEW l \in Keys
       PROVE  Find(l)' = IF l = k THEN Kept[v] ELSE Find(l)
  <2>1. CASE l = k
    BY <2>1, <1>3, <1>8, <1>10 DEF Find, b, m
  <2>2. CASE l # k /\ Hits(l) = {}
    BY <2>2, <1>10 DEF Find
  <2>3. CASE l # k /\ Hits(l) # {}
    <3> DEFINE n == Min(Hits(l))
    <3>1. /\ Home[l] \in Buckets
          /\ n \in DOMAIN buckets[Home[l]] /\ buckets[Home[l]][n].key = l
      BY <2>3, HitsArePositions
    <3>2. Find(l) = buckets[Home[l]][n].value /\ Find(l)' = buckets'[Home[l]][n].value
      BY <1>10, <2>3 DEF Find
    <3> HIDE DEF n
    <3>3. ~(Home[l] = b /\ n = m)
      BY <1>2, <2>3, <3>1
    <3>4. buckets'[Home[l]][n] = buckets[Home[l]][n]
      BY <1>5, <1>7, <3>1, <3>3
    <3> QED
      BY <2>3, <3>2, <3>4
  <2> QED
    BY <2>1, <2>2, <2>3
<1> QED
  BY <1>9, <1>10, <1>11

\* A node in front of a chain moves the others up by one.
LEMMA PrependToChain ==
    ASSUME NEW chain \in Seq(Node), NEW node \in Node
    PROVE  LET longer == <<node>> \o chain IN
           /\ longer \in Seq(Node)
           /\ DOMAIN longer = 1..(Len(chain) + 1)
           /\ DOMAIN chain = 1..Len(chain)
           /\ longer[1] = node
           /\ \A i \in DOMAIN chain : longer[i + 1] = chain[i]
  OBVIOUS

\* A new node is met first, and only by the key that it has; the other nodes are
\* met as before, one place further down.
LEMMA PrependFinds ==
    ASSUME TypeOK, NEW k \in Keys, NEW v \in Vals, Prepend(k, v)
    PROVE  /\ buckets' \in [Buckets -> Seq(Node)]
           /\ \A l \in Keys :
                IF Home[l] = Home[k] /\ l = Stored[k]
                THEN /\ Hits(l)' = {1} \cup {i + 1 : i \in Hits(l)}
                     /\ Find(l)' = Kept[v]
                ELSE /\ Hits(l)' = Hits(l) \/ Hits(l)' = {i + 1 : i \in Hits(l)}
                     /\ Find(l)' = Find(l)
<1> DEFINE b == Home[k]
           node == [key |-> Stored[k], value |-> Kept[v]]
<1>1. buckets' = [buckets EXCEPT ![b] = <<node>> \o @]
  BY DEF Prepend
<1>2. b \in Buckets /\ buckets[b] \in Seq(Node)
  BY HitsArePositions
<1>3. node \in Node /\ node.key = Stored[k] /\ node.value = Kept[v]
  BY StoredAssumption, KeptAssumption DEF Node
<1> HIDE DEF b, node
<1>4. /\ DOMAIN buckets = Buckets
      /\ DOMAIN buckets' = Buckets
      /\ \A e \in Buckets : e # b => buckets'[e] = buckets[e]
      /\ buckets'[b] = <<node>> \o buckets[b]
  BY <1>1, <1>2 DEF TypeOK
<1>5. /\ buckets'[b] \in Seq(Node)
      /\ DOMAIN buckets'[b] = 1..(Len(buckets[b]) + 1)
      /\ DOMAIN buckets[b] = 1..Len(buckets[b])
      /\ Len(buckets[b]) \in Nat
      /\ buckets'[b][1] = node
      /\ \A i \in DOMAIN buckets[b] : buckets'[b][i + 1] = buckets[b][i]
  BY <1>2, <1>3, <1>4, PrependToChain
<1>6. buckets' \in [Buckets -> Seq(Node)]
  <2>1. \A e \in Buckets : buckets'[e] \in Seq(Node)
    BY <1>4, <1>5 DEF TypeOK
  <2>2. buckets' = [e \in Buckets |-> buckets'[e]]
    BY <1>1, <1>4
  <2> QED
    BY <2>1, <2>2
<1>7. ASSUME NEW l \in Keys, Home[l] # b
      PROVE  Hits(l)' = Hits(l) /\ Find(l)' = Find(l)
  <2>1. Home[l] \in Buckets
    BY HomeAssumption
  <2>2. buckets'[Home[l]] = buckets[Home[l]]
    BY <1>4, <1>7, <2>1
  <2> QED
    BY <2>2 DEF Hits, Find
<1>8. ASSUME NEW l \in Keys, Home[l] = b
      PROVE  Hits(l)' = {i + 1 : i \in Hits(l)} \cup (IF l = Stored[k] THEN {1} ELSE {})
  <2>1. Hits(l) = {i \in DOMAIN buckets[b] : buckets[b][i].key = l}
    BY <1>8 DEF Hits
  <2>2. Hits(l)' = {i \in DOMAIN buckets'[b] : buckets'[b][i].key = l}
    BY <1>8 DEF Hits
  <2>3. ASSUME NEW j \in Hits(l)'
        PROVE  j \in {i + 1 : i \in Hits(l)} \cup (IF l = Stored[k] THEN {1} ELSE {})
    <3>1. CASE j = 1
      BY <1>3, <1>5, <2>2, <2>3, <3>1
    <3>2. CASE j # 1
      <4>1. j - 1 \in DOMAIN buckets[b] /\ (j - 1) + 1 = j
        BY <1>5, <2>2, <2>3, <3>2
      <4>2. j - 1 \in Hits(l)
        BY <1>5, <2>1, <2>2, <2>3, <4>1
      <4> QED
        BY <4>1, <4>2
    <3> QED
      BY <3>1, <3>2
  <2>4. ASSUME NEW i \in Hits(l) PROVE i + 1 \in Hits(l)'
    BY <1>5, <2>1, <2>2, <2>4
  <2>5. l = Stored[k] => 1 \in Hits(l)'
    BY <1>3, <1>5, <2>2
  <2> QED
    BY <2>3, <2>4, <2>5
<1>9. ASSUME NEW l \in Keys, Home[l] = b, l = Stored[k]
      PROVE  /\ Hits(l)' = {1} \cup {i + 1 : i \in Hits(l)}
             /\ Find(l)' = Kept[v]
  <2>1. Hits(l)' = {1} \cup {i + 1 : i \in Hits(l)}
    BY <1>8, <1>9
  <2>2. Hits(l) \subseteq Nat
    BY HitsArePositions
  <2>3. Min(Hits(l)') = 1
    BY <2>1, <2>2, MinIs
  <2> QED
    BY <1>3, <1>5, <1>9, <2>1, <2>3 DEF Find
<1>10. ASSUME NEW l \in Keys, Home[l] = b, l # Stored[k]
       PROVE  /\ Hits(l)' = {i + 1 : i \in Hits(l)}
              /\ Find(l)' = Find(l)
  <2>1. Hits(l)' = {i + 1 : i \in Hits(l)}
    BY <1>8, <1>10
  <2>2. CASE Hits(l) = {}
    BY <2>1, <2>2 DEF Find
  <2>3. CASE Hits(l) # {}
    <3> DEFINE n == Min(Hits(l))
    <3>1. Hits(l) \subseteq Nat /\ n \in Hits(l) /\ \A i \in Hits(l) : n <= i
      BY <2>3, HitsArePositions, MinIsLeast
    <3>2. Min(Hits(l)') = n + 1
      <4> HIDE DEF n
      <4>1. Hits(l)' \subseteq Nat /\ n + 1 \in Hits(l)' /\ \A i \in Hits(l)' : n + 1 <= i
        BY <2>1, <3>1
      <4> QED
        BY <4>1, MinIs
    <3>3. n \in DOMAIN buckets[b] /\ Hits(l)' # {}
      BY <1>10, <2>1, <3>1 DEF Hits
    <3>4. buckets'[b][n + 1] = buckets[b][n]
      BY <1>5, <3>3
    <3> QED
      BY <1>10, <2>1, <2>3, <3>2, <3>3, <3>4 DEF Find
  <2> QED
    BY <2>1, <2>2, <2>3
<1> QED
  BY <1>6, <1>7, <1>9, <1>10 DEF b

\* What a SET answered OK does to the plain keys, and to those that are cut.
LEMMA SetFinds ==
    ASSUME IInv, NEW k \in Keys, NEW v \in Vals, Overwrite(k, v) \/ Prepend(k, v)
    PROVE  /\ buckets' \in [Buckets -> Seq(Node)]
           /\ size' \in Nat
           /\ \A l \in Plain : Find(l)' = IF l = k THEN Kept[v] ELSE Find(l)
           /\ \A l \in Keys \ Short : Find(l)' = NoValue
           /\ HitOnce'
           /\ FoundAreCounted'
<1> Kept[v] \in Vals /\ Kept[v] # NoValue
  BY KeptAssumption, NoValueAssumption
<1> size \in Nat
  BY DEF IInv, TypeOK
<1>1. CASE Overwrite(k, v)
  <2>1. /\ buckets' \in [Buckets -> Seq(Node)]
        /\ \A l \in Keys : Hits(l)' = Hits(l)
        /\ \A l \in Keys : Find(l)' = IF l = k THEN Kept[v] ELSE Find(l)
    BY <1>1, OverwriteFinds DEF IInv
  <2>2. size' = size /\ Find(k) # NoValue
    BY <1>1, FindType DEF IInv, Overwrite
  <2>3. \A l \in Keys \ Short : l # k /\ Find(l) = NoValue
    BY <2>2 DEF IInv, SetIsStored
  <2>4. HitOnce'
    BY <2>1, PlainKeys DEF IInv, HitOnce
  <2>5. FoundKeys' = FoundKeys
    BY <2>1, <2>2, PlainKeys DEF FoundKeys
  <2>6. FoundAreCounted'
    BY <2>2, <2>5 DEF IInv, FoundAreCounted
  <2> QED
    BY <2>1, <2>2, <2>3, <2>4, <2>6, PlainKeys
<1>2. CASE Prepend(k, v)
  <2>1. buckets' \in [Buckets -> Seq(Node)]
    BY <1>2, PrependFinds DEF IInv
  <2>2. \A l \in Keys :
           IF Home[l] = Home[k] /\ l = Stored[k]
           THEN /\ Hits(l)' = {1} \cup {i + 1 : i \in Hits(l)}
                /\ Find(l)' = Kept[v]
           ELSE /\ Hits(l)' = Hits(l) \/ Hits(l)' = {i + 1 : i \in Hits(l)}
                /\ Find(l)' = Find(l)
    BY <1>2, PrependFinds DEF IInv
  <2>3. size' = size + 1 /\ Hits(k) = {}
    BY <1>2 DEF Prepend
  <2>4. \A l \in Plain : Home[l] = Home[k] /\ l = Stored[k] <=> l = k
    BY DEF Plain, Short
  <2>5. \A l \in Plain : Find(l)' = IF l = k THEN Kept[v] ELSE Find(l)
    BY <2>2, <2>4, PlainKeys
  <2>6. \A l \in Keys \ Short : l # Stored[k] /\ Find(l) = NoValue
    BY StoredAssumption DEF IInv, SetIsStored, Short
  <2>7. \A l \in Keys \ Short : Find(l)' = NoValue
    BY <2>2, <2>6
  <2>8. HitOnce'
    <3> SUFFICES ASSUME NEW l \in Plain, NEW i \in Hits(l)', NEW j \in Hits(l)'
                 PROVE  i = j
      BY DEF HitOnce
    <3>1. CASE l = k
      <4>1. Hits(l)' = {1} \cup {p + 1 : p \in Hits(l)}
        BY <2>2, <2>4, <3>1
      <4> QED
        BY <2>3, <3>1, <4>1
    <3>2. CASE l # k
      <4>1. Hits(l)' = Hits(l) \/ Hits(l)' = {p + 1 : p \in Hits(l)}
        BY <2>2, <2>4, <3>2, PlainKeys
      <4>2. \A p, q \in Hits(l) : p = q
        BY DEF IInv, HitOnce
      <4> QED
        BY <4>1, <4>2
    <3> QED
      BY <3>1, <3>2
  <2>9. FoundAreCounted'
    <3>1. FoundKeys' \subseteq FoundKeys \cup {k}
      BY <2>5 DEF FoundKeys
    <3>2. IsFiniteSet(FoundKeys) /\ Cardinality(FoundKeys) <= size
          /\ Cardinality(FoundKeys) \in Nat
      BY FS_CardinalityType DEF IInv, FoundAreCounted
    <3>3. /\ IsFiniteSet(FoundKeys \cup {k})
          /\ Cardinality(FoundKeys \cup {k}) \in Nat
          /\ Cardinality(FoundKeys \cup {k}) <= Cardinality(FoundKeys) + 1
      <4>1. /\ IsFiniteSet(FoundKeys \cup {k})
            /\ Cardinality(FoundKeys \cup {k})
                 = IF k \in FoundKeys THEN Cardinality(FoundKeys)
                                      ELSE Cardinality(FoundKeys) + 1
        BY <3>2, FS_AddElement, Zenon
      <4> QED
        BY <3>2, <4>1
    <3>4. IsFiniteSet(FoundKeys') /\ Cardinality(FoundKeys') \in Nat
          /\ Cardinality(FoundKeys') <= Cardinality(FoundKeys \cup {k})
      BY <3>1, <3>3, FS_Subset, FS_CardinalityType
    <3> QED
      BY <2>3, <3>2, <3>3, <3>4 DEF FoundAreCounted
  <2> QED
    BY <2>1, <2>3, <2>5, <2>7, <2>8, <2>9
<1> QED
  BY <1>1, <1>2

---------------------------------------------------------------------------
(* The invariant holds. *)

\* A table as Init and FLUSH leave it, and what holds of it.
Emptied ==
    /\ buckets = [b \in Buckets |-> <<>>]
    /\ size = 0
    /\ last = [k \in Keys |-> NoValue]

FindsNothing ==
    /\ buckets \in [Buckets -> Seq(Node)] /\ size \in Nat
    /\ last \in [Keys -> Vals \cup {NoValue}]
    /\ HitOnce /\ SetIsStored /\ FoundAreCounted
    /\ \A k \in Keys : Find(k) = NoValue

\* Nothing is found in an empty table.
LEMMA EmptyTable == Emptied => FindsNothing
<1> SUFFICES ASSUME Emptied PROVE FindsNothing
  OBVIOUS
<1> USE DEF Emptied
<1>1. ASSUME NEW k \in Keys PROVE Hits(k) = {}
  <2>1. buckets[Home[k]] = <<>>
    BY HomeAssumption
  <2> QED
    BY <2>1 DEF Hits
<1>2. \A k \in Keys : Find(k) = NoValue
  BY <1>1 DEF Find
<1>3. FoundKeys = {}
  BY <1>2, PlainKeys DEF FoundKeys
<1>4. FoundAreCounted
  BY <1>3, FS_EmptySet DEF FoundAreCounted
<1>5. HitOnce /\ SetIsStored
  BY <1>1, <1>2, PlainKeys DEF HitOnce, SetIsStored
<1> QED
  BY <1>2, <1>4, <1>5 DEF FindsNothing

\* A command that changes neither chains nor count changes no look-up.
LEMMA StoreUnchanged ==
    ASSUME IInv, UNCHANGED storeVars, request' \in Request, reply' \in Reply
    PROVE  IInv' /\ \A k \in Keys : Find(k)' = Find(k)
<1>1. /\ buckets' = buckets /\ size' = size /\ last' = last
  BY DEF storeVars
<1>2. \A k \in Keys : Hits(k)' = Hits(k) /\ Find(k)' = Find(k)
  BY <1>1 DEF Hits, Find
<1>3. TypeOK'
  BY <1>1 DEF IInv, TypeOK
<1>4. HitOnce'
  BY <1>2, PlainKeys DEF IInv, HitOnce
<1>5. SetIsStored'
  BY <1>1, <1>2 DEF IInv, SetIsStored
<1>6. FoundKeys' = FoundKeys
  BY <1>2, PlainKeys DEF FoundKeys
<1>7. FoundAreCounted'
  BY <1>1, <1>6 DEF IInv, FoundAreCounted
<1> QED
  BY <1>2, <1>3, <1>4, <1>5, <1>7 DEF IInv

\* The answers are answers.
LEMMA Replies ==
    /\ \A t \in {"NONE", "PONG", "OK", "NOT_FOUND", "ONE", "ZERO",
                 "ERROR_MEMORY", "ERROR_FORMAT", "ERROR_UNKNOWN"} : Say(t) \in Reply
    /\ \A v \in Vals : SayValue(v) \in Reply
    /\ \A n \in Nat : SayKeys(n) \in Reply
  BY DEF Say, SayValue, SayKeys, Reply

\* The first state.
LEMMA InitIInv == Init => IInv
<1> SUFFICES ASSUME Init PROVE IInv
  OBVIOUS
<1>1. FindsNothing
  BY EmptyTable DEF Init, Emptied
<1>2. request \in Request /\ reply \in Reply
  BY Replies DEF Init, Request, PlainCommand
<1> QED
  BY <1>1, <1>2 DEF FindsNothing, IInv, TypeOK

\* SET, answered OK or refused.
LEMMA SetIInv ==
    ASSUME IInv, NEW k \in Keys, NEW v \in Vals, Set(k, v), request' \in Request
    PROVE  IInv'
<1>1. CASE /\ Overwrite(k, v) \/ Prepend(k, v)
           /\ reply' = Say("OK")
           /\ last' = [last EXCEPT ![k] = v]
  <2>1. /\ buckets' \in [Buckets -> Seq(Node)] /\ size' \in Nat
        /\ HitOnce' /\ FoundAreCounted'
    BY <1>1, SetFinds
  <2>2. /\ \A l \in Plain : Find(l)' = IF l = k THEN Kept[v] ELSE Find(l)
        /\ \A l \in Keys \ Short : Find(l)' = NoValue
    BY <1>1, SetFinds
  <2>3. last \in [Keys -> Vals \cup {NoValue}]
    BY DEF IInv, TypeOK
  <2>4. TypeOK'
    BY <1>1, <2>1, <2>3, Replies DEF TypeOK
  <2>5. SetIsStored'
    <3>1. \A l \in Plain : last'[l] = IF l = k THEN v ELSE last[l]
      BY <1>1, <2>3, PlainKeys
    <3>2. \A l \in Plain :
             Find(l)' = IF last'[l] = NoValue THEN NoValue ELSE Kept[last'[l]]
      BY <2>2, <3>1, PlainKeys, NoValueAssumption DEF IInv, SetIsStored
    <3> QED
      BY <2>2, <3>2, PlainKeys DEF SetIsStored
  <2> QED
    BY <2>1, <2>4, <2>5 DEF IInv
<1>2. CASE reply' = Say("ERROR_MEMORY") /\ UNCHANGED storeVars
  BY <1>2, Replies, StoreUnchanged
<1> QED
  BY <1>1, <1>2 DEF Set

\* FLUSH leaves an empty table.
LEMMA FlushIInv ==
    ASSUME IInv, Flush, request' \in Request
    PROVE  IInv' /\ \A k \in Keys : Find(k)' = NoValue
<1>1. Emptied'
  BY DEF Flush, Emptied
<1>2. (Emptied => FindsNothing)'
  BY EmptyTable, PTL
<1> QED
  BY <1>1, <1>2, Replies DEF Flush, FindsNothing, IInv, TypeOK

\* Each command keeps the invariant.
LEMMA NextIInv == IInv /\ [Next]_vars => IInv'
<1> SUFFICES ASSUME IInv, [Next]_vars PROVE IInv'
  OBVIOUS
<1>1. CASE UNCHANGED vars
  <2>1. UNCHANGED storeVars /\ request' \in Request /\ reply' \in Reply
    BY <1>1 DEF vars, storeVars, IInv, TypeOK
  <2> QED
    BY <2>1, StoreUnchanged
<1>2. CASE Next
  <2>1. PICK req \in Request : Handle(req)
    BY <1>2 DEF Next
  <2>2. request' \in Request
    BY <2>1 DEF Handle
  <2>3. CASE req.cmd = "SET" /\ Set(req.key, req.value)
    <3>1. req.key \in Keys /\ req.value \in Vals
      BY <2>3 DEF Request, PlainCommand, KeyCommand
    <3> QED
      BY <2>2, <2>3, <3>1, SetIInv
  <2>4. CASE Flush
    BY <2>2, <2>4, FlushIInv
  <2>5. CASE \/ Ping \/ BadSet \/ Stats \/ Unknown
    <3>1. size \in Nat
      BY DEF IInv, TypeOK
    <3>2. UNCHANGED storeVars /\ reply' \in Reply
      BY <2>5, <3>1, Replies DEF Ping, BadSet, Stats, Unknown
    <3> QED
      BY <2>2, <3>2, StoreUnchanged
  <2>6. CASE /\ req.cmd \in KeyCommand
             /\ Get(req.key) \/ Delete(req.key) \/ Exists(req.key)
    <3>1. req.key \in Keys
      BY <2>6 DEF Request, PlainCommand, KeyCommand
    <3>2. Find(req.key) \in Vals \cup {NoValue}
      BY <3>1, FindType DEF IInv
    <3>3. UNCHANGED storeVars /\ reply' \in Reply
      BY <2>6, <3>2, Replies DEF Get, Delete, Exists
    <3> QED
      BY <2>2, <3>3, StoreUnchanged
  <2> QED
    BY <2>1, <2>3, <2>4, <2>5, <2>6 DEF Handle, KeyCommand
<1> QED
  BY <1>1, <1>2

\* The invariant holds in every state, for any keys, buckets and number of nodes.
THEOREM Invariance == Spec => []IInv
<1> QED
  BY InitIInv, NextIInv, PTL DEF Spec

\* The variables keep their types.
THEOREM TypeCorrect == Spec => []TypeOK
<1>1. IInv => TypeOK
  BY DEF IInv
<1> QED
  BY <1>1, Invariance, PTL

\* A plain key has at most one node.
THEOREM OneNodePerKey == Spec => []OneNodePerPlainKey
<1>1. IInv => OneNodePerPlainKey
  <2> SUFFICES ASSUME IInv, NEW k \in Plain PROVE Cardinality(Hits(k)) <= 1
    BY DEF OneNodePerPlainKey
  <2>1. CASE Hits(k) = {}
    BY <2>1, FS_EmptySet
  <2>2. CASE Hits(k) # {}
    <3>1. PICK i \in Hits(k) : TRUE
      BY <2>2
    <3>2. Hits(k) = {i}
      BY <3>1 DEF IInv, HitOnce
    <3>3. Cardinality({i}) = 1
      BY FS_Singleton
    <3> QED
      BY <3>2, <3>3
  <2> QED
    BY <2>1, <2>2
<1> QED
  BY <1>1, Invariance, PTL

\* What a SET answered OK has stored of a plain key is read back, and a key that
\* is cut when it is stored is never found.
THEOREM SetsAreStored == Spec => []SetIsStored
<1>1. IInv => SetIsStored
  BY DEF IInv
<1> QED
  BY <1>1, Invariance, PTL

---------------------------------------------------------------------------
(* The count of nodes.  The sum over the buckets is a function on sets of  *)
(* buckets that takes one bucket out at a time; for finitely many buckets  *)
(* there is such a function, and one chain that grows by a node adds one   *)
(* to it.  Both facts go by a smallest set of buckets that violates them.  *)

Total(chains) == MapThenSumSet(LAMBDA b : Len(chains[b]), Buckets)

\* The equation of the sum, for the numbers w and the set s of buckets, in terms of
\* what g is for a smaller set.
AnyOf(s) == CHOOSE x \in s : TRUE
Adds(g, w, s) == IF s = {} THEN 0 ELSE w[AnyOf(s)] + g[s \ {AnyOf(s)}]
Shifted(v, w, b, d) ==
    \A e \in Buckets : w[e] \in Nat /\ v[e] = IF e = b THEN w[e] + d ELSE w[e]
Sums(g, w) == \A s \in SUBSET Buckets : g[s] = Adds(g, w, s)

\* Taking a bucket out leaves a smaller set.
LEMMA SmallerSet ==
    ASSUME IsFiniteSet(Buckets), NEW s \in SUBSET Buckets
    PROVE  /\ Cardinality(s) \in Nat
           /\ s # {} => /\ AnyOf(s) \in s
                        /\ s \ {AnyOf(s)} \in SUBSET Buckets
                        /\ Cardinality(s \ {AnyOf(s)}) \in Nat
                        /\ Cardinality(s \ {AnyOf(s)}) < Cardinality(s)
<1>1. IsFiniteSet(s) /\ Cardinality(s) \in Nat
  BY FS_Subset, FS_CardinalityType
<1>2. ASSUME s # {}
      PROVE  /\ AnyOf(s) \in s
             /\ Cardinality(s \ {AnyOf(s)}) \in Nat
             /\ Cardinality(s \ {AnyOf(s)}) < Cardinality(s)
  <2>1. AnyOf(s) \in s
    BY <1>2 DEF AnyOf
  <2>2. /\ IsFiniteSet(s \ {AnyOf(s)})
        /\ Cardinality(s \ {AnyOf(s)}) = Cardinality(s) - 1
    BY <1>1, <2>1, FS_RemoveElement
  <2>3. Cardinality(s \ {AnyOf(s)}) \in Nat
    BY <2>2, FS_CardinalityType
  <2> QED
    BY <1>1, <2>1, <2>2, <2>3
<1> QED
  BY <1>1, <1>2

\* There is a function that the equation defines.
LEMMA SumExists ==
    ASSUME IsFiniteSet(Buckets), NEW w
    PROVE  \E g : g = [s \in SUBSET Buckets |-> Adds(g, w, s)]
<1> DEFINE Solves(g, n) ==
              \A s \in SUBSET Buckets : Cardinality(s) < n => g[s] = Adds(g, w, s)
           unsolved == {n \in Nat : ~ \E g : Solves(g, n)}
<1>1. ASSUME NEW s \in SUBSET Buckets, NEW f, NEW g,
             \A r \in SUBSET Buckets : Cardinality(r) < Cardinality(s) => g[r] = f[r]
      PROVE  Adds(g, w, s) = Adds(f, w, s)
  <2>1. CASE s = {}
    BY <2>1 DEF Adds
  <2>2. CASE s # {}
    <3>1. g[s \ {AnyOf(s)}] = f[s \ {AnyOf(s)}]
      BY <1>1, <2>2, SmallerSet
    <3> QED
      BY <3>1 DEF Adds
  <2> QED
    BY <2>1, <2>2
<1>2. \A s \in SUBSET Buckets : Cardinality(s) \in Nat
  BY SmallerSet
<1>3. unsolved = {}
  <2> SUFFICES ASSUME unsolved # {} PROVE FALSE
    OBVIOUS
  <2> DEFINE n == Min(unsolved)
  <2>1. n \in unsolved /\ \A m \in unsolved : n <= m
    <3>1. unsolved \subseteq Nat
      OBVIOUS
    <3> HIDE DEF unsolved
    <3> QED
      BY <3>1, MinIsLeast
  <2>2. n \in Nat /\ ~ \E g : Solves(g, n)
    BY <2>1
  <2> HIDE DEF n
  <2>3. CASE n = 0
    <3>1. \A s \in SUBSET Buckets : ~(Cardinality(s) < 0)
      BY <1>2
    <3>2. \E g : Solves(g, 0)
      BY <3>1
    <3> QED
      BY <2>2, <2>3, <3>2
  <2>4. CASE n # 0
    <3>1. n - 1 \in Nat /\ n - 1 \notin unsolved
      BY <2>1, <2>2, <2>4
    <3>2. PICK f : Solves(f, n - 1)
      BY <3>1
    <3>3. PICK g : g = [s \in SUBSET Buckets |->
                          IF Cardinality(s) < n - 1 THEN f[s] ELSE Adds(f, w, s)]
      OBVIOUS
    <3>4. ASSUME NEW s \in SUBSET Buckets, Cardinality(s) < n
          PROVE  g[s] = Adds(g, w, s)
      <4>1. \A r \in SUBSET Buckets : Cardinality(r) < Cardinality(s) => g[r] = f[r]
        <5>1. \A a, b \in Nat : a < b /\ b < n => a < n - 1
          BY <2>2
        <5>2. \A r \in SUBSET Buckets :
                 Cardinality(r) < Cardinality(s) => Cardinality(r) < n - 1
          BY <1>2, <3>4, <5>1
        <5> QED
          BY <3>3, <5>2
      <4>2. Adds(g, w, s) = Adds(f, w, s)
        BY <1>1, <4>1
      <4>3. g[s] = Adds(f, w, s)
        BY <3>2, <3>3
      <4> QED
        BY <4>2, <4>3
    <3> QED
      BY <2>2, <3>4
  <2> QED
    BY <2>3, <2>4
<1> DEFINE all == Cardinality(Buckets) + 1
<1>4. all \in Nat /\ \A s \in SUBSET Buckets : Cardinality(s) < all
  BY <1>2, FS_Subset
<1> HIDE DEF all
<1>5. PICK f : Solves(f, all)
  BY <1>3, <1>4
<1>6. PICK g : g = [s \in SUBSET Buckets |-> f[s]]
  OBVIOUS
<1>7. \A s \in SUBSET Buckets : g[s] = Adds(g, w, s)
  BY <1>1, <1>4, <1>5, <1>6
<1>8. g = [s \in SUBSET Buckets |-> Adds(g, w, s)]
  BY <1>6, <1>7
<1> QED
  BY <1>8

\* The total length of the chains is what such a function gives for all buckets.
LEMMA TotalIsSum ==
    ASSUME IsFiniteSet(Buckets), NEW chains,
           NEW w, \A b \in Buckets : w[b] = Len(chains[b])
    PROVE  \E g : Total(chains) = g[Buckets] /\ Sums(g, w)
<1> DEFINE Body(g, s) == IF s = {} THEN 0
                         ELSE Len(chains[AnyOf(s)]) + g[s \ {AnyOf(s)}]
           f == CHOOSE g : g = [s \in SUBSET Buckets |-> Body(g, s)]
<1>1. Total(chains) = f[Buckets]
  BY DEF Total, MapThenSumSet, MapThenFoldSet, AnyOf
<1>2. ASSUME NEW g, NEW s \in SUBSET Buckets PROVE Body(g, s) = Adds(g, w, s)
  <2>1. s # {} => AnyOf(s) \in Buckets
    BY SmallerSet
  <2> QED
    BY <2>1 DEF Adds
<1>3. \E g : g = [s \in SUBSET Buckets |-> Body(g, s)]
  <2>1. PICK g : g = [s \in SUBSET Buckets |-> Adds(g, w, s)]
    BY SumExists
  <2>2. [s \in SUBSET Buckets |-> Adds(g, w, s)] = [s \in SUBSET Buckets |-> Body(g, s)]
    BY <1>2
  <2> QED
    BY <2>1, <2>2
<1> HIDE DEF Body
<1>4. f = [s \in SUBSET Buckets |-> Body(f, s)]
  BY <1>3
<1> HIDE DEF f
<1>5. \A s \in SUBSET Buckets : f[s] = Body(f, s)
  <2>1. PICK h : h = [s \in SUBSET Buckets |-> Body(f, s)]
    OBVIOUS
  <2>2. h = f /\ \A s \in SUBSET Buckets : h[s] = Body(f, s)
    BY <1>4, <2>1
  <2> QED
    BY <2>2
<1> QED
  BY <1>1, <1>2, <1>5 DEF Sums

\* One number that is larger by d makes the sum larger by d.
LEMMA SumShifts ==
    ASSUME IsFiniteSet(Buckets),
           NEW w, NEW v, NEW b \in Buckets, NEW d \in Nat, Shifted(v, w, b, d),
           NEW g, Sums(g, w), NEW h, Sums(h, v)
    PROVE  h[Buckets] = g[Buckets] + d
<1> DEFINE Right(s) == g[s] \in Nat /\ h[s] = g[s] + (IF b \in s THEN d ELSE 0)
           wrong == {n \in Nat : \E s \in SUBSET Buckets : n = Cardinality(s) /\ ~Right(s)}
<1>1. ASSUME NEW s \in SUBSET Buckets,
             \A r \in SUBSET Buckets : Cardinality(r) < Cardinality(s) => Right(r)
      PROVE  Right(s)
  <2>1. CASE s = {}
    <3>1. g[s] = 0 /\ h[s] = 0 /\ b \notin s
      BY <2>1 DEF Adds, Sums
    <3> QED
      BY <3>1
  <2>2. CASE s # {}
    <3> DEFINE x == AnyOf(s)
               r == s \ {x}
    <3>1. x \in s /\ x \in Buckets /\ Right(r)
      BY <1>1, <2>2, SmallerSet
    <3>2. g[s] = w[x] + g[r] /\ h[s] = v[x] + h[r]
      BY <2>2 DEF Adds, Sums
    <3>3. w[x] \in Nat /\ v[x] = IF x = b THEN w[x] + d ELSE w[x]
      BY <3>1 DEF Shifted
    <3>4. b \in s <=> (x = b \/ b \in r)
      BY <3>1
    <3>5. x = b => b \notin r
      OBVIOUS
    <3> HIDE DEF x, r
    <3>6. CASE x = b
      BY <3>1, <3>2, <3>3, <3>4, <3>5, <3>6
    <3>7. CASE x # b
      BY <3>1, <3>2, <3>3, <3>4, <3>7
    <3> QED
      BY <3>6, <3>7
  <2> QED
    BY <2>1, <2>2
<1>2. \A s \in SUBSET Buckets : Cardinality(s) \in Nat
  BY SmallerSet
<1> HIDE DEF Right
<1>3. wrong = {}
  <2> SUFFICES ASSUME wrong # {} PROVE FALSE
    OBVIOUS
  <2> DEFINE n == Min(wrong)
  <2>1. n \in wrong /\ \A m \in wrong : n <= m
    <3>1. wrong \subseteq Nat
      OBVIOUS
    <3> HIDE DEF wrong
    <3> QED
      BY <3>1, MinIsLeast
  <2> HIDE DEF n
  <2>2. PICK s \in SUBSET Buckets : n = Cardinality(s) /\ ~Right(s)
    BY <2>1
  <2>3. ASSUME NEW r \in SUBSET Buckets, Cardinality(r) < Cardinality(s) PROVE Right(r)
    <3>1. Cardinality(r) \in Nat /\ ~(n <= Cardinality(r))
      BY <1>2, <2>2, <2>3
    <3> QED
      BY <2>1, <3>1
  <2> QED
    BY <1>1, <2>2, <2>3
<1>4. Right(Buckets)
  BY <1>2, <1>3
<1> QED
  BY <1>4 DEF Right

\* The lengths of the chains.
LEMMA ChainLengths ==
    ASSUME NEW chains \in [Buckets -> Seq(Node)]
    PROVE  \E w \in [Buckets -> Nat] : \A b \in Buckets : w[b] = Len(chains[b])
<1> DEFINE w == [b \in Buckets |-> Len(chains[b])]
<1>1. w \in [Buckets -> Nat] /\ \A b \in Buckets : w[b] = Len(chains[b])
  OBVIOUS
<1> QED
  BY <1>1

\* So a chain that grows by d nodes adds d to the total.
LEMMA TotalGrows ==
    ASSUME IsFiniteSet(Buckets),
           NEW old \in [Buckets -> Seq(Node)], NEW new \in [Buckets -> Seq(Node)],
           NEW b \in Buckets, NEW d \in Nat, Len(new[b]) = Len(old[b]) + d,
           \A e \in Buckets \ {b} : Len(new[e]) = Len(old[e])
    PROVE  Total(new) = Total(old) + d
<1>1. PICK w \in [Buckets -> Nat] : \A e \in Buckets : w[e] = Len(old[e])
  BY ChainLengths
<1>2. PICK v \in [Buckets -> Nat] : \A e \in Buckets : v[e] = Len(new[e])
  BY ChainLengths
<1>3. PICK g : Total(old) = g[Buckets] /\ Sums(g, w)
  BY <1>1, TotalIsSum
<1>4. PICK h : Total(new) = h[Buckets] /\ Sums(h, v)
  BY <1>2, TotalIsSum
<1>5. Shifted(v, w, b, d)
  BY <1>1, <1>2 DEF Shifted
<1>6. h[Buckets] = g[Buckets] + d
  BY <1>3, <1>4, <1>5, SumShifts
<1> QED
  BY <1>3, <1>4, <1>6

\* Empty chains have no nodes.
LEMMA TotalOfNone ==
    ASSUME IsFiniteSet(Buckets), NEW chains, chains = [b \in Buckets |-> <<>>]
    PROVE  Total(chains) = 0
<1>1. chains \in [Buckets -> Seq(Node)] /\ \A b \in Buckets : Len(chains[b]) = 0
  OBVIOUS
<1>2. PICK w \in [Buckets -> Nat] : \A b \in Buckets : w[b] = Len(chains[b])
  BY <1>1, ChainLengths
<1>3. PICK g : Total(chains) = g[Buckets] /\ Sums(g, w)
  BY <1>2, TotalIsSum
<1> DEFINE wrong == {n \in Nat : \E s \in SUBSET Buckets : n = Cardinality(s) /\ g[s] # 0}
<1>4. \A s \in SUBSET Buckets : Cardinality(s) \in Nat
  BY SmallerSet
<1>5. wrong = {}
  <2> SUFFICES ASSUME wrong # {} PROVE FALSE
    OBVIOUS
  <2> DEFINE n == Min(wrong)
  <2>1. n \in wrong /\ \A m \in wrong : n <= m
    <3>1. wrong \subseteq Nat
      OBVIOUS
    <3> HIDE DEF wrong
    <3> QED
      BY <3>1, MinIsLeast
  <2> HIDE DEF n
  <2>2. PICK s \in SUBSET Buckets : n = Cardinality(s) /\ g[s] # 0
    BY <2>1
  <2>3. s # {} /\ g[s] = w[AnyOf(s)] + g[s \ {AnyOf(s)}]
    BY <1>3, <2>2 DEF Adds, Sums
  <2> DEFINE r == s \ {AnyOf(s)}
  <2>4. AnyOf(s) \in Buckets /\ r \in SUBSET Buckets /\ Cardinality(r) \in Nat
        /\ Cardinality(r) < n
    BY <2>2, <2>3, SmallerSet
  <2> HIDE DEF r
  <2>5. ~(n <= Cardinality(r))
    BY <1>4, <2>2, <2>4
  <2>6. g[r] = 0
    BY <2>1, <2>4, <2>5
  <2> QED
    BY <1>1, <1>2, <2>2, <2>3, <2>4, <2>6 DEF r
<1>6. g[Buckets] = 0
  BY <1>4, <1>5
<1> QED
  BY <1>3, <1>6

\* Chains with the same positions have the same length.
LEMMA LenDomain ==
    ASSUME NEW s \in Seq(Node), NEW t \in Seq(Node), DOMAIN t = DOMAIN s
    PROVE  Len(t) = Len(s)
<1>1. Len(s) \in Nat /\ Len(t) \in Nat /\ 1..Len(s) = 1..Len(t)
  OBVIOUS
<1> QED
  BY <1>1

\* What the property says is that size is the total.
LEMMA CountIsTotal == SizeCountsNodes <=> size = Total(buckets)
  BY DEF SizeCountsNodes, Total, MapThenSumSet, MapThenFoldSet

\* A SET changes the total as it changes the count: a prepend adds a node, an
\* overwrite none.
LEMMA SetCounts ==
    ASSUME IsFiniteSet(Buckets), TypeOK, SizeCountsNodes, NEW k \in Keys, NEW v \in Vals,
           Overwrite(k, v) \/ Prepend(k, v)
    PROVE  SizeCountsNodes'
<1>1. buckets \in [Buckets -> Seq(Node)] /\ Home[k] \in Buckets /\ size = Total(buckets)
  BY HomeAssumption, CountIsTotal DEF TypeOK
<1>0. SUFFICES size' = Total(buckets')
  <2>1. (SizeCountsNodes <=> size = Total(buckets))'
    BY CountIsTotal, PTL
  <2> QED
    BY <2>1
<1>2. CASE Overwrite(k, v)
  <2>1. buckets' \in [Buckets -> Seq(Node)] /\ size' = size
    BY <1>2, OverwriteFinds DEF Overwrite
  <2>2. \A b \in Buckets : DOMAIN buckets'[b] = DOMAIN buckets[b]
    BY <1>1, <1>2 DEF Overwrite
  <2>3. \A b \in Buckets : Len(buckets'[b]) = Len(buckets[b])
    BY <1>1, <2>1, <2>2, LenDomain
  <2>4. Total(buckets') = Total(buckets) + 0
    BY <1>1, <2>1, <2>3, TotalGrows
  <2> QED
    BY <1>1, <2>1, <2>4 DEF TypeOK
<1>3. CASE Prepend(k, v)
  <2>1. buckets' \in [Buckets -> Seq(Node)] /\ size' = size + 1
    BY <1>3, PrependFinds DEF Prepend
  <2> DEFINE node == [key |-> Stored[k], value |-> Kept[v]]
  <2>2. /\ buckets'[Home[k]] = <<node>> \o buckets[Home[k]]
        /\ \A e \in Buckets \ {Home[k]} : buckets'[e] = buckets[e]
    BY <1>1, <1>3 DEF Prepend
  <2>3. Len(buckets'[Home[k]]) = Len(buckets[Home[k]]) + 1
    <3>1. \A chain \in Seq(Node) : Len(<<node>> \o chain) = Len(chain) + 1
      OBVIOUS
    <3> HIDE DEF node
    <3> QED
      BY <1>1, <2>2, <3>1
  <2>4. \A e \in Buckets \ {Home[k]} : Len(buckets'[e]) = Len(buckets[e])
    BY <2>2
  <2>5. Total(buckets') = Total(buckets) + 1
    BY <1>1, <2>1, <2>3, <2>4, TotalGrows
  <2> QED
    BY <1>1, <2>1, <2>5
<1> QED
  BY <1>2, <1>3

\* For finitely many buckets, as the array of the code has: size counts the nodes of all
\* the chains, through any run of inserts, overwrites, refused inserts and flushes.
THEOREM CountIsRight ==
    ASSUME IsFiniteSet(Buckets)
    PROVE  Spec => []SizeCountsNodes
<1>1. ASSUME NEW chains, chains = [b \in Buckets |-> <<>>] PROVE Total(chains) = 0
  BY <1>1, TotalOfNone
<1>2. Init => SizeCountsNodes
  BY <1>1, CountIsTotal DEF Init
<1>3. IInv /\ SizeCountsNodes /\ [Next]_vars => SizeCountsNodes'
  <2> SUFFICES ASSUME IInv, SizeCountsNodes, [Next]_vars PROVE SizeCountsNodes'
    OBVIOUS
  <2>0. /\ size = Total(buckets)
        /\ size' = Total(buckets') => SizeCountsNodes'
    <3>1. (SizeCountsNodes <=> size = Total(buckets))'
      BY CountIsTotal, PTL
    <3> QED
      BY <3>1, CountIsTotal
  <2>1. CASE UNCHANGED storeVars
    BY <2>0, <2>1 DEF storeVars
  <2>2. CASE Flush
    BY <1>1, <2>0, <2>2 DEF Flush
  <2>3. ASSUME NEW k \in Keys, NEW v \in Vals, Overwrite(k, v) \/ Prepend(k, v)
        PROVE  SizeCountsNodes'
    BY <2>3, SetCounts DEF IInv
  <2>4. CASE Next
    <3>1. PICK req \in Request : Handle(req)
      BY <2>4 DEF Next
    <3>2. CASE req.cmd = "SET" /\ Set(req.key, req.value)
      <4>1. req.key \in Keys /\ req.value \in Vals
        BY <3>2 DEF Request, PlainCommand, KeyCommand
      <4> QED
        BY <2>1, <2>3, <3>2, <4>1 DEF Set
    <3> QED
      BY <2>1, <2>2, <3>1, <3>2
      DEF Handle, Ping, BadSet, Get, Delete, Exists, Stats, Unknown
  <2> QED
    BY <2>1, <2>4 DEF vars, storeVars
<1> QED
  BY <1>2, <1>3, Invariance, PTL DEF Spec

---------------------------------------------------------------------------
(* Keys that are found stay found. *)

\* No command but FLUSH loses a key; a SET answered OK leaves its key to be found, if
\* a node holds it whole; and a GET that finds none does not change that.
LEMMA FoundStaysFound ==
    ASSUME IInv, NEW req \in Request, Handle(req), req.cmd # "FLUSH"
    PROVE  /\ \A l \in Keys : Find(l) # NoValue => Find(l)' # NoValue
           /\ req.cmd = "SET" /\ reply' = Say("OK") /\ req.key \in Short =>
                 Find(req.key)' # NoValue
           /\ req.cmd = "GET" /\ reply' = Say("NOT_FOUND") => Find(req.key) = NoValue
<1>1. \A v \in Vals : Kept[v] # NoValue
  BY KeptAssumption, NoValueAssumption
<1>2. CASE req.cmd = "SET"
  <2> DEFINE k == req.key
             v == req.value
  <2>1. k \in Keys /\ v \in Vals
    BY <1>2 DEF Request, PlainCommand, KeyCommand
  <2>2. /\ Overwrite(k, v) \/ Prepend(k, v) \/ UNCHANGED storeVars
        /\ reply' = Say("OK") => Overwrite(k, v) \/ Prepend(k, v)
    BY <1>2 DEF Handle, Set, Say
  <2> HIDE DEF k, v
  <2>3. CASE Overwrite(k, v)
    <3>1. \A l \in Keys : Find(l)' = IF l = k THEN Kept[v] ELSE Find(l)
      BY <2>1, <2>3, OverwriteFinds DEF IInv
    <3> QED
      BY <1>1, <1>2, <2>1, <3>1 DEF k
  <2>4. CASE Prepend(k, v)
    <3>1. \A l \in Keys : Find(l)' = IF Home[l] = Home[k] /\ l = Stored[k] THEN Kept[v]
                                     ELSE Find(l)
      BY <2>1, <2>4, PrependFinds DEF IInv
    <3>2. k \in Short => Find(k)' # NoValue
      BY <1>1, <2>1, <3>1 DEF Short
    <3> QED
      BY <1>1, <1>2, <2>1, <3>1, <3>2 DEF k
  <2>5. CASE UNCHANGED storeVars /\ reply' # Say("OK")
    BY <1>2, <2>5 DEF storeVars, Find, Hits
  <2> QED
    BY <2>2, <2>3, <2>4, <2>5
<1>3. CASE req.cmd # "SET"
  <2>1. UNCHANGED storeVars
    BY <1>3 DEF Handle, Ping, BadSet, Get, Delete, Exists, Stats, Unknown
  <2>2. \A l \in Keys : Find(l)' = Find(l)
    BY <2>1 DEF storeVars, Find, Hits
  <2>3. req.cmd = "GET" => reply' = IF Find(req.key) = NoValue THEN Say("NOT_FOUND")
                                    ELSE SayValue(Find(req.key))
    BY DEF Handle, Get
  <2>4. \A v : SayValue(v) # Say("NOT_FOUND")
    <3>1. \A v : SayValue(v).tag = "VALUE"
      BY DEF SayValue
    <3>2. Say("NOT_FOUND").tag = "NOT_FOUND"
      BY DEF Say
    <3> QED
      BY <3>1, <3>2
  <2> QED
    BY <1>3, <2>2, <2>3, <2>4
<1> QED
  BY <1>2, <1>3

---------------------------------------------------------------------------
(* The table implements the map. *)

\* Module CacheMap counts as this one does.
LEMMA SameCardinality ==
    ASSUME NEW S
    PROVE  CM!Cardinality(S) = Cardinality(S)
  BY DEF CM!Cardinality, Cardinality

\* An empty table is an empty map.
LEMMA InitMap == Init => CM!Init
<1> SUFFICES ASSUME Init PROVE CM!Init
  OBVIOUS
<1>1. FindsNothing
  BY EmptyTable DEF Init, Emptied
<1>2. View = [k \in Plain |-> NoValue]
  BY <1>1, PlainKeys DEF View, FindsNothing
<1> QED
  BY <1>2 DEF Init, CM!Init, CM!Empty, CM!Say, Say

\* Look-ups that do not change leave the map as it is.
LEMMA SameMap ==
    ASSUME \A k \in Plain : Find(k)' = Find(k)
    PROVE  View' = View
  BY DEF View

\* A SET about a plain key is a Set of the map, any other one leaves it alone.
LEMMA SetMap ==
    ASSUME IInv, NEW req \in Request, req.cmd = "SET", Set(req.key, req.value),
           request' = req
    PROVE  CM!Handle(req)
<1> DEFINE k == req.key
           v == req.value
<1>1. k \in Keys /\ v \in Vals
  BY DEF Request, PlainCommand, KeyCommand
<1>2. reply' \in Reply
  BY Replies DEF Set
<1>3. CASE (Overwrite(k, v) \/ Prepend(k, v)) /\ reply' = Say("OK")
  <2>1. \A l \in Plain : Find(l)' = IF l = k THEN Kept[v] ELSE Find(l)
    BY <1>1, <1>3, SetFinds
  <2>2. CASE k \in Plain
    <3>1. View' = [View EXCEPT ![k] = Kept[v]]
      BY <2>1, <2>2 DEF View
    <3> QED
      BY <1>3, <2>2, <3>1 DEF CM!Handle, CM!Set, CM!Say, Say
  <2>3. CASE k \notin Plain
    <3>1. View' = View
      BY <2>1, <2>3, SameMap
    <3> QED
      BY <1>2, <2>3, <3>1 DEF CM!Handle, CM!Aside, CM!Reply, Reply
  <2> QED
    BY <2>2, <2>3
<1>4. CASE /\ Hits(k) = {}
           /\ reply' = Say("ERROR_MEMORY")
           /\ UNCHANGED storeVars
  <2>1. View' = View
    BY <1>4 DEF View, Find, Hits, storeVars
  <2>2. k \in Plain => View[k] = NoValue
    BY <1>4 DEF View, Find
  <2> QED
    BY <1>2, <1>4, <2>1, <2>2
    DEF CM!Handle, CM!Set, CM!Aside, CM!Say, Say, CM!Reply, Reply
<1> QED
  BY <1>3, <1>4 DEF Set

\* Each command is one of the map, with the same answer.
LEMMA NextMap == IInv /\ [Next]_vars => [CM!Next]_(CM!vars)
<1> SUFFICES ASSUME IInv, [Next]_vars PROVE [CM!Next]_(CM!vars)
  OBVIOUS
<1>1. CASE UNCHANGED vars
  <2>1. View' = View
    BY <1>1 DEF vars, View, Find, Hits
  <2> QED
    BY <1>1, <2>1 DEF vars, CM!vars
<1>2. CASE Next
  <2>1. PICK req \in Request : Handle(req)
    BY <1>2 DEF Next
  <2>2. request' = req /\ req \in CM!Request
    BY <2>1 DEF Handle, Request, PlainCommand, KeyCommand,
       CM!Request, CM!PlainCommand, CM!KeyCommand
  <2>3. CASE req.cmd = "SET" /\ Set(req.key, req.value)
    BY <2>1, <2>2, <2>3, SetMap DEF CM!Next
  <2>4. CASE req.cmd = "FLUSH" /\ Flush
    <3>1. \A k \in Keys : Find(k)' = NoValue
      BY <2>2, <2>4, FlushIInv
    <3>2. View' = [k \in Plain |-> NoValue]
      BY <3>1, PlainKeys DEF View
    <3> QED
      BY <2>2, <2>4, <3>2 DEF Flush, CM!Next, CM!Handle, CM!Flush, CM!Empty, CM!Say, Say
  <2>5. CASE UNCHANGED storeVars /\ req.cmd \notin {"SET", "FLUSH"}
    <3>1. View' = View
      BY <2>5 DEF View, Find, Hits, storeVars
    <3>2. \A l \in Keys : Find(l) \in Vals \cup {NoValue}
      BY FindType DEF IInv
    <3>3. size \in Nat
      BY DEF IInv, TypeOK
    <3>4. CASE \/ req.cmd = "PING" /\ Ping
               \/ req.cmd = "SET_NO_VALUE" /\ BadSet
               \/ req.cmd = "UNKNOWN" /\ Unknown
      <4>1. reply' \in CM!Reply
        BY <3>4, Replies DEF Ping, BadSet, Unknown, CM!Reply, Reply
      <4> QED
        BY <2>2, <3>1, <3>4, <4>1 DEF CM!Next, CM!Handle, CM!Aside
    <3>5. CASE req.cmd = "STATS" /\ Stats
      <4>1. CM!Mapped = FoundKeys
        BY DEF CM!Mapped, FoundKeys, View
      <4>2. size >= Cardinality(CM!Mapped)
        BY <3>3, <4>1, FS_CardinalityType DEF IInv, FoundAreCounted
      <4>3. reply' \in [tag : {"KEYS"}, keys : Nat] /\ reply'.keys = size
        BY <3>3, <3>5 DEF Stats, SayKeys
      <4>4. CM!Stats
        BY <3>1, <4>2, <4>3, SameCardinality DEF CM!Stats
      <4> QED
        BY <2>2, <3>5, <4>4 DEF CM!Next, CM!Handle
    <3>6. CASE req.cmd \in KeyCommand /\ req.key \notin Plain
               /\ (Get(req.key) \/ Delete(req.key) \/ Exists(req.key))
      <4>1. req.key \in Keys
        BY <3>6 DEF Request, PlainCommand, KeyCommand
      <4>2. reply' \in CM!Reply
        BY <3>2, <3>6, <4>1, Replies DEF Get, Delete, Exists, CM!Reply, Reply
      <4> QED
        BY <2>2, <3>1, <3>6, <4>2 DEF KeyCommand, CM!KeyCommand, CM!Next, CM!Handle, CM!Aside
    <3>7. CASE req.cmd \in KeyCommand /\ req.key \in Plain
      <4>1. View[req.key] = Find(req.key)
        BY <3>7 DEF View
      <4>2. req.key \in CM!Mapped <=> Find(req.key) # NoValue
        BY <3>7, <4>1 DEF CM!Mapped
      <4>3. CASE req.cmd = "GET" /\ Get(req.key)
        BY <2>2, <3>1, <3>7, <4>1, <4>2, <4>3
        DEF Get, CM!Next, CM!Handle, CM!Get, CM!Say, CM!SayValue, Say, SayValue
      <4>4. CASE req.cmd = "EXISTS" /\ Exists(req.key)
        BY <2>2, <3>1, <3>7, <4>1, <4>2, <4>4
        DEF Exists, CM!Next, CM!Handle, CM!Exists, CM!Say, Say
      <4>5. CASE req.cmd = "DELETE" /\ Delete(req.key)
        BY <2>2, <3>1, <3>7, <4>5
        DEF Delete, CM!Next, CM!Handle, CM!Delete, CM!Say, Say
      <4> QED
        BY <2>1, <3>7, <4>3, <4>4, <4>5 DEF Handle, KeyCommand
    <3> QED
      BY <2>1, <2>5, <3>4, <3>5, <3>6, <3>7 DEF Handle, KeyCommand
  <2> QED
    BY <2>1, <2>3, <2>4, <2>5
    DEF Handle, Ping, BadSet, Get, Delete, Exists, Stats, Unknown
<1> QED
  BY <1>1, <1>2

\* For the plain keys the table is a map, with every answer the same; of a DELETE
\* only the answer counts, its effect is left open.
THEOREM PlainKeysAreMap == Spec => PlainKeysFormMap
<1> QED
  BY InitMap, NextMap, Invariance, PTL DEF Spec, PlainKeysFormMap, CM!Spec
=============================================================================
