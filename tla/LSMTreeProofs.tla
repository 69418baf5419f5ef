--------------------------- MODULE LSMTreeProofs ---------------------------
(***************************************************************************)
(* Safety of the LSM tree for every set of keys and values, every memtable *)
(* size and every number of SSTables.  First what flush, compaction, save  *)
(* and load do to the tables, then the invariants, what a get finds, the   *)
(* refinement of the key-value store, and the loop of module BinarySearch. *)
(***************************************************************************)
EXTENDS LSMTree, BinarySearch, SequenceTheorems, FiniteSetTheorems,
        WellFoundedInduction, TLAPS

---------------------------------------------------------------------------
(* Tables *)

\* The fields of a pair; keys are compared as integers.
LEMMA PairFields ==
    ASSUME NEW p \in Pair
    PROVE  p.key \in Keys /\ p.key \in Nat /\ p.value \in Vals
BY KeysAssumption DEF Pair

\* Sorting rearranges: same length, same pairs, in key order.
LEMMA SortsOfRearrange ==
    ASSUME NEW s \in Table, NEW t \in SortsOf(s)
    PROVE  /\ t \in Table
           /\ Len(t) = Len(s)
           /\ Range(t) = Range(s)
           /\ Sorted(t)
<1>1. PICK p \in Bijection(DOMAIN s, DOMAIN s) : t = [i \in DOMAIN s |-> s[p[i]]]
  BY DEF SortsOf
<1>2. p \in [DOMAIN s -> DOMAIN s] /\ \A j \in DOMAIN s : \E i \in DOMAIN s : p[i] = j
  BY DEF Bijection, Surjection, Injection
<1>3. DOMAIN s = 1..Len(s) /\ Len(s) \in Nat /\ \A i \in DOMAIN s : s[i] \in Pair
  BY DEF Table
<1>4. t \in Table /\ Len(t) = Len(s) /\ DOMAIN t = DOMAIN s
  <2>1. t \in [1..Len(s) -> Pair]
    BY <1>1, <1>2, <1>3
  <2> QED
    BY <2>1, <1>3 DEF Table
<1>5. Range(t) = Range(s)
  BY <1>1, <1>2, <1>4 DEF Range
<1> QED
  BY <1>4, <1>5 DEF SortsOf

\* A sequence of tables has finitely many keys.
LEMMA FinitelyManyKeys ==
    ASSUME NEW ts \in Seq(Table)
    PROVE  IsFiniteSet(KeysIn(AllPairs(ts)))
<1>1. \A s \in Table : IsFiniteSet(Range(s))
  <2> SUFFICES ASSUME NEW s \in Table PROVE IsFiniteSet(Range(s))
    OBVIOUS
  <2>1. Len(s) \in Nat /\ DOMAIN s = 1..Len(s) /\ s \in [DOMAIN s -> Range(s)]
    BY DEF Table, Range
  <2>2. s \in Surjection(1..Len(s), Range(s))
    BY <2>1, Zenon DEF Surjection, Range
  <2>3. \A n \in Nat : IsFiniteSet(1..n)
    BY FS_Interval
  <2> QED
    BY <2>1, <2>2, <2>3, FS_Surjection, Zenon
<1> DEFINE ranges == {Range(ts[i]) : i \in DOMAIN ts}
<1>2. IsFiniteSet(ranges)
  <2> DEFINE f == [i \in 1..Len(ts) |-> Range(ts[i])]
  <2>1. f \in Surjection(1..Len(ts), ranges) /\ Len(ts) \in Nat
    BY DEF Surjection
  <2> QED
    BY <2>1, FS_Surjection, FS_Interval
<1>3. \A r \in ranges : IsFiniteSet(r)
  BY <1>1
<1>4. IsFiniteSet(AllPairs(ts))
  BY <1>2, <1>3, FS_UNION DEF AllPairs
<1> DEFINE g == [p \in AllPairs(ts) |-> p.key]
<1>5. g \in Surjection(AllPairs(ts), KeysIn(AllPairs(ts)))
  BY DEF Surjection, KeysIn
<1> QED
  BY <1>4, <1>5, FS_Surjection

\* The entries of a table are pairs.
LEMMA RangeOfTable ==
    ASSUME NEW t \in Table
    PROVE  Range(t) \subseteq Pair
BY DEF Table, Range

\* The pairs held by a sequence of tables are pairs.
LEMMA PairsOfTables ==
    ASSUME NEW ts \in Seq(Table)
    PROVE  /\ Len(ts) \in Nat
           /\ DOMAIN ts = 1..Len(ts)
           /\ \A i \in DOMAIN ts : /\ ts[i] \in Table
                                   /\ Range(ts[i]) \subseteq Pair
                                   /\ Range(ts[i]) \subseteq AllPairs(ts)
           /\ AllPairs(ts) \subseteq Pair
BY DEF AllPairs, Table, Range

\* Compaction leaves one strictly sorted table with the same keys, and makes
\* no pair up.
LEMMA CompactionsKeepKeys ==
    ASSUME NEW ts \in Seq(Table), Len(ts) >= 2, NEW c \in Compactions(ts)
    PROVE  /\ c \in Seq(Table)
           /\ Len(c) = 1
           /\ AllPairs(c) \subseteq AllPairs(ts)
           /\ KeysIn(AllPairs(c)) = KeysIn(AllPairs(ts))
           /\ StrictlySorted(c[1])
<1> DEFINE all == AllPairs(ts)
           ks == KeysIn(all)
<1>1. PICK f \in Listings(ks), d \in [ks -> all] :
        /\ \A k \in ks : d[k].key = k
        /\ c = <<[i \in DOMAIN f |-> d[f[i]]]>>
  <2>1. ~(Len(ts) < 2)
    BY PairsOfTables
  <2> QED
    BY <2>1 DEF Compactions
<1>2. Cardinality(ks) \in Nat
  BY FinitelyManyKeys, FS_CardinalityType
<1>3. /\ f \in [1..Cardinality(ks) -> ks]
      /\ \A k \in ks : \E i \in DOMAIN f : f[i] = k
      /\ \A i, j \in DOMAIN f : i < j => f[i] < f[j]
  BY DEF Listings, Range
<1> DEFINE t == [i \in 1..Cardinality(ks) |-> d[f[i]]]
<1> HIDE DEF all, ks
<1>4. c = <<t>>
  BY <1>1, <1>3
<1>5. all \subseteq Pair
  BY PairsOfTables DEF all
<1>6. /\ t \in [1..Cardinality(ks) -> all]
      /\ \A i \in 1..Cardinality(ks) : t[i].key = f[i]
  BY <1>1, <1>3
<1>7. t \in Table
  <2>1. t \in [1..Cardinality(ks) -> Pair]
    BY <1>5, <1>6
  <2> HIDE DEF t
  <2>2. t \in Seq(Pair)
    BY <1>2, <2>1
  <2> QED
    BY <2>2 DEF Table
<1>8. StrictlySorted(t)
  BY <1>2, <1>3, <1>6 DEF StrictlySorted
<1>9. DOMAIN t = 1..Cardinality(ks)
  OBVIOUS
<1>10. Range(t) \subseteq all /\ KeysIn(Range(t)) = ks
  <2>1. Range(t) \subseteq all
    BY <1>6, <1>9 DEF Range
  <2>2. KeysIn(Range(t)) \subseteq ks
    BY <2>1 DEF KeysIn, ks
  <2>3. ks \subseteq KeysIn(Range(t))
    <3> SUFFICES ASSUME NEW k \in ks PROVE k \in KeysIn(Range(t))
      OBVIOUS
    <3>1. PICK i \in 1..Cardinality(ks) : f[i] = k
      BY <1>3
    <3>2. t[i].key = k /\ t[i] \in Range(t)
      BY <3>1, <1>6, <1>9 DEF Range
    <3> QED
      BY <3>2 DEF KeysIn
  <2> QED
    BY <2>1, <2>2, <2>3
<1> HIDE DEF t
<1>11. c \in Seq(Table) /\ Len(c) = 1 /\ c[1] = t /\ DOMAIN c = {1}
  BY <1>4, <1>7
<1>12. AllPairs(c) = Range(t)
  BY <1>11 DEF AllPairs
<1> QED
  BY <1>8, <1>10, <1>11, <1>12 DEF all, ks

\* A strictly sorted table is sorted.
LEMMA StrictlySortedIsSorted ==
    ASSUME NEW t \in Table, StrictlySorted(t)
    PROVE  Sorted(t)
<1>1. \A i \in DOMAIN t : t[i].key \in Nat
  BY PairFields DEF Table
<1> QED
  BY <1>1 DEF StrictlySorted, Sorted

\* A flush adds the memtable as the newest table, keeps the number of tables
\* within bounds, drops no key and makes no pair up.
LEMMA FlushesKeepKeys ==
    ASSUME NEW m \in Table, NEW ts \in Seq(Table), Len(ts) <= MaxSSTables,
           NEW new \in Flushes(m, ts)
    PROVE  /\ new \in Seq(Table)
           /\ Len(new) \in 1..MaxSSTables
           /\ AllPairs(new) \subseteq Range(m) \cup AllPairs(ts)
           /\ KeysIn(AllPairs(new)) = KeysIn(Range(m) \cup AllPairs(ts))
           /\ /\ Len(m) <= 1
              /\ \A i \in DOMAIN ts : StrictlySorted(ts[i])
              => \A i \in DOMAIN new : StrictlySorted(new[i])
           /\ (\A i \in DOMAIN ts : Sorted(ts[i])) => \A i \in DOMAIN new : Sorted(new[i])
<1>1. PICK base \in (IF Len(ts) >= MaxSSTables THEN Compactions(ts) ELSE {ts}),
           t \in SortsOf(m) : new = Append(base, t)
  BY DEF Flushes
<1>2. /\ base \in Seq(Table)
      /\ Len(base) < MaxSSTables
      /\ AllPairs(base) \subseteq AllPairs(ts)
      /\ KeysIn(AllPairs(base)) = KeysIn(AllPairs(ts))
      /\ (\A i \in DOMAIN ts : StrictlySorted(ts[i]))
           => \A i \in DOMAIN base : StrictlySorted(base[i])
      /\ (\A i \in DOMAIN ts : Sorted(ts[i])) => \A i \in DOMAIN base : Sorted(base[i])
  <2>1. CASE Len(ts) >= MaxSSTables
    <3>1. Len(ts) >= 2 /\ base \in Compactions(ts)
      BY <2>1, <1>1, SizesAssumption, PairsOfTables
    <3>2. /\ base \in Seq(Table)
          /\ Len(base) = 1
          /\ AllPairs(base) \subseteq AllPairs(ts)
          /\ KeysIn(AllPairs(base)) = KeysIn(AllPairs(ts))
          /\ StrictlySorted(base[1])
      BY <3>1, CompactionsKeepKeys
    <3>3. base[1] \in Table
      <4>1. DOMAIN base = 1..1
        BY <3>2, PairsOfTables
      <4> QED
        BY <3>2, <4>1, PairsOfTables
    <3>4. Sorted(base[1])
      BY <3>2, <3>3, StrictlySortedIsSorted
    <3> QED
      BY <3>2, <3>4, SizesAssumption
  <2>2. CASE ~(Len(ts) >= MaxSSTables)
    BY <2>2, <1>1, SizesAssumption, PairsOfTables
  <2> QED
    BY <2>1, <2>2
<1>3. /\ t \in Table
      /\ Len(t) = Len(m)
      /\ Range(t) = Range(m)
      /\ Sorted(t)
  BY SortsOfRearrange
<1>4. /\ new \in Seq(Table)
      /\ Len(new) = Len(base) + 1
      /\ DOMAIN new = DOMAIN base \cup {Len(base) + 1}
      /\ \A i \in DOMAIN base : new[i] = base[i]
      /\ new[Len(base) + 1] = t
  BY <1>1, <1>2, <1>3
<1>5. AllPairs(new) = AllPairs(base) \cup Range(t)
  BY <1>4 DEF AllPairs
<1>6. Len(m) <= 1 => StrictlySorted(t)
  BY <1>3 DEF StrictlySorted, Table
<1>7. KeysIn(AllPairs(new)) = KeysIn(Range(m) \cup AllPairs(ts))
  BY <1>2, <1>3, <1>5 DEF KeysIn
<1> QED
  BY <1>2, <1>3, <1>4, <1>5, <1>6, <1>7, SizesAssumption

---------------------------------------------------------------------------
(* The search of a table. *)

\* The equation of Search, for the part of table t between the positions i[1] and
\* i[2], in terms of what f is for shorter parts.
Spans(t) == (1..(Len(t) + 1)) \X (0..Len(t))
MidOf(i) == i[1] + (i[2] - i[1]) \div 2
Seek(f, t, k, i) ==
    IF i[1] > i[2] THEN 0
    ELSE IF t[MidOf(i)].key = k THEN MidOf(i)
    ELSE IF t[MidOf(i)].key < k THEN f[<<MidOf(i) + 1, i[2]>>]
    ELSE f[<<i[1], MidOf(i) - 1>>]

\* A set of naturals has a least element.
LEMMA LeastExists ==
    ASSUME NEW S, S \subseteq Nat, S # {}
    PROVE  \E x \in S : \A y \in S : x <= y
<1> DEFINE less == OpToRel(<, Nat)
<1>1. \E x \in S : \A y \in S : ~(<<y, x>> \in less)
  <2>1. IsWellFoundedOn(less, Nat)
    BY NatLessThanWellFounded
  <2> HIDE DEF less
  <2> QED
    BY <2>1, WFMin
<1>2. PICK x \in S : \A y \in S : ~(<<y, x>> \in less)
  BY <1>1
<1>3. ASSUME NEW y \in S PROVE x <= y
  <2>1. x \in Nat /\ y \in Nat
    OBVIOUS
  <2>2. ~(y < x)
    BY <1>2, <2>1 DEF OpToRel
  <2> QED
    BY <2>1, <2>2
<1> QED
  BY <1>3

\* The middle lies inside, and leaves shorter parts on both sides.
LEMMA MiddleOfSpan ==
    ASSUME NEW t, Len(t) \in Nat, NEW i \in Spans(t), i[1] <= i[2]
    PROVE  /\ i[1] \in Nat /\ i[2] \in Nat /\ MidOf(i) \in Nat
           /\ i[1] <= MidOf(i) /\ MidOf(i) <= i[2] /\ MidOf(i) \in 1..Len(t)
           /\ <<MidOf(i) + 1, i[2]>> \in Spans(t)
           /\ <<i[1], MidOf(i) - 1>> \in Spans(t)
<1>1. i[1] \in 1..(Len(t) + 1) /\ i[2] \in 0..Len(t)
  BY DEF Spans
<1>2. MidOf(i) \in Int /\ i[1] <= MidOf(i) /\ MidOf(i) <= i[2]
  BY <1>1 DEF MidOf
<1>3. MidOf(i) + 1 \in 1..(Len(t) + 1) /\ MidOf(i) - 1 \in 0..Len(t)
  BY <1>1, <1>2
<1> QED
  BY <1>1, <1>2, <1>3 DEF Spans

\* What a search of a part gives depends on the searches of shorter parts only.
LEMMA SeekShorter ==
    ASSUME NEW t, Len(t) \in Nat, NEW k, NEW i \in Spans(t), NEW f, NEW g,
           \A j \in Spans(t) : j[2] - j[1] < i[2] - i[1] => g[j] = f[j]
    PROVE  Seek(g, t, k, i) = Seek(f, t, k, i)
<1>1. i[1] \in Nat /\ i[2] \in Nat
  BY DEF Spans
<1>2. CASE i[1] > i[2]
  BY <1>2 DEF Seek
<1>3. CASE i[1] <= i[2]
  <2> DEFINE m == MidOf(i)
  <2>1. /\ m \in Nat /\ i[1] <= m /\ m <= i[2]
        /\ <<m + 1, i[2]>> \in Spans(t) /\ <<i[1], m - 1>> \in Spans(t)
    BY <1>3, MiddleOfSpan
  <2> HIDE DEF m
  <2>2. i[2] - (m + 1) < i[2] - i[1] /\ (m - 1) - i[1] < i[2] - i[1]
    BY <1>1, <2>1
  <2>3. g[<<m + 1, i[2]>>] = f[<<m + 1, i[2]>>] /\ g[<<i[1], m - 1>>] = f[<<i[1], m - 1>>]
    BY <2>1, <2>2
  <2> QED
    BY <2>3 DEF Seek, m
<1> QED
  BY <1>1, <1>2, <1>3

\* There is a function that the equation defines, for a table of any length.
LEMMA SeekExists ==
    ASSUME NEW t, Len(t) \in Nat, NEW k
    PROVE  \E f : f = [i \in Spans(t) |-> Seek(f, t, k, i)]
<1> DEFINE Solves(f, n) == \A i \in Spans(t) : i[2] - i[1] < n => f[i] = Seek(f, t, k, i)
           unsolved == {n \in Nat : ~ \E f : Solves(f, n)}
<1>1. \A i \in Spans(t) : i[1] \in Nat /\ i[2] \in Nat /\ i[2] - i[1] < Len(t)
  BY DEF Spans
<1>2. unsolved = {}
  <2> SUFFICES ASSUME unsolved # {} PROVE FALSE
    OBVIOUS
  <2>1. PICK n \in unsolved : \A m \in unsolved : n <= m
    <3>1. unsolved \subseteq Nat
      OBVIOUS
    <3> HIDE DEF unsolved
    <3> QED
      BY <3>1, LeastExists
  <2>2. CASE n = 0
    <3>1. PICK f : f = [i \in Spans(t) |-> 0]
      OBVIOUS
    <3>2. ASSUME NEW i \in Spans(t), i[2] - i[1] < 0 PROVE f[i] = Seek(f, t, k, i)
      <4>1. i[1] \in Nat /\ i[2] \in Nat
        BY <1>1
      <4>2. i[1] > i[2]
        <5>1. \A a, b \in Nat : a - b < 0 => b > a
          OBVIOUS
        <5> QED
          BY <3>2, <4>1, <5>1, Zenon
      <4> QED
        BY <3>1, <4>2 DEF Seek
    <3> QED
      BY <2>1, <2>2, <3>2
  <2>3. CASE n # 0
    <3>1. n - 1 \in Nat /\ n - 1 \notin unsolved
      BY <2>1, <2>3
    <3>2. PICK f : Solves(f, n - 1)
      BY <3>1
    <3>3. PICK g : g = [i \in Spans(t) |-> IF i[2] - i[1] < n - 1 THEN f[i]
                                          ELSE Seek(f, t, k, i)]
      OBVIOUS
    <3>4. ASSUME NEW i \in Spans(t), i[2] - i[1] < n PROVE g[i] = Seek(g, t, k, i)
      <4>1. ASSUME NEW j \in Spans(t), j[2] - j[1] < i[2] - i[1] PROVE g[j] = f[j]
        <5>1. j[2] - j[1] < n - 1
          <6>1. /\ i[1] \in Nat /\ i[2] \in Nat /\ j[1] \in Nat /\ j[2] \in Nat
                /\ n \in Nat
            BY <1>1, <2>1
          <6>2. \A a, b, c, d, e \in Nat : a - b < c - d /\ c - d < e => a - b < e - 1
            OBVIOUS
          <6> QED
            BY <3>4, <4>1, <6>1, <6>2, Zenon
        <5> QED
          BY <3>3, <5>1
      <4>2. Seek(g, t, k, i) = Seek(f, t, k, i)
        BY <4>1, SeekShorter
      <4>3. g[i] = Seek(f, t, k, i)
        BY <3>2, <3>3
      <4> QED
        BY <4>2, <4>3
    <3> QED
      BY <2>1, <3>4
  <2> QED
    BY <2>2, <2>3
<1>3. PICK f : Solves(f, Len(t))
  BY <1>2
<1>4. PICK g : g = [i \in Spans(t) |-> f[i]]
  OBVIOUS
<1>5. ASSUME NEW i \in Spans(t) PROVE g[i] = Seek(g, t, k, i)
  <2>1. g[i] = Seek(f, t, k, i)
    BY <1>1, <1>3, <1>4
  <2>2. Seek(g, t, k, i) = Seek(f, t, k, i)
    BY <1>4, SeekShorter
  <2> QED
    BY <2>1, <2>2
<1>6. g = [i \in Spans(t) |-> Seek(g, t, k, i)]
  BY <1>4, <1>5
<1> QED
  BY <1>6

\* Search starts with the whole table, and its searches of the parts satisfy the
\* equation.
LEMMA SearchUnfolds ==
    ASSUME NEW t, Len(t) \in Nat, NEW k
    PROVE  \E f : /\ Search(t, k) = f[<<1, Len(t)>>]
                  /\ \A i \in Spans(t) : f[i] = Seek(f, t, k, i)
<1> DEFINE f == CHOOSE g : g = [i \in Spans(t) |-> Seek(g, t, k, i)]
<1>1. Search(t, k) = f[<<1, Len(t)>>]
  BY DEF Search, Spans, Seek, MidOf
<1>2. f = [i \in Spans(t) |-> Seek(f, t, k, i)]
  BY SeekExists
<1> HIDE DEF f
<1>3. \A i \in Spans(t) : f[i] = Seek(f, t, k, i)
  <2>1. PICK h : h = [i \in Spans(t) |-> Seek(f, t, k, i)]
    OBVIOUS
  <2>2. h = f /\ \A i \in Spans(t) : h[i] = Seek(f, t, k, i)
    BY <1>2, <2>1
  <2> QED
    BY <2>2
<1> QED
  BY <1>1, <1>3

\* A search gives a position that has the key, or 0; and it finds the key in a
\* table that is sorted, with or without repeated keys.
LEMMA SearchResult ==
    ASSUME NEW t, Len(t) \in Nat, \A i \in 1..Len(t) : t[i].key \in Int, NEW k \in Int
    PROVE  /\ Search(t, k) \in 0..Len(t)
           /\ Search(t, k) # 0 => t[Search(t, k)].key = k
           /\ Sorted(t) /\ DOMAIN t = 1..Len(t) /\ (\E i \in 1..Len(t) : t[i].key = k)
                => Search(t, k) # 0
<1> DEFINE sorted == Sorted(t) /\ DOMAIN t = 1..Len(t)
<1>1. PICK f : /\ Search(t, k) = f[<<1, Len(t)>>]
               /\ \A i \in Spans(t) : f[i] = Seek(f, t, k, i)
  BY SearchUnfolds
<1> DEFINE Right(i) ==
              /\ f[i] \in 0..Len(t)
              /\ f[i] # 0 => t[f[i]].key = k
              /\ sorted /\ (\E j \in 1..Len(t) : i[1] <= j /\ j <= i[2] /\ t[j].key = k)
                   => f[i] # 0
           wrong == {n \in Nat : \E i \in Spans(t) : n = i[2] - i[1] /\ ~Right(i)}
<1>2. \A i \in Spans(t) : i[1] \in Nat /\ i[2] \in Nat
  BY DEF Spans
<1>3. ASSUME NEW i \in Spans(t), i[1] > i[2] PROVE Right(i)
  <2>1. f[i] = 0
    BY <1>1, <1>3 DEF Seek
  <2>2. \A j \in 1..Len(t) : ~(i[1] <= j /\ j <= i[2])
    BY <1>2, <1>3
  <2> QED
    BY <2>1, <2>2
<1>4. ASSUME NEW i \in Spans(t), i[1] <= i[2],
             \A j \in Spans(t) : j[2] - j[1] < i[2] - i[1] => Right(j)
      PROVE  Right(i)
  <2> DEFINE m == MidOf(i)
             up == <<m + 1, i[2]>>
             down == <<i[1], m - 1>>
  <2>1. /\ i[1] \in Nat /\ i[2] \in Nat /\ m \in Nat
        /\ i[1] <= m /\ m <= i[2] /\ m \in 1..Len(t)
        /\ up \in Spans(t) /\ down \in Spans(t)
    BY <1>4, MiddleOfSpan
  <2>2. f[i] = IF t[m].key = k THEN m ELSE IF t[m].key < k THEN f[up] ELSE f[down]
    BY <1>1, <1>4, <2>1 DEF Seek
  <2>3. /\ up[1] = m + 1 /\ up[2] = i[2] /\ down[1] = i[1] /\ down[2] = m - 1
    OBVIOUS
  <2> HIDE DEF m, up, down
  <2>4. Right(up) /\ Right(down)
    <3>1. i[2] - (m + 1) < i[2] - i[1] /\ (m - 1) - i[1] < i[2] - i[1]
      BY <2>1
    <3>2. up[2] - up[1] < i[2] - i[1] /\ down[2] - down[1] < i[2] - i[1]
      BY <2>3, <3>1
    <3> QED
      BY <1>4, <2>1, <3>2
  <2>5. sorted => \A j \in 1..Len(t) : /\ j < m => t[j].key <= t[m].key
                                       /\ m < j => t[m].key <= t[j].key
    BY <2>1 DEF Sorted
  <2>6. CASE t[m].key = k
    BY <2>1, <2>2, <2>6
  <2>7. CASE t[m].key < k
    <3>1. f[i] = f[up]
      BY <2>2, <2>7
    <3>2. sorted => \A j \in 1..Len(t) : i[1] <= j /\ j <= i[2] /\ t[j].key = k => up[1] <= j
      BY <2>1, <2>3, <2>5, <2>7
    <3> QED
      BY <2>3, <2>4, <3>1, <3>2
  <2>8. CASE t[m].key > k
    <3>1. f[i] = f[down]
      BY <2>1, <2>2, <2>8
    <3>2. sorted => \A j \in 1..Len(t) : i[1] <= j /\ j <= i[2] /\ t[j].key = k => j <= down[2]
      BY <2>1, <2>3, <2>5, <2>8
    <3> QED
      BY <2>3, <2>4, <3>1, <3>2
  <2>9. t[m].key \in Int
    BY <2>1
  <2> QED
    BY <2>6, <2>7, <2>8, <2>9
<1> HIDE DEF Right
<1>5. wrong = {}
  <2> SUFFICES ASSUME wrong # {} PROVE FALSE
    OBVIOUS
  <2>1. PICK n \in wrong : \A m \in wrong : n <= m
    <3>1. wrong \subseteq Nat
      OBVIOUS
    <3> HIDE DEF wrong
    <3> QED
      BY <3>1, LeastExists
  <2>2. PICK i \in Spans(t) : n = i[2] - i[1] /\ ~Right(i)
    BY <2>1
  <2>3. ASSUME NEW j \in Spans(t), j[2] - j[1] < n PROVE Right(j)
    <3>1. CASE j[1] > j[2]
      BY <1>3, <3>1
    <3>2. CASE j[1] <= j[2]
      <4>1. j[1] \in Nat /\ j[2] \in Nat /\ n \in Nat
        BY <1>2, <2>1
      <4>2. j[2] - j[1] \in Nat /\ ~(n <= j[2] - j[1])
        BY <2>3, <3>2, <4>1
      <4>3. j[2] - j[1] \notin wrong
        BY <2>1, <4>2
      <4> QED
        BY <4>2, <4>3
    <3> QED
      BY <1>2, <3>1, <3>2
  <2> QED
    BY <1>2, <1>4, <2>1, <2>2, <2>3
<1>6. <<1, Len(t)>> \in Spans(t)
  BY DEF Spans
<1>7. Right(<<1, Len(t)>>)
  <2>1. CASE 1 > Len(t)
    BY <1>3, <1>6, <2>1
  <2>2. CASE 1 <= Len(t)
    <3>1. Len(t) - 1 \in Nat /\ Len(t) - 1 \notin wrong
      BY <1>5, <2>2
    <3>2. <<1, Len(t)>>[1] = 1 /\ <<1, Len(t)>>[2] = Len(t)
      OBVIOUS
    <3> QED
      BY <1>6, <3>1, <3>2
  <2> QED
    BY <2>1, <2>2
<1> QED
  BY <1>1, <1>7 DEF Right

---------------------------------------------------------------------------
(* The data file *)

Entry == [size : Nat, pairs : Table]

FileOK(f) ==
    /\ f.count \in 0..MaxSSTables
    /\ f.tables \in Seq(Entry)
    /\ Len(f.tables) <= f.count

FileSorted(f) == \A i \in DOMAIN f.tables : StrictlySorted(f.tables[i].pairs)
FileInOrder(f) == \A i \in DOMAIN f.tables : Sorted(f.tables[i].pairs)

\* A complete save is a file that holds the tables as they are.
LEMMA ImageHoldsTables ==
    ASSUME NEW ts \in Seq(Table), Len(ts) <= MaxSSTables
    PROVE  /\ FileOK(Image(ts))
           /\ IsWhole(Image(ts))
           /\ DOMAIN Image(ts).tables = DOMAIN ts
           /\ \A i \in DOMAIN ts : /\ Image(ts).tables[i].pairs = ts[i]
                                   /\ Image(ts).tables[i].size = Len(ts[i])
           /\ FilePairs(Image(ts)) = AllPairs(ts)
           /\ FileTables(Image(ts)) = ts
<1>1. /\ Len(ts) \in Nat /\ DOMAIN ts = 1..Len(ts)
      /\ \A i \in DOMAIN ts : ts[i] \in Table /\ Len(ts[i]) \in Nat
  BY DEF Table
<1> DEFINE es == [i \in DOMAIN ts |-> [size |-> Len(ts[i]), pairs |-> ts[i]]]
<1>2. Image(ts).count = Len(ts) /\ Image(ts).tables = es
  BY DEF Image
<1>3. /\ DOMAIN es = DOMAIN ts
      /\ \A i \in DOMAIN ts : es[i] \in Entry /\ es[i].pairs = ts[i]
                              /\ es[i].size = Len(ts[i])
  BY <1>1 DEF Entry
<1> HIDE DEF es
<1>4. es \in Seq(Entry) /\ Len(es) = Len(ts)
  <2>1. es \in [1..Len(ts) -> Entry]
    <3>1. es = [i \in DOMAIN ts |-> es[i]]
      BY DEF es
    <3> QED
      BY <3>1, <1>1, <1>3
  <2> QED
    BY <1>1, <2>1
<1>5. FileOK(Image(ts))
  BY <1>1, <1>2, <1>4, SizesAssumption DEF FileOK
<1>6. IsWhole(Image(ts))
  BY <1>2, <1>3, <1>4 DEF IsWhole
<1>7. FilePairs(Image(ts)) = AllPairs(ts)
  BY <1>2, <1>3 DEF FilePairs, FileTables, AllPairs
<1>8. FileTables(Image(ts)) = ts
  <2>1. ts = [i \in DOMAIN ts |-> ts[i]]
    BY <1>1
  <2> QED
    BY <2>1, <1>2, <1>3 DEF FileTables
<1> QED
  BY <1>2, <1>3, <1>5, <1>6, <1>7, <1>8

\* A file whose entries are those tables holds those tables.
LEMMA TablesByEntry ==
    ASSUME NEW ts \in Seq(Table), NEW f, DOMAIN f.tables = DOMAIN ts,
           \A i \in DOMAIN ts : f.tables[i].pairs = ts[i]
    PROVE  FileTables(f) = ts
<1>1. ts = [i \in DOMAIN ts |-> ts[i]]
  OBVIOUS
<1> QED
  BY <1>1 DEF FileTables

\* A save cut short leaves a file of the same tables, each whole or shortened:
\* no pair is made up, no order is disturbed, and a file that looks whole
\* is empty or has all of the tables.
LEMMA PrefixesHoldTables ==
    ASSUME NEW ts \in Seq(Table), Len(ts) <= MaxSSTables, NEW f \in Prefixes(ts)
    PROVE  /\ FileOK(f)
           /\ FilePairs(f) \subseteq AllPairs(ts)
           /\ (\A i \in DOMAIN ts : StrictlySorted(ts[i])) => FileSorted(f)
           /\ (\A i \in DOMAIN ts : Sorted(ts[i])) => FileInOrder(f)
           /\ IsWhole(f) => f = EmptyImage \/ FileTables(f) = ts
<1> DEFINE es == Image(ts).tables
<1>1. /\ Len(ts) \in Nat /\ DOMAIN ts = 1..Len(ts)
      /\ \A i \in DOMAIN ts : ts[i] \in Table /\ Len(ts[i]) \in Nat
  BY DEF Table
<1>2. /\ es \in Seq(Entry) /\ DOMAIN es = 1..Len(ts) /\ Len(es) = Len(ts)
      /\ \A i \in 1..Len(ts) : es[i].pairs = ts[i]
  BY <1>1, ImageHoldsTables DEF FileOK
<1>3. CASE f = EmptyImage
  <2>1. <<>> \in Seq(Table) /\ Len(<<>>) <= MaxSSTables /\ DOMAIN <<>> = {}
    BY SizesAssumption
  <2>2. FileOK(f) /\ DOMAIN f.tables = {}
    BY <1>3, <2>1, ImageHoldsTables DEF EmptyImage
  <2> QED
    BY <1>3, <2>2 DEF FilePairs, FileTables, AllPairs, FileSorted, FileInOrder
<1>4. CASE f = Image(ts)
  BY <1>1, <1>4, ImageHoldsTables DEF FileSorted, FileInOrder
<1>5. ASSUME NEW n \in 0..Len(ts),
             f = [count |-> Len(ts), tables |-> SubSeq(es, 1, n)]
      PROVE  /\ FileOK(f)
             /\ FilePairs(f) \subseteq AllPairs(ts)
             /\ (\A i \in DOMAIN ts : StrictlySorted(ts[i])) => FileSorted(f)
             /\ (\A i \in DOMAIN ts : Sorted(ts[i])) => FileInOrder(f)
             /\ IsWhole(f) => FileTables(f) = ts
  <2>1. /\ f.count = Len(ts)
        /\ f.tables \in Seq(Entry) /\ Len(f.tables) = n
        /\ DOMAIN f.tables = 1..n
        /\ \A i \in 1..n : f.tables[i] = es[i]
    BY <1>1, <1>2, <1>5, SubSeqProperties
  <2>2. \A i \in 1..n : i \in DOMAIN ts /\ f.tables[i].pairs = ts[i]
    <3>1. 1..n \subseteq 1..Len(ts)
      BY <1>1
    <3> HIDE DEF es
    <3> QED
      BY <1>1, <1>2, <2>1, <3>1
  <2>3. FileOK(f)
    BY <1>1, <2>1, SizesAssumption DEF FileOK
  <2>4. FilePairs(f) \subseteq AllPairs(ts)
    BY <2>1, <2>2 DEF FilePairs, FileTables, AllPairs
  <2>5. IsWhole(f) => FileTables(f) = ts
    <3>1. IsWhole(f) => DOMAIN f.tables = DOMAIN ts
      BY <1>1, <2>1 DEF IsWhole
    <3> QED
      BY <1>1, <2>1, <2>2, <3>1, TablesByEntry
  <2> QED
    BY <2>1, <2>2, <2>3, <2>4, <2>5 DEF FileSorted, FileInOrder
<1>6. ASSUME NEW n \in DOMAIN ts, NEW m \in 0..Len(ts[n]),
             f = [count |-> Len(ts),
                  tables |-> Append(SubSeq(es, 1, n - 1),
                                    [size |-> Len(ts[n]), pairs |-> SubSeq(ts[n], 1, m)])]
      PROVE  /\ FileOK(f)
             /\ FilePairs(f) \subseteq AllPairs(ts)
             /\ (\A i \in DOMAIN ts : StrictlySorted(ts[i])) => FileSorted(f)
             /\ (\A i \in DOMAIN ts : Sorted(ts[i])) => FileInOrder(f)
             /\ IsWhole(f) => FileTables(f) = ts
  <2> DEFINE last == SubSeq(ts[n], 1, m)
  <2>1. /\ last \in Table /\ Len(last) = m /\ DOMAIN last = 1..m
        /\ 1..m \subseteq DOMAIN ts[n]
        /\ \A j \in 1..m : last[j] = ts[n][j]
    BY <1>1, SubSeqProperties DEF Table
  <2>2. /\ SubSeq(es, 1, n - 1) \in Seq(Entry) /\ Len(SubSeq(es, 1, n - 1)) = n - 1
        /\ \A i \in 1..(n - 1) : SubSeq(es, 1, n - 1)[i] = es[i]
    BY <1>1, <1>2, SubSeqProperties
  <2> DEFINE e == [size |-> Len(ts[n]), pairs |-> last]
  <2>3. e \in Entry /\ e.pairs = last
    BY <1>1, <2>1 DEF Entry
  <2>4. f.count = Len(ts) /\ f.tables = Append(SubSeq(es, 1, n - 1), e)
    BY <1>6
  <2> HIDE DEF e, last, es
  <2>5. /\ f.tables \in Seq(Entry) /\ Len(f.tables) = n /\ DOMAIN f.tables = 1..n
        /\ \A i \in 1..(n - 1) : f.tables[i] = es[i]
        /\ f.tables[n] = e
    BY <1>1, <2>2, <2>3, <2>4, AppendProperties
  <2>6. \A i \in 1..n : /\ i \in DOMAIN ts
                        /\ f.tables[i].pairs = IF i = n THEN last ELSE ts[i]
    BY <1>1, <1>2, <2>3, <2>5
  <2>7. FileOK(f)
    BY <1>1, <2>4, <2>5, SizesAssumption DEF FileOK
  <2>8. Range(last) \subseteq Range(ts[n])
    BY <2>1 DEF Range
  <2>9. StrictlySorted(ts[n]) => StrictlySorted(last)
    BY <2>1 DEF StrictlySorted
  <2>10. FilePairs(f) \subseteq AllPairs(ts)
    BY <2>5, <2>6, <2>8 DEF FilePairs, FileTables, AllPairs
  <2>11. (\A i \in DOMAIN ts : StrictlySorted(ts[i])) => FileSorted(f)
    BY <2>5, <2>6, <2>9 DEF FileSorted
  <2>12. Sorted(ts[n]) => Sorted(last)
    BY <2>1 DEF Sorted
  <2>13. (\A i \in DOMAIN ts : Sorted(ts[i])) => FileInOrder(f)
    BY <2>5, <2>6, <2>12 DEF FileInOrder
  <2>14. IsWhole(f) => FileTables(f) = ts
    <3> SUFFICES ASSUME IsWhole(f) PROVE FileTables(f) = ts
      OBVIOUS
    <3>1. n = Len(ts) /\ DOMAIN f.tables = DOMAIN ts
      BY <1>1, <2>4, <2>5 DEF IsWhole
    <3>2. m = Len(ts[n])
      BY <2>1, <2>3, <2>5 DEF IsWhole, e
    <3>3. last = ts[n]
      BY <1>1, <2>1, <3>2 DEF Table
    <3> QED
      BY <1>1, <2>5, <2>6, <3>1, <3>3, TablesByEntry
  <2> QED
    BY <2>7, <2>10, <2>11, <2>13, <2>14
<1> QED
  BY <1>3, <1>4, <1>5, <1>6 DEF Prefixes

\* Reading an entry gives its pairs, with garbage behind them if it is cut short.
LEMMA LoadedTable ==
    ASSUME NEW e \in Entry, NEW t \in LoadedTables(e)
    PROVE  /\ t \in Table
           /\ Range(t) \subseteq Range(e.pairs) \cup Garbage
           /\ Len(e.pairs) = e.size => t = e.pairs
<1> DEFINE n == IF e.size > Len(e.pairs) THEN e.size - Len(e.pairs) ELSE 0
<1>1. e.size \in Nat /\ e.pairs \in Seq(Pair) /\ Len(e.pairs) \in Nat
  BY DEF Entry, Table
<1>2. n \in Nat /\ 1..(e.size - Len(e.pairs)) = 1..n
  BY <1>1
<1>3. PICK g \in [1..n -> Garbage] : t = e.pairs \o g
  BY <1>2 DEF LoadedTables
<1>4. Len(e.pairs) = e.size => n = 0
  BY <1>1
<1> HIDE DEF n
<1>5. g \in Seq(Pair) /\ Len(g) = n /\ \A j \in 1..n : g[j] \in Garbage
  <2>1. g \in [1..n -> Pair]
    BY <1>3, GarbageAssumption
  <2> QED
    BY <1>2, <1>3, <2>1
<1>6. n = 0 => t = e.pairs
  BY <1>1, <1>3, <1>5, EmptySeq, ConcatEmptySeq
<1>7. /\ t \in Seq(Pair)
      /\ Len(t) = Len(e.pairs) + n
      /\ DOMAIN t = 1..(Len(e.pairs) + n)
      /\ \A i \in 1..(Len(e.pairs) + n) :
           t[i] = IF i <= Len(e.pairs) THEN e.pairs[i] ELSE g[i - Len(e.pairs)]
  <2>1. \A s1, s2 \in Seq(Pair) :
          /\ s1 \o s2 \in Seq(Pair)
          /\ Len(s1 \o s2) = Len(s1) + Len(s2)
          /\ \A i \in 1..(Len(s1) + Len(s2)) :
               (s1 \o s2)[i] = IF i <= Len(s1) THEN s1[i] ELSE s2[i - Len(s1)]
    BY ConcatProperties
  <2>2. \A s \in Seq(Pair) : DOMAIN s = 1..Len(s)
    OBVIOUS
  <2> QED
    BY <1>1, <1>3, <1>5, <2>1, <2>2, Zenon
<1>8. ASSUME NEW i \in 1..(Len(e.pairs) + n)
      PROVE  t[i] \in Range(e.pairs) \cup Garbage
  <2>1. CASE i <= Len(e.pairs)
    BY <2>1, <1>1, <1>7 DEF Range
  <2>2. CASE ~(i <= Len(e.pairs))
    BY <2>2, <1>1, <1>2, <1>5, <1>7
  <2> QED
    BY <2>1, <2>2
<1>9. Range(t) \subseteq Range(e.pairs) \cup Garbage
  BY <1>7, <1>8 DEF Range
<1> QED
  BY <1>4, <1>6, <1>7, <1>9 DEF Table

\* A table that the file does not have is garbage altogether.
LEMMA StrayTable ==
    ASSUME NEW t \in StrayTables
    PROVE  t \in Table /\ Range(t) \subseteq Garbage
<1>1. PICK n \in 0..MaxGarbage : t \in [1..n -> Garbage]
  BY DEF StrayTables
<1>2. n \in Nat /\ Range(t) \subseteq Garbage /\ t \in [1..n -> Pair]
  BY <1>1, GarbageAssumption DEF Range
<1> QED
  BY <1>2 DEF Table

\* A start loads the pairs of the file, and garbage for what is missing from
\* it; a whole file is loaded as it is.
LEMMA LoadsHoldFile ==
    ASSUME NEW f, FileOK(f), NEW ts \in Loads(f)
    PROVE  /\ ts \in Seq(Table)
           /\ Len(ts) <= MaxSSTables
           /\ AllPairs(ts) \subseteq FilePairs(f) \cup Garbage
           /\ IsWhole(f) => ts = FileTables(f)
           /\ IsWhole(f) /\ FileSorted(f) => \A i \in DOMAIN ts : StrictlySorted(ts[i])
           /\ IsWhole(f) /\ FileInOrder(f) => \A i \in DOMAIN ts : Sorted(ts[i])
<1>1. /\ ts = [i \in 1..f.count |-> ts[i]]
      /\ \A i \in 1..f.count : /\ i \in DOMAIN f.tables => ts[i] \in LoadedTables(f.tables[i])
                               /\ i \notin DOMAIN f.tables => ts[i] \in StrayTables
  BY DEF Loads
<1>2. /\ f.count \in Nat /\ f.count <= MaxSSTables
      /\ \A i \in DOMAIN f.tables : f.tables[i] \in Entry
  BY SizesAssumption DEF FileOK
<1>3. \A i \in DOMAIN f.tables : Range(f.tables[i].pairs) \subseteq FilePairs(f)
  BY DEF FilePairs, FileTables, AllPairs
<1>4. ASSUME NEW i \in 1..f.count
      PROVE  ts[i] \in Table /\ Range(ts[i]) \subseteq FilePairs(f) \cup Garbage
  <2>1. CASE i \in DOMAIN f.tables
    BY <1>1, <1>2, <1>3, <2>1, LoadedTable
  <2>2. CASE i \notin DOMAIN f.tables
    BY <1>1, <2>2, StrayTable
  <2> QED
    BY <2>1, <2>2
<1>5. ts \in Seq(Table) /\ Len(ts) = f.count /\ DOMAIN ts = 1..f.count
  <2>1. ts \in [1..f.count -> Table]
    BY <1>1, <1>4
  <2> QED
    BY <1>2, <2>1
<1>6. AllPairs(ts) \subseteq FilePairs(f) \cup Garbage
  BY <1>4, <1>5 DEF AllPairs
<1>7. ASSUME IsWhole(f) PROVE ts = FileTables(f)
  <2>1. DOMAIN f.tables = 1..f.count
    BY <1>7 DEF IsWhole, FileOK
  <2>2. \A i \in DOMAIN ts : f.tables[i].pairs = ts[i]
    BY <1>1, <1>2, <1>5, <1>7, <2>1, LoadedTable DEF IsWhole
  <2> QED
    BY <1>5, <2>1, <2>2, TablesByEntry
<1> QED
  BY <1>2, <1>5, <1>6, <1>7 DEF FileSorted, FileInOrder, FileTables

---------------------------------------------------------------------------
(* The inductive invariant: besides what is stated of the tree, the same   *)
(* of the data file, from which a later start rebuilds the tree.           *)

Known(p) == p.value \in written[p.key] \/ p \in madeUp
FileKnown == \A p \in FilePairs(dataFile) : Known(p)

NoMemtableUnlessUp == phase # "up" => memtable = <<>>
NothingSavedYet == phase = "saving" => dataFile = EmptyImage
WholeUnlessTorn == ~torn => IsWhole(dataFile)
PutsAreStored == \A k \in Keys : written[k] # {} => Stored[k] = k

IInv ==
    /\ TypeOK
    /\ FileOK(dataFile)
    /\ NoMemtableUnlessUp
    /\ NothingSavedYet
    /\ WholeUnlessTorn
    /\ PutsAreStored
    /\ NothingInvented
    /\ FileKnown
    /\ NoKeyDropped
    /\ IdleMatchesDisk

\* A tree without tables holds no key and no pair.
LEMMA EmptyTree ==
    /\ <<>> \in Table /\ Len(<<>>) = 0 /\ Range(<<>>) = {}
    /\ <<>> \in Seq(Table) /\ AllPairs(<<>>) = {}
    /\ Len(<<>>) <= MaxSSTables /\ Len(<<>>) <= MemtableSize
BY SizesAssumption DEF Table, Range, AllPairs

\* A file that was never written holds no table.
LEMMA EmptyFile ==
    FileOK(EmptyImage) /\ IsWhole(EmptyImage) /\ FilePairs(EmptyImage) = {}
    /\ FileSorted(EmptyImage) /\ FileInOrder(EmptyImage)
<1>1. /\ FileOK(EmptyImage) /\ IsWhole(EmptyImage)
      /\ DOMAIN EmptyImage.tables = DOMAIN <<>>
      /\ FilePairs(EmptyImage) = {}
  BY EmptyTree, ImageHoldsTables DEF EmptyImage
<1>2. DOMAIN <<>> = {}
  OBVIOUS
<1> QED
  BY <1>1, <1>2, Zenon DEF FileSorted, FileInOrder

\* What the history makes of a put has its type.
LEMMA PutFits ==
    ASSUME NEW k \in Keys, NEW v \in Vals
    PROVE  Stored[k] \in Keys /\ Kept[v] \in Vals
BY StoredAssumption, KeptAssumption

\* The first process starts without a tree and without a file.
LEMMA InitIInv == Init => IInv
<1> SUFFICES ASSUME Init PROVE IInv
  OBVIOUS
<1>1. FileOK(dataFile) /\ IsWhole(dataFile) /\ FileKnown
  BY EmptyFile DEF Init, FileKnown
<1>2. TypeOK
  BY <1>1, EmptyTree DEF Init, TypeOK, FileOK, Entry
<1>3. NothingInvented /\ PutsAreStored
  BY EmptyTree DEF Init, NothingInvented, PutsAreStored
<1> QED
  BY <1>1, <1>2, <1>3, EmptyTree DEF Init, IInv, NoMemtableUnlessUp, NothingSavedYet,
     WholeUnlessTorn, NoKeyDropped, IdleMatchesDisk

\* What is known of the file stays known when neither it nor the history changes.
LEMMA FileStays ==
    ASSUME IInv, UNCHANGED <<dataFile, written, torn>>, madeUp \subseteq madeUp'
    PROVE  /\ FileOK(dataFile)' /\ WholeUnlessTorn' /\ PutsAreStored' /\ FileKnown'
           /\ dataFile'.count \in 0..MaxSSTables
           /\ Len(dataFile'.tables) <= dataFile'.count
           /\ dataFile'.tables \in Seq([size : Nat, pairs : Table])
<1>1. FileOK(dataFile)' /\ WholeUnlessTorn' /\ PutsAreStored'
  BY DEF IInv, FileOK, WholeUnlessTorn, IsWhole, PutsAreStored
<1>2. FileKnown'
  <2>1. FilePairs(dataFile)' = FilePairs(dataFile)
    BY DEF FilePairs, FileTables
  <2> QED
    BY <2>1 DEF IInv, FileKnown, Known
<1> QED
  BY <1>1, <1>2 DEF FileOK, Entry

\* Opening the tree loads what the file holds, or starts empty.
LEMMA OpenIInv == IInv /\ Open => IInv'
<1> SUFFICES ASSUME IInv, Open PROVE IInv'
  OBVIOUS
<1>1. /\ sstables' \in Seq(Table) /\ Len(sstables') <= MaxSSTables
      /\ AllPairs(sstables') \subseteq FilePairs(dataFile) \cup Garbage
      /\ IsWhole(dataFile) => AllPairs(sstables') = FilePairs(dataFile)
  BY LoadsHoldFile DEF IInv, Open, FilePairs
<1>2. memtable = <<>> /\ memtable' = <<>>
  BY DEF IInv, Open, NoMemtableUnlessUp
<1>3. /\ madeUp' = madeUp \cup (AllPairs(sstables') \ FilePairs(dataFile))
      /\ UNCHANGED <<dataFile, written, torn>>
  BY DEF Open
<1>4. /\ FileOK(dataFile)' /\ WholeUnlessTorn' /\ PutsAreStored' /\ FileKnown'
      /\ dataFile'.count \in 0..MaxSSTables
      /\ Len(dataFile'.tables) <= dataFile'.count
      /\ dataFile'.tables \in Seq([size : Nat, pairs : Table])
  BY <1>3, FileStays
<1>5. TypeOK'
  <2>1. madeUp' \subseteq Garbage
    BY <1>1, <1>3 DEF IInv, TypeOK
  <2> QED
    BY <2>1, <1>1, <1>2, <1>4 DEF IInv, Open, TypeOK
<1>6. NothingInvented'
  <2>1. ~torn' => madeUp' = {}
    BY <1>1, <1>3 DEF IInv, NothingInvented, WholeUnlessTorn
  <2>2. ASSUME NEW p \in AllPairs(sstables')
        PROVE  p.value \in written'[p.key] \/ p \in madeUp'
    <3>1. CASE p \in FilePairs(dataFile)
      BY <1>3, <3>1 DEF IInv, FileKnown, Known
    <3>2. CASE p \notin FilePairs(dataFile)
      BY <1>3, <3>2
    <3> QED
      BY <3>1, <3>2
  <2> QED
    BY <1>2, <2>1, <2>2, EmptyTree DEF NothingInvented
<1>7. NoKeyDropped'
  <2> SUFFICES ASSUME NEW k \in Keys, latest'[k] # NoValue
               PROVE  k \in KeysIn(AllPairs(sstables'))
    BY DEF NoKeyDropped, KeysIn
  <2>1. PICK i \in DOMAIN sstables' : [key |-> k, value |-> latest'[k]] \in Range(sstables'[i])
    BY DEF Open, IsNewest
  <2>2. [key |-> k, value |-> latest'[k]] \in AllPairs(sstables')
    BY <2>1 DEF AllPairs
  <2> QED
    BY <2>2 DEF KeysIn
<1> QED
  BY <1>2, <1>4, <1>5, <1>6, <1>7
  DEF IInv, Open, NoMemtableUnlessUp, NothingSavedYet, IdleMatchesDisk

\* What the flush inside a put or a close does to the invariant.
LEMMA FlushKeeps ==
    ASSUME IInv, Flush
    PROVE  /\ sstables' \in Seq(Table) /\ Len(sstables') <= MaxSSTables
           /\ compacted' \in BOOLEAN
           /\ \A p \in AllPairs(sstables') : Known(p)
           /\ KeysIn(AllPairs(sstables')) = KeysIn(Range(memtable) \cup AllPairs(sstables))
<1>1. /\ sstables' \in Seq(Table) /\ Len(sstables') \in 1..MaxSSTables
      /\ AllPairs(sstables') \subseteq Range(memtable) \cup AllPairs(sstables)
      /\ KeysIn(AllPairs(sstables')) = KeysIn(Range(memtable) \cup AllPairs(sstables))
  BY FlushesKeepKeys DEF IInv, TypeOK, Flush
<1>2. compacted' \in BOOLEAN
  BY DEF Flush
<1>3. \A p \in AllPairs(sstables') : Known(p)
  BY <1>1 DEF IInv, NothingInvented, Known
<1> QED
  BY <1>1, <1>2, <1>3, SizesAssumption

\* A put, with the flush and compactions it may run, keeps the invariant.
LEMMA PutIInv == ASSUME IInv, NEW k \in Keys, NEW v \in Vals, Put(k, v) PROVE IInv'
<1> DEFINE p0 == [key |-> Stored[k], value |-> Kept[v]]
<1>1. p0 \in Pair /\ p0.key = Stored[k] /\ p0.value = Kept[v] /\ Stored[k] \in Keys
  BY PutFits DEF Pair
<1>2. /\ memtable' \in Table /\ Len(memtable') <= MemtableSize
      /\ memtable' # <<>>
      /\ p0 \in Range(memtable')
      /\ Range(memtable') \subseteq Range(memtable) \cup {p0}
      /\ sstables' \in Seq(Table) /\ Len(sstables') <= MaxSSTables
      /\ compacted' \in BOOLEAN
      /\ \A p \in AllPairs(sstables') : Known(p)
      /\ KeysIn(Range(memtable) \cup AllPairs(sstables))
           \subseteq KeysIn(Range(memtable') \cup AllPairs(sstables'))
  <2>1. CASE Flush /\ memtable' = <<p0>>
    <3>1. /\ memtable' \in Table /\ Len(memtable') = 1 /\ memtable' # <<>>
          /\ Range(memtable') = {p0}
      BY <2>1, <1>1 DEF Table, Range
    <3>2. 1 <= MemtableSize
      BY SizesAssumption
    <3> QED
      BY <2>1, <3>1, <3>2, FlushKeeps DEF KeysIn
  <2>2. CASE /\ ~MemtableFull /\ memtable' = Append(memtable, p0)
             /\ UNCHANGED <<sstables, compacted>>
    <3>1. memtable \in Seq(Pair) /\ Len(memtable) \in Nat
          /\ DOMAIN memtable = 1..Len(memtable)
      BY DEF IInv, TypeOK, Table
    <3>2. /\ memtable' \in Table /\ Len(memtable') = Len(memtable) + 1
          /\ DOMAIN memtable' = 1..(Len(memtable) + 1)
          /\ \A i \in 1..Len(memtable) : memtable'[i] = memtable[i]
          /\ memtable'[Len(memtable) + 1] = p0
      BY <2>2, <3>1, <1>1 DEF Table
    <3>3. memtable' # <<>>
      BY <3>1, <3>2
    <3>4. Range(memtable') = Range(memtable) \cup {p0}
      BY <3>1, <3>2 DEF Range
    <3>5. Len(memtable') <= MemtableSize
      BY <2>2, <3>1, <3>2, SizesAssumption DEF MemtableFull
    <3>6. \A p \in AllPairs(sstables') : Known(p)
      BY <2>2 DEF IInv, NothingInvented, Known
    <3> QED
      BY <2>2, <3>2, <3>3, <3>4, <3>5, <3>6 DEF IInv, TypeOK, KeysIn
  <2> QED
    BY <2>1, <2>2 DEF Put
<1> HIDE DEF p0
<1>3. /\ written' \in [Keys -> SUBSET Vals]
      /\ \A j \in Keys : written[j] \subseteq written'[j]
      /\ \A j \in Keys : j # Stored[k] => written'[j] = written[j]
      /\ Kept[v] \in written'[Stored[k]]
  BY PutFits DEF IInv, TypeOK, Put, Record
<1>4. /\ latest' \in [Keys -> Vals \cup {NoValue}]
      /\ \A j \in Keys : j # Stored[k] => latest'[j] = latest[j]
  BY PutFits DEF IInv, TypeOK, Put, Record
<1>5. UNCHANGED <<phase, dataFile, torn, madeUp>> /\ phase = "up"
  BY DEF Put
<1>6. TypeOK'
  <2>1. /\ dataFile'.count \in 0..MaxSSTables
        /\ Len(dataFile'.tables) <= dataFile'.count
        /\ dataFile'.tables \in Seq([size : Nat, pairs : Table])
    BY <1>5 DEF IInv, TypeOK
  <2> QED
    BY <1>2, <1>3, <1>4, <1>5, <2>1 DEF IInv, TypeOK
<1>7. \A p \in Pair : Known(p) => Known(p)'
  BY <1>3, <1>5, PairFields DEF Known
<1>8. NothingInvented'
  <2>1. \A p \in AllPairs(sstables') : Known(p)'
    BY <1>2, <1>7, PairsOfTables
  <2>2. \A p \in Range(memtable) : Known(p)'
    <3>1. Range(memtable) \subseteq Pair
      BY RangeOfTable DEF IInv, TypeOK
    <3> QED
      BY <1>7, <3>1 DEF IInv, NothingInvented, Known
  <2>3. Known(p0)'
    BY <1>1, <1>3 DEF Known
  <2>4. ~torn' => madeUp' = {}
    BY <1>5 DEF IInv, NothingInvented
  <2> QED
    BY <1>2, <2>1, <2>2, <2>3, <2>4 DEF NothingInvented, Known
<1>9. FileKnown'
  <2>1. FilePairs(dataFile) \subseteq Pair
    <3> SUFFICES ASSUME NEW i \in DOMAIN dataFile.tables
                 PROVE  Range(dataFile.tables[i].pairs) \subseteq Pair
      BY DEF FilePairs, FileTables, AllPairs
    <3>1. dataFile.tables[i] \in Entry
      BY DEF IInv, FileOK
    <3>2. dataFile.tables[i].pairs \in Table
      BY <3>1 DEF Entry
    <3> QED
      BY <3>2, RangeOfTable
  <2>2. FilePairs(dataFile)' = FilePairs(dataFile)
    BY <1>5 DEF FilePairs, FileTables
  <2> QED
    BY <1>7, <2>1, <2>2 DEF IInv, FileKnown
<1>10. NoKeyDropped'
  <2> SUFFICES ASSUME NEW j \in Keys, latest'[j] # NoValue
               PROVE  j \in KeysIn(Range(memtable') \cup AllPairs(sstables'))
    BY DEF NoKeyDropped
  <2>1. CASE j = Stored[k]
    BY <2>1, <1>1, <1>2 DEF KeysIn
  <2>2. CASE j # Stored[k]
    BY <2>2, <1>2, <1>4, <1>5 DEF IInv, NoKeyDropped
  <2> QED
    BY <2>1, <2>2
<1>11. PutsAreStored'
  <2> SUFFICES ASSUME NEW j \in Keys, written'[j] # {} PROVE Stored[j] = j
    BY DEF PutsAreStored
  <2>1. CASE j = Stored[k]
    BY <2>1, StoredAssumption
  <2>2. CASE j # Stored[k]
    BY <2>2, <1>3 DEF IInv, PutsAreStored
  <2> QED
    BY <2>1, <2>2
<1>12. FileOK(dataFile)' /\ WholeUnlessTorn'
  BY <1>5 DEF IInv, FileOK, WholeUnlessTorn, IsWhole
<1> QED
  BY <1>2, <1>5, <1>6, <1>8, <1>9, <1>10, <1>11, <1>12
  DEF IInv, NoMemtableUnlessUp, NothingSavedYet, IdleMatchesDisk

\* The process ends: any file satisfying the invariant will do.
LEMMA DieIInv ==
    ASSUME IInv, phase' = "down", memtable' = <<>>, sstables' = <<>>,
           UNCHANGED <<written, latest, compacted, madeUp>>,
           torn' = (torn \/ ~IsWhole(dataFile')),
           FileOK(dataFile'),
           \A p \in FilePairs(dataFile') : Known(p)
    PROVE  IInv'
<1>1. TypeOK'
  <2>1. torn' \in BOOLEAN
    OBVIOUS
  <2>2. /\ dataFile'.count \in 0..MaxSSTables
        /\ Len(dataFile'.tables) <= dataFile'.count
        /\ dataFile'.tables \in Seq([size : Nat, pairs : Table])
    BY DEF FileOK, Entry
  <2> QED
    BY <2>1, <2>2, EmptyTree DEF IInv, TypeOK
<1>2. NothingInvented' /\ PutsAreStored'
  BY EmptyTree DEF IInv, NothingInvented, PutsAreStored
<1>3. FileOK(dataFile)' /\ WholeUnlessTorn'
  BY DEF FileOK, WholeUnlessTorn, IsWhole
<1>4. FileKnown'
  BY DEF FileKnown, FilePairs, FileTables, Known
<1> QED
  BY <1>1, <1>2, <1>3, <1>4 DEF IInv, NoMemtableUnlessUp, NothingSavedYet,
     NoKeyDropped, IdleMatchesDisk

\* The flush a close begins with keeps the invariant.
LEMMA CloseBeginIInv == IInv /\ CloseBegin => IInv'
<1> SUFFICES ASSUME IInv, CloseBegin PROVE IInv'
  OBVIOUS
<1>1. /\ sstables' \in Seq(Table) /\ Len(sstables') <= MaxSSTables
      /\ compacted' \in BOOLEAN
      /\ \A p \in AllPairs(sstables') : Known(p)
      /\ KeysIn(AllPairs(sstables')) = KeysIn(Range(memtable) \cup AllPairs(sstables))
  BY FlushKeeps DEF CloseBegin
<1>2. FileOK(dataFile') /\ IsWhole(dataFile') /\ FilePairs(dataFile') = {}
  BY EmptyFile DEF CloseBegin
<1>3. /\ memtable' = <<>> /\ phase' = "saving" /\ dataFile' = EmptyImage
      /\ phase = "up" /\ UNCHANGED <<written, latest, torn, madeUp>>
  BY DEF CloseBegin
<1>4. TypeOK'
  <2>1. /\ dataFile'.count \in 0..MaxSSTables
        /\ Len(dataFile'.tables) <= dataFile'.count
        /\ dataFile'.tables \in Seq([size : Nat, pairs : Table])
    BY <1>2 DEF FileOK, Entry
  <2> QED
    BY <1>1, <1>3, <2>1, EmptyTree DEF IInv, TypeOK
<1>5. NothingInvented' /\ PutsAreStored'
  BY <1>1, <1>3, EmptyTree DEF IInv, NothingInvented, PutsAreStored, Known
<1>6. FileKnown'
  BY <1>2 DEF FileKnown, FilePairs, FileTables
<1>7. FileOK(dataFile)' /\ WholeUnlessTorn'
  BY <1>2 DEF FileOK, WholeUnlessTorn, IsWhole
<1>8. NoKeyDropped'
  <2>1. \A k \in Keys : k \in KeysIn(AllPairs(sstables'))
                          => k \in KeysIn(Range(memtable') \cup AllPairs(sstables'))
    BY DEF KeysIn
  <2> QED
    BY <1>1, <1>3, <2>1 DEF IInv, NoKeyDropped
<1> QED
  BY <1>3, <1>4, <1>5, <1>6, <1>7, <1>8
  DEF IInv, NoMemtableUnlessUp, NothingSavedYet, IdleMatchesDisk

\* Every step of the tree keeps the invariant.
LEMMA NextIInv == IInv /\ [Next]_vars => IInv'
<1> SUFFICES ASSUME IInv, [Next]_vars PROVE IInv'
  OBVIOUS
<1>1. /\ torn \in BOOLEAN /\ FileOK(dataFile) /\ (~torn => IsWhole(dataFile))
      /\ \A p \in FilePairs(dataFile) : Known(p)
  BY DEF IInv, TypeOK, FileKnown, WholeUnlessTorn
<1>2. /\ sstables \in Seq(Table) /\ Len(sstables) <= MaxSSTables
      /\ \A p \in AllPairs(sstables) : Known(p)
  BY DEF IInv, TypeOK, NothingInvented, Known
<1>3. ASSUME Die, UNCHANGED dataFile PROVE IInv'
  <2>1. torn' = torn /\ UNCHANGED <<written, latest, compacted, madeUp>>
    BY <1>3 DEF Die, history
  <2>2. CASE torn
    <3>1. torn' = (torn \/ ~IsWhole(dataFile'))
      BY <1>1, <2>1, <2>2
    <3> QED
      BY <1>1, <1>3, <2>1, <3>1, DieIInv DEF Die
  <2>3. CASE ~torn
    <3>1. torn' = (torn \/ ~IsWhole(dataFile'))
      BY <1>1, <1>3, <2>1, <2>3
    <3> QED
      BY <1>1, <1>3, <2>1, <3>1, DieIInv DEF Die
  <2> QED
    BY <2>2, <2>3
<1>4. CASE Open
  BY <1>4, OpenIInv
<1>5. CASE \E k \in Keys, v \in Vals : Put(k, v)
  BY <1>5, PutIInv
<1>6. CASE CloseBegin
  BY <1>6, CloseBeginIInv
<1>7. CASE CloseEnd
  <2>1. FileOK(dataFile') /\ IsWhole(dataFile') /\ FilePairs(dataFile') = AllPairs(sstables)
    BY <1>2, <1>7, ImageHoldsTables DEF CloseEnd
  <2>2. torn' = (torn \/ ~IsWhole(dataFile'))
    BY <1>1, <1>7, <2>1 DEF CloseEnd, Die, history
  <2> QED
    BY <1>2, <1>7, <2>1, <2>2, DieIInv DEF CloseEnd, Die, history
<1>8. CASE CloseIdle \/ FlushExits
  BY <1>3, <1>8 DEF CloseIdle, FlushExits
<1>9. CASE Crash
  <2>1. CASE phase = "up" /\ Die /\ UNCHANGED dataFile
    BY <1>3, <2>1
  <2>2. CASE ~(phase = "up" /\ Die /\ UNCHANGED dataFile)
    <3>1. /\ dataFile' \in Prefixes(sstables)
          /\ torn' = (torn \/ ~IsWhole(dataFile'))
          /\ phase' = "down" /\ memtable' = <<>> /\ sstables' = <<>>
          /\ UNCHANGED <<written, latest, compacted, madeUp>>
      BY <1>9, <2>2 DEF Crash
    <3>2. FileOK(dataFile') /\ FilePairs(dataFile') \subseteq AllPairs(sstables)
      BY <1>2, <3>1, PrefixesHoldTables
    <3> QED
      BY <1>2, <3>1, <3>2, DieIInv
  <2> QED
    BY <2>1, <2>2
<1>10. CASE UNCHANGED vars
  <2>1. FileOK(dataFile)' /\ WholeUnlessTorn' /\ PutsAreStored' /\ FileKnown'
    BY <1>10, FileStays DEF vars
  <2> QED
    BY <1>10, <2>1 DEF vars, IInv, TypeOK, NoMemtableUnlessUp, NothingSavedYet,
       NothingInvented, NoKeyDropped, IdleMatchesDisk
<1> QED
  BY <1>4, <1>5, <1>6, <1>7, <1>8, <1>9, <1>10 DEF Next

\* The strengthened invariant holds in every state.
THEOREM Invariance == Spec => []IInv
<1> QED
  BY InitIInv, NextIInv, PTL DEF Spec

\* The tree is well typed for all sizes; sstable_count never passes
\* MAX_SSTABLES, however often a put has to flush.
THEOREM TypeCorrect == Spec => []TypeOK
<1>1. IInv => TypeOK
  BY DEF IInv
<1> QED
  BY <1>1, Invariance, PTL

\* No crash, start, flush or compaction puts a pair into the tree that was not
\* put, cut to its fields, unless a save was cut short and a load has made that
\* pair up from memory nobody wrote.
THEOREM NothingIsInvented == Spec => []NothingInvented
<1>1. IInv => NothingInvented
  BY DEF IInv
<1> QED
  BY <1>1, Invariance, PTL

\* Until the save is done no flush and no compaction loses a key that was put or
\* loaded, in the form that fits its field.
THEOREM NoKeyIsDropped == Spec => []NoKeyDropped
<1>1. IInv => NoKeyDropped
  BY DEF IInv
<1> QED
  BY <1>1, Invariance, PTL

\* Closing a tree whose memtable is empty need not save: the tables are those
\* that the data file holds.
THEOREM IdleTreeIsOnDisk == Spec => []IdleMatchesDisk
<1>1. IInv => IdleMatchesDisk
  BY DEF IInv
<1> QED
  BY <1>1, Invariance, PTL

---------------------------------------------------------------------------
(* Sortedness.  A flush of two pairs with the same key would leave a table *)
(* that is sorted but not strictly; MEMTABLE_SIZE is 1 in code.h, and that *)
(* is what the theorem assumes.                                            *)

SortedInv ==
    /\ SSTablesSorted
    /\ ~torn => FileSorted(dataFile)

\* A flush leaves every table in key order.
LEMMA FlushKeepsSorted ==
    ASSUME MemtableSize = 1, IInv, SortedInv, Flush, ~torn
    PROVE  \A i \in DOMAIN sstables' : StrictlySorted(sstables'[i])
<1>1. memtable \in Table /\ Len(memtable) <= 1
  BY DEF IInv, TypeOK
<1>2. \A i \in DOMAIN sstables : StrictlySorted(sstables[i])
  BY DEF SortedInv, SSTablesSorted
<1> QED
  BY <1>1, <1>2, FlushesKeepKeys DEF Flush, IInv, TypeOK

\* Without a save cut short every step keeps the tables in key order.
LEMMA NextSorted ==
    ASSUME MemtableSize = 1, IInv, SortedInv, [Next]_vars
    PROVE  SortedInv'
<1> SUFFICES ASSUME ~torn'
             PROVE  /\ \A i \in DOMAIN sstables' : StrictlySorted(sstables'[i])
                    /\ FileSorted(dataFile')
  BY DEF SortedInv, SSTablesSorted, FileSorted
<1>1. ~torn
  BY DEF Next, vars, Open, Put, CloseIdle, CloseBegin, CloseEnd, FlushExits, Crash, Die, history
<1>2. /\ \A i \in DOMAIN sstables : StrictlySorted(sstables[i])
      /\ IsWhole(dataFile) /\ FileSorted(dataFile)
  BY <1>1 DEF SortedInv, SSTablesSorted, IInv, WholeUnlessTorn
<1>3. sstables \in Seq(Table) /\ Len(sstables) <= MaxSSTables
  BY DEF IInv, TypeOK
<1>4. \A i \in DOMAIN <<>> : StrictlySorted(<<>>[i])
  OBVIOUS
<1>5. CASE Open
  <2>1. \A i \in DOMAIN sstables' : StrictlySorted(sstables'[i])
    BY <1>2, <1>5, LoadsHoldFile DEF Open, IInv
  <2> QED
    BY <1>2, <1>5, <2>1 DEF Open
<1>6. CASE \E k \in Keys, v \in Vals : Put(k, v)
  <2>1. dataFile' = dataFile /\ (Flush \/ sstables' = sstables)
    BY <1>6 DEF Put
  <2> QED
    BY <1>1, <1>2, <2>1, FlushKeepsSorted
<1>7. CASE CloseBegin
  BY <1>1, <1>7, FlushKeepsSorted, EmptyFile DEF CloseBegin
<1>8. CASE CloseEnd
  <2>1. sstables' = <<>> /\ dataFile' = Image(sstables)
    BY <1>8 DEF CloseEnd, Die
  <2>2. FileSorted(Image(sstables))
    BY <1>2, <1>3, ImageHoldsTables DEF FileSorted
  <2> QED
    BY <1>4, <2>1, <2>2
<1>9. CASE CloseIdle \/ FlushExits
  BY <1>2, <1>4, <1>9 DEF CloseIdle, FlushExits, Die
<1>10. CASE Crash
  <2>1. CASE phase = "up" /\ Die /\ UNCHANGED dataFile
    BY <1>2, <1>4, <2>1 DEF Die
  <2>2. CASE ~(phase = "up" /\ Die /\ UNCHANGED dataFile)
    <3>1. dataFile' \in Prefixes(sstables) /\ sstables' = <<>>
      BY <1>10, <2>2 DEF Crash
    <3>2. FileSorted(dataFile')
      BY <1>2, <1>3, <3>1, PrefixesHoldTables
    <3> QED
      BY <1>4, <3>1, <3>2
  <2> QED
    BY <2>1, <2>2
<1>11. CASE UNCHANGED vars
  BY <1>2, <1>11 DEF vars
<1> QED
  BY <1>5, <1>6, <1>7, <1>8, <1>9, <1>10, <1>11 DEF Next

\* With MEMTABLE_SIZE 1 every table that lsm_get searches is strictly sorted,
\* through every flush, compaction, save and start, if no save was cut short.
THEOREM TablesStaySorted ==
    ASSUME MemtableSize = 1
    PROVE  Spec => []SSTablesSorted
<1>1. Init => SortedInv
  BY EmptyFile, EmptyTree DEF Init, SortedInv, SSTablesSorted
<1>2. IInv /\ SortedInv /\ [Next]_vars => SortedInv'
  BY NextSorted
<1>3. SortedInv => SSTablesSorted
  BY DEF SortedInv
<1> QED
  BY <1>1, <1>2, <1>3, Invariance, PTL DEF Spec

---------------------------------------------------------------------------
(* What a get finds. *)

\* Positions have a greatest.
LEMMA GreatestPosition ==
    ASSUME NEW n \in Nat, NEW S \in SUBSET (1..n), S # {}
    PROVE  Max(S) \in S /\ \A y \in S : Max(S) >= y
<1> DEFINE rest == {n - x : x \in S}
<1>1. \A x \in S : x \in Nat /\ n - x \in Nat
  OBVIOUS
<1>2. PICK d \in rest : \A e \in rest : d <= e
  <2>1. rest \subseteq Nat /\ rest # {}
    BY <1>1
  <2> HIDE DEF rest
  <2> QED
    BY <2>1, LeastExists
<1>3. PICK x \in S : d = n - x
  BY <1>2
<1>4. ASSUME NEW y \in S PROVE x >= y
  <2>1. n - x <= n - y
    BY <1>2, <1>3
  <2> QED
    BY <1>1, <2>1
<1>5. \E z \in S : \A y \in S : z >= y
  BY <1>4
<1> QED
  BY <1>5 DEF Max

\* The search of a table gives a pair that the table has under the key, and
\* one is found if the table is sorted.
LEMMA SearchTable ==
    ASSUME NEW t \in Table, NEW k \in Keys
    PROVE  /\ Search(t, k) # 0 => /\ Search(t, k) \in DOMAIN t
                                  /\ t[Search(t, k)] \in Range(t)
                                  /\ t[Search(t, k)].key = k
                                  /\ t[Search(t, k)].value \in Vals
           /\ Search(t, k) # 0 => k \in KeysIn(Range(t))
           /\ Sorted(t) /\ k \in KeysIn(Range(t)) => Search(t, k) # 0
<1>1. /\ Len(t) \in Nat /\ DOMAIN t = 1..Len(t)
      /\ \A i \in 1..Len(t) : t[i] \in Pair
  BY DEF Table
<1>2. \A i \in 1..Len(t) : t[i].key \in Int
  BY <1>1, PairFields
<1>3. k \in Int
  BY KeysAssumption
<1>4. /\ Search(t, k) \in 0..Len(t)
      /\ Search(t, k) # 0 => t[Search(t, k)].key = k
      /\ Sorted(t) /\ (\E i \in 1..Len(t) : t[i].key = k) => Search(t, k) # 0
  BY <1>1, <1>2, <1>3, SearchResult
<1>5. ASSUME Search(t, k) # 0
      PROVE  /\ Search(t, k) \in DOMAIN t /\ t[Search(t, k)] \in Range(t)
             /\ t[Search(t, k)].value \in Vals
             /\ k \in KeysIn(Range(t))
  <2>1. Search(t, k) \in DOMAIN t
    BY <1>1, <1>4, <1>5
  <2>2. t[Search(t, k)] \in Range(t) /\ t[Search(t, k)] \in Pair
    BY <1>1, <2>1 DEF Range
  <2> QED
    BY <1>4, <1>5, <2>1, <2>2, PairFields DEF KeysIn
<1>6. k \in KeysIn(Range(t)) => \E i \in 1..Len(t) : t[i].key = k
  BY <1>1 DEF KeysIn, Range
<1> QED
  BY <1>4, <1>5, <1>6

\* The tables are asked from the newest one: either no search finds the key, or
\* the answer is what the last table gives whose search finds it.
LEMMA TablesAnswer ==
    ASSUME NEW ts \in Seq(Table), NEW k \in Keys
    PROVE  \/ /\ \A i \in DOMAIN ts : Search(ts[i], k) = 0
              /\ LookupTables(ts, k) = NoValue
           \/ \E i \in DOMAIN ts :
                 /\ Search(ts[i], k) # 0
                 /\ \A j \in DOMAIN ts : j > i => Search(ts[j], k) = 0
                 /\ LookupTables(ts, k) = ts[i][Search(ts[i], k)].value
<1> DEFINE hits == {i \in DOMAIN ts : Search(ts[i], k) # 0}
<1>1. LookupTables(ts, k) = IF hits = {} THEN NoValue
                            ELSE ts[Max(hits)][Search(ts[Max(hits)], k)].value
  BY DEF LookupTables
<1>2. Len(ts) \in Nat /\ DOMAIN ts = 1..Len(ts)
  BY PairsOfTables
<1>3. CASE hits = {}
  BY <1>1, <1>3
<1>4. CASE hits # {}
  <2>1. Max(hits) \in hits /\ \A y \in hits : Max(hits) >= y
    BY <1>2, <1>4, GreatestPosition
  <2> DEFINE n == Max(hits)
  <2>2. n \in DOMAIN ts /\ Search(ts[n], k) # 0
    BY <2>1
  <2>3. LookupTables(ts, k) = ts[n][Search(ts[n], k)].value
    BY <1>1, <1>4
  <2>4. ASSUME NEW j \in DOMAIN ts, j > n PROVE Search(ts[j], k) = 0
    <3>1. n \in Int /\ j \in Int
      BY <1>2, <2>2
    <3>2. ~(n >= j)
      BY <2>4, <3>1
    <3> QED
      BY <2>1, <3>2
  <2> QED
    BY <2>2, <2>3, <2>4
<1> QED
  BY <1>3, <1>4

\* There is no answer exactly when no search finds the key; and there is one
\* for each key of tables that are sorted.
LEMMA TablesFind ==
    ASSUME NEW ts \in Seq(Table), NEW k \in Keys
    PROVE  /\ LookupTables(ts, k) # NoValue <=> \E i \in DOMAIN ts : Search(ts[i], k) # 0
           /\ LookupTables(ts, k) # NoValue =>
                \E p \in AllPairs(ts) :
                   p.key = k /\ p.value = LookupTables(ts, k)
           /\ (\A i \in DOMAIN ts : Sorted(ts[i])) /\ k \in KeysIn(AllPairs(ts))
                => LookupTables(ts, k) # NoValue
<1>1. \A i \in DOMAIN ts : ts[i] \in Table /\ Range(ts[i]) \subseteq AllPairs(ts)
  BY PairsOfTables
<1>2. ASSUME NEW i \in DOMAIN ts, Search(ts[i], k) # 0,
             LookupTables(ts, k) = ts[i][Search(ts[i], k)].value
      PROVE  /\ LookupTables(ts, k) # NoValue
             /\ \E p \in AllPairs(ts) :
                   p.key = k /\ p.value = LookupTables(ts, k)
  BY <1>1, <1>2, SearchTable, ValsAssumption
<1>3. LookupTables(ts, k) # NoValue <=> \E i \in DOMAIN ts : Search(ts[i], k) # 0
  BY <1>2, TablesAnswer
<1>4. LookupTables(ts, k) # NoValue =>
        \E p \in AllPairs(ts) : p.key = k /\ p.value = LookupTables(ts, k)
  BY <1>2, TablesAnswer
<1>5. k \in KeysIn(AllPairs(ts)) => \E i \in DOMAIN ts : k \in KeysIn(Range(ts[i]))
  BY DEF KeysIn, AllPairs
<1>6. ASSUME \A i \in DOMAIN ts : Sorted(ts[i]), k \in KeysIn(AllPairs(ts))
      PROVE  \E i \in DOMAIN ts : Search(ts[i], k) # 0
  BY <1>1, <1>5, <1>6, SearchTable
<1> QED
  BY <1>3, <1>4, <1>6

\* The memtable is asked first, from its newest pair.
LEMMA MemtableAnswers ==
    ASSUME NEW m \in Table, NEW ts, NEW k \in Keys
    PROVE  \/ /\ k \notin KeysIn(Range(m))
              /\ Lookup(m, ts, k) = LookupTables(ts, k)
           \/ \E i \in DOMAIN m : /\ m[i].key = k
                                  /\ m[i] \in Range(m)
                                  /\ \A j \in DOMAIN m : j > i => m[j].key # k
                                  /\ Lookup(m, ts, k) = m[i].value
                                  /\ m[i].value \in Vals
<1> DEFINE hits == {i \in DOMAIN m : m[i].key = k}
<1>1. Lookup(m, ts, k) = IF hits # {} THEN m[Max(hits)].value ELSE LookupTables(ts, k)
  BY DEF Lookup
<1>2. /\ Len(m) \in Nat /\ DOMAIN m = 1..Len(m)
      /\ \A i \in DOMAIN m : m[i] \in Pair /\ m[i] \in Range(m)
  BY DEF Table, Range
<1>3. CASE hits = {}
  <2>1. k \notin KeysIn(Range(m))
    BY <1>3 DEF KeysIn, Range
  <2> QED
    BY <1>1, <1>3, <2>1
<1>4. CASE hits # {}
  <2>1. Max(hits) \in hits /\ \A y \in hits : Max(hits) >= y
    BY <1>2, <1>4, GreatestPosition
  <2> DEFINE n == Max(hits)
  <2>2. n \in DOMAIN m /\ m[n].key = k /\ Lookup(m, ts, k) = m[n].value
    BY <1>1, <1>4, <2>1
  <2>3. m[n].value \in Vals /\ m[n] \in Range(m)
    BY <1>2, <2>2, PairFields
  <2>4. ASSUME NEW j \in DOMAIN m, j > n PROVE m[j].key # k
    <3>1. n \in Int /\ j \in Int
      BY <1>2, <2>2
    <3>2. ~(n >= j)
      BY <2>4, <3>1
    <3> QED
      BY <2>1, <3>2
  <2> QED
    BY <2>2, <2>3, <2>4
<1> QED
  BY <1>3, <1>4

\* The value of a get, if there is one, is that of a pair of the tree under the
\* key; and every key of sorted tables or of the memtable has one.
LEMMA GetFinds ==
    ASSUME NEW m \in Table, NEW ts \in Seq(Table), NEW k \in Keys
    PROVE  /\ Lookup(m, ts, k) # NoValue =>
                \E p \in Range(m) \cup AllPairs(ts) :
                   p.key = k /\ p.value = Lookup(m, ts, k)
           /\ k \in KeysIn(Range(m)) => Lookup(m, ts, k) # NoValue
           /\ LookupTables(ts, k) # NoValue => Lookup(m, ts, k) # NoValue
           /\ (\A i \in DOMAIN ts : Sorted(ts[i])) /\ k \in KeysIn(Range(m) \cup AllPairs(ts))
                => Lookup(m, ts, k) # NoValue
<1>1. CASE k \notin KeysIn(Range(m)) /\ Lookup(m, ts, k) = LookupTables(ts, k)
  <2>1. k \in KeysIn(Range(m) \cup AllPairs(ts)) => k \in KeysIn(AllPairs(ts))
    BY <1>1 DEF KeysIn
  <2> QED
    BY <1>1, <2>1, TablesFind
<1>2. CASE \E i \in DOMAIN m : /\ m[i].key = k
                               /\ m[i] \in Range(m)
                               /\ Lookup(m, ts, k) = m[i].value
                               /\ m[i].value \in Vals
  BY <1>2, ValsAssumption
<1> QED
  BY <1>1, <1>2, MemtableAnswers

\* The newest pair of a key is what a get finds in strictly sorted tables.
LEMMA NewestIsFound ==
    ASSUME NEW ts \in Seq(Table), \A i \in DOMAIN ts : StrictlySorted(ts[i]),
           NEW k \in Keys, NEW v, IsNewest(v, ts, k)
    PROVE  LookupTables(ts, k) = v
<1>1. CASE v = NoValue /\ k \notin KeysIn(AllPairs(ts))
  BY <1>1, TablesFind DEF KeysIn
<1>2. CASE \E i \in DOMAIN ts :
             /\ [key |-> k, value |-> v] \in Range(ts[i])
             /\ \A j \in DOMAIN ts : j > i => k \notin KeysIn(Range(ts[j]))
  <2>1. PICK i \in DOMAIN ts :
               /\ [key |-> k, value |-> v] \in Range(ts[i])
               /\ \A j \in DOMAIN ts : j > i => k \notin KeysIn(Range(ts[j]))
    BY <1>2
  <2>2. Len(ts) \in Nat /\ DOMAIN ts = 1..Len(ts) /\ \A j \in DOMAIN ts : ts[j] \in Table
    BY PairsOfTables
  <2>3. k \in KeysIn(Range(ts[i]))
    BY <2>1 DEF KeysIn
  <2>4. Search(ts[i], k) # 0
    BY <2>2, <2>3, SearchTable, StrictlySortedIsSorted
  <2>5. PICK n \in DOMAIN ts :
               /\ Search(ts[n], k) # 0
               /\ \A j \in DOMAIN ts : j > n => Search(ts[j], k) = 0
               /\ LookupTables(ts, k) = ts[n][Search(ts[n], k)].value
    BY <2>4, TablesAnswer
  <2>6. ~(n > i)
    BY <2>1, <2>2, <2>5, SearchTable
  <2>7. ~(i > n)
    BY <2>4, <2>5
  <2>8. n = i
    BY <2>2, <2>6, <2>7
  <2> DEFINE s == Search(ts[i], k)
  <2>9. s \in DOMAIN ts[i] /\ ts[i][s].key = k
    BY <2>2, <2>4, SearchTable
  <2>10. PICK j \in DOMAIN ts[i] : ts[i][j] = [key |-> k, value |-> v]
    BY <2>1 DEF Range
  <2>11. s = j
    <3>1. ~(k < k)
      BY KeysAssumption
    <3>2. ~(s < j) /\ ~(j < s)
      BY <2>9, <2>10, <3>1 DEF StrictlySorted
    <3>3. s \in Int /\ j \in Int
      BY <2>2, <2>9 DEF Table
    <3> QED
      BY <3>2, <3>3
  <2> QED
    BY <2>5, <2>8, <2>10, <2>11
<1> QED
  BY <1>1, <1>2 DEF IsNewest

\* A table added behind the others holds the newest pair of each of its keys.
LEMMA AppendNewest ==
    ASSUME NEW ts \in Seq(Table), NEW t \in Table, NEW k \in Keys, NEW v
    PROVE  /\ [key |-> k, value |-> v] \in Range(t) => IsNewest(v, Append(ts, t), k)
           /\ k \notin KeysIn(Range(t)) /\ IsNewest(v, ts, k) => IsNewest(v, Append(ts, t), k)
<1> DEFINE new == Append(ts, t)
           n == Len(ts) + 1
<1>1. /\ Len(ts) \in Nat /\ DOMAIN ts = 1..Len(ts) /\ DOMAIN new = 1..n
      /\ n \in DOMAIN new /\ new[n] = t
      /\ \A i \in DOMAIN ts : i \in DOMAIN new /\ new[i] = ts[i]
  OBVIOUS
<1>2. \A j \in DOMAIN new : j = n \/ j \in DOMAIN ts
  BY <1>1
<1>3. \A j \in DOMAIN new : ~(j > n)
  BY <1>1
<1> HIDE DEF new, n
<1>4. ASSUME [key |-> k, value |-> v] \in Range(t) PROVE IsNewest(v, new, k)
  BY <1>1, <1>3, <1>4 DEF IsNewest
<1>5. ASSUME k \notin KeysIn(Range(t)), IsNewest(v, ts, k) PROVE IsNewest(v, new, k)
  <2>1. CASE v = NoValue /\ k \notin KeysIn(AllPairs(ts))
    <3>1. AllPairs(new) = AllPairs(ts) \cup Range(t)
      BY <1>1, <1>2 DEF AllPairs
    <3>2. k \notin KeysIn(AllPairs(new))
      BY <1>5, <2>1, <3>1 DEF KeysIn
    <3> QED
      BY <2>1, <3>2 DEF IsNewest
  <2>2. CASE \E i \in DOMAIN ts :
               /\ [key |-> k, value |-> v] \in Range(ts[i])
               /\ \A j \in DOMAIN ts : j > i => k \notin KeysIn(Range(ts[j]))
    <3>1. PICK i \in DOMAIN ts :
                 /\ [key |-> k, value |-> v] \in Range(ts[i])
                 /\ \A j \in DOMAIN ts : j > i => k \notin KeysIn(Range(ts[j]))
      BY <2>2
    <3>2. \A j \in DOMAIN new : j > i => k \notin KeysIn(Range(new[j]))
      BY <1>1, <1>2, <1>5, <3>1
    <3>3. i \in DOMAIN new /\ [key |-> k, value |-> v] \in Range(new[i])
      BY <1>1, <3>1
    <3> QED
      BY <3>2, <3>3 DEF IsNewest
  <2> QED
    BY <1>5, <2>1, <2>2 DEF IsNewest
<1> QED
  BY <1>4, <1>5 DEF new

\* The last pair of the memtable is the answer for its key.
LEMMA LastPairAnswers ==
    ASSUME NEW m \in Table, NEW ts, NEW k \in Keys, NEW n \in DOMAIN m, m[n].key = k,
           \A i \in DOMAIN m : i = n \/ n > i
    PROVE  Lookup(m, ts, k) = m[n].value
<1>1. k \in KeysIn(Range(m))
  BY DEF KeysIn, Range
<1>2. PICK i \in DOMAIN m : /\ \A j \in DOMAIN m : j > i => m[j].key # k
                            /\ Lookup(m, ts, k) = m[i].value
  BY <1>1, MemtableAnswers
<1>3. i = n
  BY <1>2
<1> QED
  BY <1>2, <1>3

\* A put into the memtable changes the answer for its own key only.
LEMMA PutAnswers ==
    ASSUME NEW m \in Table, NEW ts, NEW k \in Keys, NEW v \in Vals
    PROVE  LET new == Append(m, [key |-> k, value |-> v])
           IN  /\ Lookup(new, ts, k) = v
               /\ \A j \in Keys \ {k} : Lookup(new, ts, j) = Lookup(m, ts, j)
<1> DEFINE p == [key |-> k, value |-> v]
           n == Len(m) + 1
           new == Append(m, p)
<1>1. p \in Pair
  BY DEF Pair
<1>2. /\ new \in Table /\ Len(m) \in Nat /\ DOMAIN m = 1..Len(m) /\ DOMAIN new = 1..n
      /\ n \in DOMAIN new /\ new[n] = p
      /\ \A i \in DOMAIN m : i \in DOMAIN new /\ new[i] = m[i]
  BY <1>1 DEF Table
<1>3. p.key = k /\ p.value = v
  OBVIOUS
<1>4. \A i \in DOMAIN new : i = n \/ (i \in DOMAIN m /\ n > i)
  BY <1>2
<1> HIDE DEF p, n, new
<1>5. Lookup(new, ts, k) = v
  <2>1. new \in Table /\ n \in DOMAIN new /\ new[n].key = k /\ new[n].value = v
    BY <1>2, <1>3
  <2>2. \A i \in DOMAIN new : i = n \/ n > i
    BY <1>4
  <2> QED
    BY <2>1, <2>2, LastPairAnswers
<1>6. ASSUME NEW j \in Keys \ {k} PROVE Lookup(new, ts, j) = Lookup(m, ts, j)
  <2> DEFINE hits == {i \in DOMAIN m : m[i].key = j}
  <2>1. {i \in DOMAIN new : new[i].key = j} = hits
    BY <1>2, <1>3, <1>4
  <2>2. CASE hits = {}
    BY <2>1, <2>2 DEF Lookup
  <2>3. CASE hits # {}
    <3>1. Max(hits) \in DOMAIN m
      BY <1>2, <2>3, GreatestPosition
    <3>2. new[Max(hits)] = m[Max(hits)]
      BY <1>2, <3>1
    <3> QED
      BY <2>1, <2>3, <3>2 DEF Lookup
  <2> QED
    BY <2>2, <2>3
<1> QED
  BY <1>5, <1>6 DEF new, p

\* Without pairs in the memtable the tables answer.
LEMMA EmptyMemtableAnswers ==
    ASSUME NEW ts, NEW k \in Keys
    PROVE  Lookup(<<>>, ts, k) = LookupTables(ts, k)
<1>1. {i \in DOMAIN <<>> : <<>>[i].key = k} = {}
  OBVIOUS
<1> QED
  BY <1>1 DEF Lookup

\* A key that a get finds before a flush is found in the tables after it, even
\* when a table was torn: it stays where it was, or is in the sorted new tables.
LEMMA FlushFinds ==
    ASSUME NEW m \in Table, NEW ts \in Seq(Table), Len(ts) <= MaxSSTables,
           NEW new \in Flushes(m, ts), NEW k \in Keys, Lookup(m, ts, k) # NoValue
    PROVE  LookupTables(new, k) # NoValue
<1>1. PICK base \in (IF Len(ts) >= MaxSSTables THEN Compactions(ts) ELSE {ts}),
           t \in SortsOf(m) : new = Append(base, t)
  BY DEF Flushes
<1>2. t \in Table /\ Range(t) = Range(m) /\ Sorted(t)
  BY <1>1, SortsOfRearrange
<1>3. base \in Seq(Table) /\ (LookupTables(ts, k) # NoValue => LookupTables(base, k) # NoValue)
  <2>1. CASE Len(ts) >= MaxSSTables
    <3>1. Len(ts) >= 2 /\ base \in Compactions(ts)
      BY <2>1, <1>1, SizesAssumption, PairsOfTables
    <3>2. /\ base \in Seq(Table) /\ Len(base) = 1 /\ StrictlySorted(base[1])
          /\ KeysIn(AllPairs(base)) = KeysIn(AllPairs(ts))
      BY <3>1, CompactionsKeepKeys
    <3>3. \A i \in DOMAIN base : Sorted(base[i])
      BY <3>2, PairsOfTables, StrictlySortedIsSorted
    <3>4. LookupTables(ts, k) # NoValue => k \in KeysIn(AllPairs(ts))
      BY TablesFind DEF KeysIn
    <3> QED
      BY <3>2, <3>3, <3>4, TablesFind
  <2>2. CASE ~(Len(ts) >= MaxSSTables)
    BY <1>1, <2>2
  <2> QED
    BY <2>1, <2>2
<1>4. /\ new \in Seq(Table) /\ DOMAIN base \subseteq DOMAIN new
      /\ \A i \in DOMAIN base : new[i] = base[i]
      /\ Len(base) + 1 \in DOMAIN new /\ new[Len(base) + 1] = t
  BY <1>1, <1>2, <1>3
<1>5. CASE k \in KeysIn(Range(m))
  <2>1. Search(t, k) # 0
    BY <1>2, <1>5, SearchTable
  <2> QED
    BY <1>4, <2>1, TablesFind
<1>6. CASE k \notin KeysIn(Range(m))
  <2>1. LookupTables(ts, k) # NoValue
    BY <1>6, MemtableAnswers DEF KeysIn
  <2>2. PICK i \in DOMAIN base : Search(base[i], k) # 0
    BY <1>3, <2>1, TablesFind
  <2> QED
    BY <1>4, <2>2, TablesFind
<1> QED
  BY <1>5, <1>6

---------------------------------------------------------------------------
(* The last value put.  The history variable latest is followed through    *)
(* the memtable and the tables: as long as no compaction has picked one of *)
(* two values, the newest pair of each key holds the latest value.         *)

NewestInv ==
    phase = "up" /\ ~compacted /\ ~torn =>
        \A k \in Keys :
            \/ [key |-> k, value |-> latest[k]] \in Range(memtable)
            \/ k \notin KeysIn(Range(memtable)) /\ IsNewest(latest[k], sstables, k)

\* A put keeps it: the pair of the memtable moves into a table of its own, and
\* the new pair takes its place.
LEMMA PutNewest ==
    ASSUME MemtableSize = 1, IInv, NewestInv, NEW k \in Keys, NEW v \in Vals, Put(k, v)
    PROVE  NewestInv'
<1> DEFINE p == [key |-> Stored[k], value |-> Kept[v]]
<1>1. /\ memtable \in Table /\ Len(memtable) \in Nat /\ Len(memtable) <= 1
      /\ sstables \in Seq(Table) /\ Len(sstables) <= MaxSSTables
  BY DEF IInv, TypeOK, Table
<1>2. SUFFICES ASSUME phase' = "up", ~compacted', ~torn', NEW j \in Keys
               PROVE  \/ [key |-> j, value |-> latest'[j]] \in Range(memtable')
                      \/ j \notin KeysIn(Range(memtable')) /\ IsNewest(latest'[j], sstables', j)
  BY DEF NewestInv
<1>3. phase = "up" /\ ~torn /\ latest' = [latest EXCEPT ![Stored[k]] = Kept[v]]
  BY <1>2 DEF Put, Record
<1>4. latest'[Stored[k]] = Kept[v] /\ (j # Stored[k] => latest'[j] = latest[j])
  BY <1>3, PutFits DEF IInv, TypeOK
<1>5. p \in Range(<<p>>) /\ (j # Stored[k] => j \notin KeysIn(Range(<<p>>)))
  BY DEF Range, KeysIn
<1>6. CASE Flush /\ memtable' = <<p>>
  <2>1. ~compacted /\ ~(Len(sstables) >= MaxSSTables)
    BY <1>2, <1>6 DEF Flush
  <2>2. PICK t \in SortsOf(memtable) : sstables' = Append(sstables, t)
    BY <1>6, <2>1 DEF Flush, Flushes
  <2>3. t \in Table /\ Range(t) = Range(memtable)
    BY <1>1, SortsOfRearrange
  <2>4. CASE j = Stored[k]
    BY <1>4, <1>5, <1>6, <2>4
  <2>5. CASE j # Stored[k]
    <3>1. \/ [key |-> j, value |-> latest[j]] \in Range(t)
          \/ j \notin KeysIn(Range(t)) /\ IsNewest(latest[j], sstables, j)
      BY <1>2, <1>3, <2>1, <2>3 DEF NewestInv
    <3>2. IsNewest(latest[j], Append(sstables, t), j)
      BY <1>1, <2>3, <3>1, AppendNewest
    <3> QED
      BY <1>4, <1>5, <1>6, <2>2, <2>5, <3>2
  <2> QED
    BY <2>4, <2>5
<1>7. CASE ~MemtableFull /\ memtable' = Append(memtable, p) /\ UNCHANGED <<sstables, compacted>>
  <2>1. memtable = <<>>
    BY <1>1, <1>7 DEF MemtableFull, Table
  <2>2. memtable' = <<p>>
    BY <1>7, <2>1
  <2>3. CASE j = Stored[k]
    BY <1>4, <1>5, <2>2, <2>3
  <2>4. CASE j # Stored[k]
    <3>1. IsNewest(latest[j], sstables, j)
      BY <1>2, <1>3, <1>7, <2>1, EmptyTree DEF NewestInv
    <3> QED
      BY <1>4, <1>5, <1>7, <2>2, <2>4, <3>1
  <2> QED
    BY <2>3, <2>4
<1> QED
  BY <1>6, <1>7 DEF Put

\* Every step keeps it; a start loads the newest pairs as the latest ones.
LEMMA NextNewest ==
    ASSUME MemtableSize = 1, IInv, NewestInv, [Next]_vars
    PROVE  NewestInv'
<1>1. CASE Open
  <2>1. memtable' = <<>> /\ \A k \in Keys : IsNewest(latest'[k], sstables', k)
    BY <1>1 DEF Open, IInv, NoMemtableUnlessUp
  <2>2. \A k \in Keys : k \notin KeysIn(Range(memtable'))
    BY <2>1, EmptyTree DEF KeysIn
  <2> QED
    BY <2>1, <2>2 DEF NewestInv
<1>2. CASE \E k \in Keys, v \in Vals : Put(k, v)
  BY <1>2, PutNewest
<1>3. CASE CloseIdle \/ CloseBegin \/ CloseEnd \/ FlushExits \/ Crash
  <2>1. phase' # "up"
    BY <1>3 DEF CloseIdle, CloseBegin, CloseEnd, FlushExits, Crash, Die
  <2> QED
    BY <2>1 DEF NewestInv
<1>4. CASE UNCHANGED vars
  BY <1>4 DEF vars, NewestInv
<1> QED
  BY <1>1, <1>2, <1>3, <1>4 DEF Next

\* With MEMTABLE_SIZE 1, and until a compaction runs: a get of a key that fits
\* its field returns what was kept of the last value put there, or the newest
\* one loaded, and a get of a longer key finds nothing, whatever flushes, closes
\* and starts went before, if no save was cut short.
THEOREM LatestIsRead ==
    ASSUME MemtableSize = 1
    PROVE  Spec => []LatestUntilCompaction
<1>1. Init => SortedInv /\ NewestInv
  BY EmptyFile, EmptyTree DEF Init, SortedInv, SSTablesSorted, NewestInv
<1>2. IInv /\ SortedInv /\ NewestInv /\ [Next]_vars => SortedInv' /\ NewestInv'
  BY NextSorted, NextNewest
<1>3. IInv /\ SortedInv /\ NewestInv => LatestUntilCompaction
  <2> SUFFICES ASSUME IInv, SortedInv, NewestInv, phase = "up", ~compacted, ~torn,
                      NEW k \in Keys
               PROVE  Lookup(memtable, sstables, k)
                        = IF Stored[k] = k THEN latest[k] ELSE NoValue
    BY DEF LatestUntilCompaction
  <2>1. /\ memtable \in Table /\ Len(memtable) \in Nat /\ Len(memtable) <= 1
        /\ DOMAIN memtable = 1..Len(memtable)
        /\ sstables \in Seq(Table)
        /\ \A i \in DOMAIN sstables : StrictlySorted(sstables[i])
    BY DEF IInv, TypeOK, Table, SortedInv, SSTablesSorted
  <2>2. CASE Stored[k] = k /\ [key |-> k, value |-> latest[k]] \in Range(memtable)
    <3>1. PICK n \in DOMAIN memtable : memtable[n] = [key |-> k, value |-> latest[k]]
      BY <2>2 DEF Range
    <3>2. \A i \in DOMAIN memtable : i = n
      BY <2>1
    <3>3. Lookup(memtable, sstables, k) = memtable[n].value
      BY <2>1, <3>1, <3>2, LastPairAnswers
    <3> QED
      BY <2>2, <3>1, <3>3
  <2>3. CASE /\ Stored[k] = k
             /\ k \notin KeysIn(Range(memtable)) /\ IsNewest(latest[k], sstables, k)
    <3>1. LookupTables(sstables, k) = latest[k]
      BY <2>1, <2>3, NewestIsFound
    <3>2. Lookup(memtable, sstables, k) = LookupTables(sstables, k)
      BY <2>1, <2>3, MemtableAnswers DEF KeysIn
    <3> QED
      BY <2>3, <3>1, <3>2
  <2>4. CASE Stored[k] # k
    <3>1. written[k] = {}
      BY <2>4 DEF IInv, PutsAreStored
    <3>2. \A p \in Range(memtable) \cup AllPairs(sstables) : p.value \in written[p.key]
      BY DEF IInv, NothingInvented
    <3>3. ASSUME Lookup(memtable, sstables, k) # NoValue PROVE FALSE
      <4>1. PICK p \in Range(memtable) \cup AllPairs(sstables) :
                    p.key = k /\ p.value = Lookup(memtable, sstables, k)
        <5>1. memtable \in Table /\ sstables \in Seq(Table)
          BY <2>1
        <5> QED
          BY <3>3, <5>1, GetFinds
      <4> QED
        BY <3>1, <3>2, <4>1
    <3> QED
      BY <2>4, <3>3
  <2> QED
    BY <2>2, <2>3, <2>4 DEF NewestInv
<1> QED
  BY <1>1, <1>2, <1>3, Invariance, PTL DEF Spec

---------------------------------------------------------------------------
(* The tree implements the key-value store.  For a get that finds nothing  *)
(* to mean that there is nothing, the tables must be in key order, repeated*)
(* keys or not: unlike SortedInv this holds for every memtable size.       *)

OrderInv ==
    ~torn => /\ \A i \in DOMAIN sstables : Sorted(sstables[i])
             /\ FileInOrder(dataFile)

\* A flush leaves the tables in key order, the memtable's among them.
LEMMA FlushKeepsOrder ==
    ASSUME IInv, OrderInv, Flush, ~torn
    PROVE  \A i \in DOMAIN sstables' : Sorted(sstables'[i])
<1>1. \A i \in DOMAIN sstables : Sorted(sstables[i])
  BY DEF OrderInv
<1> QED
  BY <1>1, FlushesKeepKeys DEF Flush, IInv, TypeOK

\* Without a save cut short every step keeps the tables in order.
LEMMA NextOrder ==
    ASSUME IInv, OrderInv, [Next]_vars
    PROVE  OrderInv'
<1> SUFFICES ASSUME ~torn'
             PROVE  /\ \A i \in DOMAIN sstables' : Sorted(sstables'[i])
                    /\ FileInOrder(dataFile')
  BY DEF OrderInv, FileInOrder
<1>1. ~torn
  BY DEF Next, vars, Open, Put, CloseIdle, CloseBegin, CloseEnd, FlushExits, Crash, Die, history
<1>2. /\ \A i \in DOMAIN sstables : Sorted(sstables[i])
      /\ IsWhole(dataFile) /\ FileInOrder(dataFile)
  BY <1>1 DEF OrderInv, IInv, WholeUnlessTorn
<1>3. sstables \in Seq(Table) /\ Len(sstables) <= MaxSSTables
  BY DEF IInv, TypeOK
<1>4. \A i \in DOMAIN <<>> : Sorted(<<>>[i])
  OBVIOUS
<1>5. CASE Open
  <2>1. \A i \in DOMAIN sstables' : Sorted(sstables'[i])
    BY <1>2, <1>5, LoadsHoldFile DEF Open, IInv
  <2> QED
    BY <1>2, <1>5, <2>1 DEF Open
<1>6. CASE \E k \in Keys, v \in Vals : Put(k, v)
  <2>1. dataFile' = dataFile /\ (Flush \/ sstables' = sstables)
    BY <1>6 DEF Put
  <2> QED
    BY <1>1, <1>2, <2>1, FlushKeepsOrder
<1>7. CASE CloseBegin
  BY <1>1, <1>7, FlushKeepsOrder, EmptyFile DEF CloseBegin
<1>8. CASE CloseEnd
  <2>1. sstables' = <<>> /\ dataFile' = Image(sstables)
    BY <1>8 DEF CloseEnd, Die
  <2>2. FileInOrder(Image(sstables))
    BY <1>2, <1>3, ImageHoldsTables DEF FileInOrder
  <2> QED
    BY <1>4, <2>1, <2>2
<1>9. CASE CloseIdle \/ FlushExits
  BY <1>2, <1>4, <1>9 DEF CloseIdle, FlushExits, Die
<1>10. CASE Crash
  <2>1. CASE phase = "up" /\ Die /\ UNCHANGED dataFile
    BY <1>2, <1>4, <2>1 DEF Die
  <2>2. CASE ~(phase = "up" /\ Die /\ UNCHANGED dataFile)
    <3>1. dataFile' \in Prefixes(sstables) /\ sstables' = <<>>
      BY <1>10, <2>2 DEF Crash
    <3>2. FileInOrder(dataFile')
      BY <1>2, <1>3, <3>1, PrefixesHoldTables
    <3> QED
      BY <1>4, <3>1, <3>2
  <2> QED
    BY <2>1, <2>2
<1>11. CASE UNCHANGED vars
  BY <1>2, <1>11 DEF vars
<1> QED
  BY <1>5, <1>6, <1>7, <1>8, <1>9, <1>10, <1>11 DEF Next

\* What a get returns is a value or nothing.
LEMMA AnswersAreValues ==
    ASSUME NEW m \in Table, NEW ts \in Seq(Table), NEW k \in Keys
    PROVE  /\ Lookup(m, ts, k) \in Vals \cup {NoValue}
           /\ LookupTables(ts, k) \in Vals \cup {NoValue}
<1>1. Range(m) \subseteq Pair /\ AllPairs(ts) \subseteq Pair
  BY RangeOfTable, PairsOfTables
<1>2. ASSUME Lookup(m, ts, k) # NoValue PROVE Lookup(m, ts, k) \in Vals
  <2>1. PICK p \in Range(m) \cup AllPairs(ts) : p.key = k /\ p.value = Lookup(m, ts, k)
    BY <1>2, GetFinds
  <2>2. p \in Pair
    BY <1>1
  <2> QED
    BY <2>1, <2>2, PairFields
<1>3. ASSUME LookupTables(ts, k) # NoValue PROVE LookupTables(ts, k) \in Vals
  <2>1. PICK p \in AllPairs(ts) : p.key = k /\ p.value = LookupTables(ts, k)
    BY <1>3, TablesFind
  <2>2. p \in Pair
    BY <1>1
  <2> QED
    BY <2>1, <2>2, PairFields
<1> QED
  BY <1>2, <1>3

\* A flush changes an answer only to a value put under the key; after a save
\* that was cut short also to a value that a load made up, or where a table out
\* of order hid one.
LEMMA FlushDrifts ==
    ASSUME IInv, OrderInv, Flush, NEW k \in Keys
    PROVE  KV!MayDrift(k, Lookup(memtable, sstables, k), LookupTables(sstables', k))
<1> DEFINE old == Lookup(memtable, sstables, k)
           new == LookupTables(sstables', k)
<1>1. /\ memtable \in Table /\ sstables \in Seq(Table) /\ Len(sstables) <= MaxSSTables
      /\ sstables' \in Flushes(memtable, sstables)
      /\ sstables' \in Seq(Table)
      /\ \A p \in AllPairs(sstables') : Known(p)
      /\ KeysIn(AllPairs(sstables')) = KeysIn(Range(memtable) \cup AllPairs(sstables))
  BY FlushKeeps DEF IInv, TypeOK, Flush
<1>2. old # NoValue => new # NoValue
  BY <1>1, FlushFinds
<1>3. ASSUME new # NoValue, ~torn PROVE new \in written[k] /\ old # NoValue
  <2>1. PICK p \in AllPairs(sstables') : p.key = k /\ p.value = new
    BY <1>1, <1>3, TablesFind
  <2>2. new \in written[k]
    BY <1>1, <1>3, <2>1 DEF Known, IInv, NothingInvented
  <2>3. \A i \in DOMAIN sstables : Sorted(sstables[i])
    BY <1>3 DEF OrderInv
  <2>4. k \in KeysIn(Range(memtable) \cup AllPairs(sstables))
    BY <1>1, <2>1 DEF KeysIn
  <2> QED
    BY <1>1, <2>2, <2>3, <2>4, GetFinds
<1>4. new \in Vals \cup {NoValue}
  BY <1>1, AnswersAreValues
<1> HIDE DEF old, new
<1>5. \/ new = old
      \/ old # NoValue /\ new \in written[k]
      \/ torn /\ new \in Vals
  BY <1>2, <1>3, <1>4
<1> QED
  BY <1>5 DEF KV!MayDrift, old, new

\* A start that finds the whole file answers what was saved.
LEMMA LoadsAnswer ==
    ASSUME IInv, IsWhole(dataFile), NEW ts \in Loads(dataFile), NEW k \in Keys
    PROVE  LookupTables(ts, k) = Recoverable[k]
<1>1. ts = FileTables(dataFile)
  BY LoadsHoldFile DEF IInv
<1> QED
  BY <1>1 DEF Recoverable

\* A file without tables answers nothing.
LEMMA EmptyFileAnswers ==
    ASSUME NEW k
    PROVE  LookupTables(FileTables(EmptyImage), k) = NoValue
<1>1. FileTables(EmptyImage) = <<>>
  BY EmptyTree, ImageHoldsTables DEF EmptyImage
<1>2. {i \in DOMAIN <<>> : Search(<<>>[i], k) # 0} = {}
  OBVIOUS
<1> QED
  BY <1>1, <1>2 DEF LookupTables

\* The key-value store's actions, one per action of the tree.
LEMMA OpenImplements == ASSUME IInv, Open PROVE KV!Open
<1>1. memtable' = <<>> /\ dataFile' = dataFile
  BY DEF IInv, Open, NoMemtableUnlessUp
<1>2. View' = [k \in Keys |-> Lookup(memtable', sstables', k)]
  BY DEF View, Open
<1>3. ASSUME IsWhole(dataFile) PROVE View' = Recoverable
  <2>1. ASSUME NEW k \in Keys PROVE Lookup(memtable', sstables', k) = Recoverable[k]
    BY <1>1, <1>3, EmptyMemtableAnswers, LoadsAnswer DEF Open
  <2>2. Recoverable = [k \in Keys |-> Recoverable[k]]
    BY <1>3 DEF Recoverable
  <2> QED
    BY <1>2, <2>1, <2>2, Zenon
<1>4. View' \in [Keys -> Vals \cup {NoValue}]
  <2>1. memtable' \in Table /\ sstables' \in Seq(Table)
    BY <1>1, EmptyTree, LoadsHoldFile DEF IInv, Open
  <2>2. \A k \in Keys : Lookup(memtable', sstables', k) \in Vals \cup {NoValue}
    BY <2>1, AnswersAreValues
  <2> QED
    BY <1>2, <2>2
<1>5. Recoverable' = Recoverable /\ IsWhole(dataFile)' = IsWhole(dataFile)
  BY <1>1 DEF Recoverable, IsWhole, FileTables
<1> QED
  BY <1>3, <1>4, <1>5 DEF Open, KV!Open

\* A put answers for its own key at once, and lets the others drift.
LEMMA PutImplements ==
    ASSUME IInv, OrderInv, NEW k \in Keys, NEW v \in Vals, Put(k, v)
    PROVE  KV!Put(k, v)
<1> DEFINE s == Stored[k]
           w == Kept[v]
           p == [key |-> s, value |-> w]
<1>1. memtable \in Table /\ <<>> \in Table
  BY EmptyTree DEF IInv, TypeOK
<1>2. s \in Keys /\ w \in Vals
  BY PutFits
<1>3. \/ Flush /\ memtable' = <<p>>
      \/ memtable' = Append(memtable, p) /\ UNCHANGED <<sstables, compacted>>
  BY DEF Put
<1> HIDE DEF s, w
<1>4. /\ Lookup(memtable', sstables', s) = w
      /\ \A j \in Keys \ {s} : KV!MayDrift(j, Lookup(memtable, sstables, j),
                                               Lookup(memtable', sstables', j))
  <2>1. CASE Flush /\ memtable' = <<p>>
    <3>1. memtable' = Append(<<>>, p)
      BY <2>1
    <3>2. PICK empty \in Table : empty = <<>>
      BY <1>1
    <3>3. /\ Lookup(Append(empty, p), sstables', s) = w
          /\ \A j \in Keys \ {s} :
                Lookup(Append(empty, p), sstables', j) = Lookup(empty, sstables', j)
      BY <1>2, PutAnswers
    <3>4. /\ Lookup(memtable', sstables', s) = w
          /\ \A j \in Keys \ {s} : Lookup(memtable', sstables', j) = LookupTables(sstables', j)
      BY <3>1, <3>2, <3>3, EmptyMemtableAnswers, Zenon
    <3> QED
      BY <2>1, <3>4, FlushDrifts
  <2>2. CASE memtable' = Append(memtable, p) /\ UNCHANGED <<sstables, compacted>>
    <3>1. /\ Lookup(memtable', sstables, s) = w
          /\ \A j \in Keys \ {s} :
                Lookup(memtable', sstables, j) = Lookup(memtable, sstables, j)
      BY <1>1, <1>2, <2>2, PutAnswers
    <3> QED
      BY <2>2, <3>1 DEF KV!MayDrift
  <2> QED
    BY <1>3, <2>1, <2>2
<1>5. /\ View = [j \in Keys |-> Lookup(memtable, sstables, j)]
      /\ View' = [j \in Keys |-> Lookup(memtable', sstables', j)]
  BY DEF Put, View
<1>6. /\ View'[s] = w
      /\ \A j \in Keys \ {s} : KV!MayDrift(j, View[j], View'[j])
  BY <1>2, <1>4, <1>5
<1>7. Recoverable' = Recoverable /\ IsWhole(dataFile)' = IsWhole(dataFile)
  BY DEF Put, Recoverable, IsWhole, FileTables
<1> QED
  BY <1>6, <1>7 DEF Put, Record, KV!Put, s, w

\* A close without puts leaves what a start reads; one with puts drops it until
\* the save is complete.
LEMMA ClosesImplement ==
    ASSUME IInv, OrderInv
    PROVE  /\ CloseIdle => KV!CloseIdle
           /\ CloseBegin => KV!CloseBegin
           /\ CloseEnd => KV!CloseEnd
<1>1. ASSUME CloseIdle PROVE KV!CloseIdle
  <2>1. phase = "up" /\ memtable = <<>> /\ sstables \in Loads(dataFile)
    BY <1>1 DEF CloseIdle, IInv, IdleMatchesDisk
  <2>2. ASSUME IsWhole(dataFile) PROVE View = Recoverable
    <3>1. ASSUME NEW k \in Keys PROVE Lookup(memtable, sstables, k) = Recoverable[k]
      BY <2>1, <2>2, EmptyMemtableAnswers, LoadsAnswer
    <3>2. /\ Recoverable = [k \in Keys |-> Recoverable[k]]
          /\ View = [k \in Keys |-> Lookup(memtable, sstables, k)]
      BY <2>1, <2>2 DEF Recoverable, View
    <3> QED
      BY <3>1, <3>2, Zenon
  <2>3. View' = KV!Nothing
    BY <1>1 DEF CloseIdle, Die, View, Nothing, KV!Nothing
  <2>4. Recoverable' = Recoverable /\ IsWhole(dataFile)' = IsWhole(dataFile)
    BY <1>1 DEF CloseIdle, Recoverable, IsWhole, FileTables
  <2> QED
    BY <1>1, <2>2, <2>3, <2>4 DEF CloseIdle, Die, history, KV!CloseIdle
<1>2. ASSUME CloseBegin PROVE KV!CloseBegin
  <2>1. /\ Flush /\ memtable' = <<>> /\ phase = "up" /\ phase' = "saving"
        /\ dataFile' = EmptyImage
        /\ UNCHANGED <<written, torn>>
    BY <1>2 DEF CloseBegin
  <2>2. /\ View = [k \in Keys |-> Lookup(memtable, sstables, k)]
        /\ View' = [k \in Keys |-> Lookup(memtable', sstables', k)]
    BY <2>1 DEF View
  <2>3. ASSUME NEW k \in Keys PROVE KV!MayDrift(k, View[k], View'[k])
    <3>1. View[k] = Lookup(memtable, sstables, k) /\ View'[k] = LookupTables(sstables', k)
      BY <2>1, <2>2, EmptyMemtableAnswers
    <3> QED
      BY <2>1, <3>1, FlushDrifts
  <2>4. IsWhole(dataFile') /\ IsWhole(dataFile)' = TRUE
    BY <2>1, EmptyFile DEF IsWhole
  <2>5. Recoverable' = KV!Nothing
    BY <2>1, <2>4, EmptyFileAnswers DEF Recoverable, KV!Nothing
  <2> QED
    BY <2>1, <2>3, <2>4, <2>5 DEF KV!CloseBegin
<1>3. ASSUME CloseEnd PROVE KV!CloseEnd
  <2>1. /\ phase = "saving" /\ dataFile = EmptyImage /\ memtable = <<>>
        /\ sstables \in Seq(Table) /\ Len(sstables) <= MaxSSTables
        /\ phase' = "down" /\ UNCHANGED <<written, torn>>
    BY <1>3 DEF CloseEnd, Die, history, IInv, TypeOK, NoMemtableUnlessUp, NothingSavedYet
  <2>2. IsWhole(dataFile') /\ FileTables(dataFile') = sstables
    BY <1>3, <2>1, ImageHoldsTables DEF CloseEnd
  <2>3. Recoverable' = View
    <3>1. View = [k \in Keys |-> Lookup(memtable, sstables, k)]
      BY <2>1 DEF View
    <3>2. Recoverable' = [k \in Keys |-> LookupTables(sstables, k)]
      BY <2>2 DEF Recoverable
    <3>3. \A k \in Keys : Lookup(memtable, sstables, k) = LookupTables(sstables, k)
      BY <2>1, EmptyMemtableAnswers
    <3> QED
      BY <3>1, <3>2, <3>3, Zenon
  <2>4. IsWhole(dataFile)' = IsWhole(dataFile)
    BY <2>1, <2>2, EmptyFile DEF IsWhole
  <2>5. View' = KV!Nothing
    BY <2>1 DEF View, Nothing, KV!Nothing
  <2> QED
    BY <2>1, <2>3, <2>4, <2>5 DEF KV!CloseEnd
<1> QED
  BY <1>1, <1>2, <1>3

\* A crash keeps the file as it was; in a save it leaves nothing, all of it, or
\* a file that was cut short.
LEMMA CrashesImplement ==
    ASSUME IInv, FlushExits \/ Crash
    PROVE  KV!Crash
<1>1. CASE phase = "up" /\ Die /\ UNCHANGED dataFile
  <2>1. View' = KV!Nothing
    BY <1>1 DEF Die, View, Nothing, KV!Nothing
  <2>2. Recoverable' = Recoverable /\ IsWhole(dataFile)' = IsWhole(dataFile)
    BY <1>1 DEF Recoverable, IsWhole, FileTables
  <2> QED
    BY <1>1, <2>1, <2>2 DEF Die, history, KV!Crash
<1>2. CASE /\ phase = "saving" /\ dataFile' \in Prefixes(sstables)
           /\ torn' = (torn \/ ~IsWhole(dataFile'))
           /\ phase' = "down" /\ UNCHANGED <<written, latest, compacted, madeUp>>
  <2>1. /\ dataFile = EmptyImage /\ IsWhole(dataFile) /\ memtable = <<>> /\ torn \in BOOLEAN
        /\ sstables \in Seq(Table) /\ Len(sstables) <= MaxSSTables
    BY <1>2, EmptyFile DEF IInv, TypeOK, NoMemtableUnlessUp, NothingSavedYet
  <2>2. View' = KV!Nothing
    BY <1>2 DEF View, Nothing, KV!Nothing
  <2>3. CASE dataFile' = EmptyImage
    <3>1. Recoverable' = Recoverable /\ IsWhole(dataFile)' = IsWhole(dataFile)
      BY <2>1, <2>3 DEF Recoverable, IsWhole, FileTables
    <3>2. torn' = torn
      BY <1>2, <2>1, <2>3
    <3> QED
      BY <1>2, <2>2, <3>1, <3>2 DEF KV!Crash
  <2>4. CASE IsWhole(dataFile') /\ FileTables(dataFile') = sstables
    <3>1. Recoverable' = View
      <4>1. View = [k \in Keys |-> Lookup(memtable, sstables, k)]
        BY <1>2 DEF View
      <4>2. Recoverable' = [k \in Keys |-> LookupTables(sstables, k)]
        BY <2>4 DEF Recoverable
      <4>3. \A k \in Keys : Lookup(memtable, sstables, k) = LookupTables(sstables, k)
        BY <2>1, EmptyMemtableAnswers
      <4> QED
        BY <4>1, <4>2, <4>3, Zenon
    <3>2. IsWhole(dataFile)' = IsWhole(dataFile) /\ torn' = torn
      BY <1>2, <2>1, <2>4 DEF IsWhole
    <3> QED
      BY <1>2, <2>2, <3>1, <3>2 DEF KV!Crash
  <2>5. CASE ~IsWhole(dataFile')
    <3>1. Recoverable' = KV!Nothing
      BY <2>5 DEF Recoverable, Nothing, KV!Nothing
    <3>2. IsWhole(dataFile)' = FALSE /\ torn' = TRUE
      BY <1>2, <2>5 DEF IsWhole
    <3> QED
      BY <1>2, <2>2, <3>1, <3>2 DEF KV!Crash
  <2> QED
    BY <1>2, <2>1, <2>3, <2>4, <2>5, PrefixesHoldTables
<1> QED
  BY <1>1, <1>2 DEF FlushExits, Crash

\* For all keys, values and sizes, whatever is cut off a long key or value: what
\* a get returns is what the key-value store of module KVStore allows, through
\* flushes, compactions, saves, crashes in the middle of them, and starts.
THEOREM StoreIsImplemented == Spec => ImplementsKVStore
<1>1. Init => OrderInv /\ KV!Init
  <2> SUFFICES ASSUME Init PROVE OrderInv /\ KV!Init
    OBVIOUS
  <2>1. OrderInv
    BY EmptyFile, EmptyTree DEF Init, OrderInv
  <2>2. View = KV!Nothing
    BY DEF Init, View, Nothing, KV!Nothing
  <2>3. Recoverable = KV!Nothing /\ IsWhole(dataFile) = TRUE
    <3>1. dataFile = EmptyImage /\ IsWhole(dataFile)
      BY EmptyFile DEF Init
    <3> QED
      BY <3>1, EmptyFileAnswers DEF Recoverable, KV!Nothing, IsWhole
  <2> QED
    BY <2>1, <2>2, <2>3 DEF Init, KV!Init
<1>2. IInv /\ OrderInv /\ [Next]_vars => OrderInv'
  BY NextOrder
<1>3. IInv /\ OrderInv /\ [Next]_vars => [KV!Next]_(KV!vars)
  <2> SUFFICES ASSUME IInv, OrderInv, [Next]_vars PROVE [KV!Next]_(KV!vars)
    OBVIOUS
  <2>1. CASE Open
    BY <2>1, OpenImplements DEF KV!Next
  <2>2. CASE \E k \in Keys, v \in Vals : Put(k, v)
    BY <2>2, PutImplements DEF KV!Next
  <2>3. CASE CloseIdle \/ CloseBegin \/ CloseEnd
    BY <2>3, ClosesImplement DEF KV!Next
  <2>4. CASE FlushExits \/ Crash
    BY <2>4, CrashesImplement DEF KV!Next
  <2>5. CASE UNCHANGED vars
    <3>1. /\ View' = View /\ Recoverable' = Recoverable
          /\ IsWhole(dataFile)' = IsWhole(dataFile)
      BY <2>5 DEF vars, View, Recoverable, IsWhole, FileTables
    <3> QED
      BY <2>5, <3>1 DEF vars, KV!vars
  <2> QED
    BY <2>1, <2>2, <2>3, <2>4, <2>5 DEF Next
<1> QED
  BY <1>1, <1>2, <1>3, Invariance, PTL DEF Spec, ImplementsKVStore, KV!Spec

---------------------------------------------------------------------------
(* The binary search of lsm_get, for tables of every size: the loop of     *)
(* module BinarySearch over the keys of the tree.  The argument is the     *)
(* loop invariant LoopInv: a pair with the key, if the table has one,      *)
(* lies between left and right.                                            *)

\* The middle of a nonempty interval lies inside it, and in the table.
LEMMA MidInside ==
    ASSUME LoopTypeOK, left <= right
    PROVE  /\ Mid \in Int
           /\ left <= Mid /\ Mid <= right
           /\ Mid + 1 \in DOMAIN table
<1>1. PICK n \in 0..MaxSize : table \in [1..n -> [key : Keys]]
  BY DEF LoopTypeOK, Tables
<1>2. n \in Nat /\ Len(table) = n /\ DOMAIN table = 1..n
  BY <1>1, MaxSizeAssumption
<1>3. left \in 0..n /\ right \in -1..(n - 1)
  BY <1>2 DEF LoopTypeOK
<1> QED
  BY <1>2, <1>3 DEF Mid

\* The pairs of the table have integer keys.
LEMMA TableKeys ==
    ASSUME LoopTypeOK
    PROVE  /\ key \in Int
           /\ Len(table) \in Nat
           /\ DOMAIN table = 1..Len(table)
           /\ \A i \in DOMAIN table : table[i].key \in Int
<1>1. PICK n \in 0..MaxSize : table \in [1..n -> [key : Keys]]
  BY DEF LoopTypeOK, Tables
<1>2. n \in Nat /\ Len(table) = n /\ DOMAIN table = 1..n
  BY <1>1, MaxSizeAssumption
<1>3. Keys \subseteq Int
  BY KeysAssumption
<1> QED
  BY <1>1, <1>2, <1>3 DEF LoopTypeOK

\* A search starts with the whole table as its interval.
LEMMA LoopStarts ==
    ASSUME LoopInit
    PROVE  LoopInv
<1>1. PICK n \in 0..MaxSize : table \in [1..n -> [key : Keys]]
  BY DEF LoopInit, Tables
<1>2. n \in Nat /\ Len(table) = n /\ DOMAIN table = 1..n
  BY <1>1, MaxSizeAssumption
<1>3. LoopTypeOK
  BY <1>2 DEF LoopInit, LoopTypeOK
<1>4. Narrowing
  BY <1>2 DEF LoopInit, Narrowing
<1> QED
  BY <1>3, <1>4 DEF LoopInit, LoopInv

\* Every iteration halves the interval without losing the key from it.
LEMMA LoopKeeps ==
    ASSUME LoopInv, [LoopNext]_loopVars
    PROVE  LoopInv'
<1> USE DEF LoopInv
<1>1. CASE Hit
  <2>1. LoopTypeOK'
    BY <1>1 DEF Hit, LoopTypeOK
  <2>2. Narrowing'
    BY <1>1 DEF Hit, Narrowing
  <2> QED
    BY <1>1, <2>1, <2>2 DEF Hit, Sorted, Probe, Mid
<1>2. CASE GoRight
  <2>1. /\ Mid \in Int /\ left <= Mid /\ Mid <= right
        /\ Mid + 1 \in DOMAIN table
    BY <1>2, MidInside DEF GoRight
  <2>2. LoopTypeOK'
    BY <1>2, <2>1, TableKeys DEF GoRight, LoopTypeOK
  <2>3. Narrowing'
    <3> SUFFICES ASSUME NEW i \in DOMAIN table, table[i].key = key
                 PROVE  left' < i /\ i <= right + 1
      BY <1>2 DEF GoRight, Narrowing
    <3>1. left < i /\ i <= right + 1
      BY <1>2 DEF GoRight, Narrowing
    <3>2. i > Mid + 1
      <4>1. i < Mid + 1 => table[i].key <= table[Mid + 1].key
        BY <2>1 DEF Sorted
      <4> QED
        BY <1>2, <2>1, <4>1, TableKeys DEF GoRight, Probe
    <3> QED
      BY <1>2, <2>1, <3>1, <3>2, TableKeys DEF GoRight
  <2> QED
    BY <1>2, <2>2, <2>3 DEF GoRight, Sorted
<1>3. CASE GoLeft
  <2>1. /\ Mid \in Int /\ left <= Mid /\ Mid <= right
        /\ Mid + 1 \in DOMAIN table
    BY <1>3, MidInside DEF GoLeft
  <2>2. LoopTypeOK'
    BY <1>3, <2>1, TableKeys DEF GoLeft, LoopTypeOK
  <2>3. Narrowing'
    <3> SUFFICES ASSUME NEW i \in DOMAIN table, table[i].key = key
                 PROVE  left < i /\ i <= right' + 1
      BY <1>3 DEF GoLeft, Narrowing
    <3>1. left < i /\ i <= right + 1
      BY <1>3 DEF GoLeft, Narrowing
    <3>2. i < Mid + 1
      <4>1. i > Mid + 1 => table[Mid + 1].key <= table[i].key
        BY <2>1 DEF Sorted
      <4> QED
        BY <1>3, <2>1, <4>1, TableKeys DEF GoLeft, Probe
    <3> QED
      BY <1>3, <2>1, <3>1, <3>2, TableKeys DEF GoLeft
  <2> QED
    BY <1>3, <2>2, <2>3 DEF GoLeft, Sorted
<1>4. CASE Miss
  <2>1. LoopTypeOK'
    BY <1>4 DEF Miss, LoopTypeOK
  <2>2. Narrowing'
    BY <1>4 DEF Miss, Narrowing
  <2> QED
    BY <1>4, <2>1, <2>2 DEF Miss, Sorted
<1>5. CASE UNCHANGED loopVars
  BY <1>5 DEF loopVars, LoopTypeOK, Sorted, Narrowing, Probe, Mid
<1> QED
  BY <1>1, <1>2, <1>3, <1>4, <1>5 DEF LoopNext

\* The strengthened invariant holds in every state.
THEOREM LoopInvariance == LoopSpec => []LoopInv
<1> QED
  BY LoopStarts, LoopKeeps, PTL DEF LoopSpec

\* For every table size: the search of lsm_get answers "missing" only for a
\* key the table does not have, and stops only on a pair with the key.
THEOREM SearchCorrect == LoopSpec => []SearchIsRight
<1>1. LoopInv => SearchIsRight
  <2> SUFFICES ASSUME LoopInv, pc = "missing", key \in KeysIn(Range(table))
               PROVE  FALSE
    BY DEF LoopInv, SearchIsRight
  <2>1. PICK i \in DOMAIN table : table[i].key = key
    BY DEF KeysIn, Range
  <2>2. left < i /\ i <= right + 1 /\ left > right
    BY <2>1 DEF LoopInv, Narrowing
  <2> QED
    BY <2>2, TableKeys DEF LoopInv, LoopTypeOK
<1> QED
  BY <1>1, LoopInvariance, PTL

\* For every table size: no iteration reads outside the pairs of the table.
THEOREM ProbesInTable == LoopSpec => []ProbeInTable
<1>1. LoopInv => ProbeInTable
  BY MidInside DEF LoopInv, ProbeInTable
<1> QED
  BY <1>1, LoopInvariance, PTL
---------------------------------------------------------------------------
(* The loop and the recursive Search stop at the same position: what is    *)
(* left of the table at each iteration gives the answer of the whole.      *)

LoopFollowsSeek ==
    \A f : (\A i \in Spans(table) : f[i] = Seek(f, table, key, i))
          => f[<<left + 1, right + 1>>] = f[<<1, Len(table)>>]

\* The part of the table between left and right, in positions from 1.
LEMMA LoopSpan ==
    ASSUME LoopTypeOK, left <= right
    PROVE  LET i == <<left + 1, right + 1>>
           IN  /\ i \in Spans(table)
               /\ ~(i[1] > i[2])
               /\ MidOf(i) = Mid + 1
               /\ i[1] = left + 1 /\ i[2] = right + 1
<1>1. left \in 0..Len(table) /\ right \in -1..(Len(table) - 1) /\ Len(table) \in Nat
  BY TableKeys DEF LoopTypeOK
<1>2. /\ left \in Int /\ right \in Int
      /\ left + 1 \in 1..(Len(table) + 1) /\ right + 1 \in 0..Len(table)
      /\ ~(left + 1 > right + 1)
      /\ (right + 1) - (left + 1) = right - left
  BY <1>1
<1>3. (left + 1) + (right - left) \div 2 = (left + (right - left) \div 2) + 1
  BY <1>2
<1> QED
  BY <1>2, <1>3 DEF Spans, MidOf, Mid

\* Every iteration goes on with the part that Search goes on with.
LEMMA LoopKeepsSeek ==
    ASSUME LoopInv, LoopFollowsSeek, [LoopNext]_loopVars
    PROVE  LoopFollowsSeek'
<1>0. LoopTypeOK /\ left \in Int /\ right \in Int /\ Mid \in Int
  BY TableKeys DEF LoopInv, LoopTypeOK, Mid
<1>1. CASE GoRight
  <2>1. /\ left <= right /\ left' = Mid + 1
        /\ table[Mid + 1].key < key
        /\ right' = right /\ table' = table /\ key' = key
    BY <1>1 DEF GoRight, Probe
  <2>2. SUFFICES ASSUME NEW f, \A i \in Spans(table) : f[i] = Seek(f, table, key, i)
                 PROVE  f[<<Mid + 2, right + 1>>] = f[<<1, Len(table)>>]
    BY <1>0, <2>1 DEF LoopFollowsSeek
  <2> DEFINE i == <<left + 1, right + 1>>
  <2>3. f[i] = f[<<1, Len(table)>>]
    BY <2>2 DEF LoopFollowsSeek
  <2>4. /\ i \in Spans(table) /\ ~(i[1] > i[2]) /\ MidOf(i) = Mid + 1
        /\ i[2] = right + 1
    BY <1>0, <2>1, LoopSpan
  <2> HIDE DEF i
  <2>5. table[Mid + 1].key # key
    BY <2>1, <1>0, TableKeys, MidInside
  <2>6. f[i] = f[<<(Mid + 1) + 1, right + 1>>]
    BY <2>1, <2>2, <2>4, <2>5 DEF Seek
  <2> QED
    BY <1>0, <2>3, <2>6
<1>2. CASE GoLeft
  <2>1. /\ left <= right /\ right' = Mid - 1
        /\ table[Mid + 1].key > key
        /\ left' = left /\ table' = table /\ key' = key
    BY <1>2 DEF GoLeft, Probe
  <2>2. SUFFICES ASSUME NEW f, \A i \in Spans(table) : f[i] = Seek(f, table, key, i)
                 PROVE  f[<<left + 1, Mid>>] = f[<<1, Len(table)>>]
    BY <1>0, <2>1 DEF LoopFollowsSeek
  <2> DEFINE i == <<left + 1, right + 1>>
  <2>3. f[i] = f[<<1, Len(table)>>]
    BY <2>2 DEF LoopFollowsSeek
  <2>4. /\ i \in Spans(table) /\ ~(i[1] > i[2]) /\ MidOf(i) = Mid + 1
        /\ i[1] = left + 1
    BY <1>0, <2>1, LoopSpan
  <2> HIDE DEF i
  <2>5. table[Mid + 1].key # key /\ ~(table[Mid + 1].key < key)
    BY <2>1, <1>0, TableKeys, MidInside
  <2>6. f[i] = f[<<left + 1, (Mid + 1) - 1>>]
    BY <2>2, <2>4, <2>5 DEF Seek
  <2> QED
    BY <1>0, <2>3, <2>6
<1>3. CASE Hit \/ Miss \/ UNCHANGED loopVars
  <2>1. table' = table /\ key' = key /\ left' = left /\ right' = right
    BY <1>3 DEF Hit, Miss, loopVars
  <2> QED
    BY <2>1 DEF LoopFollowsSeek
<1> QED
  BY <1>1, <1>2, <1>3 DEF LoopNext

\* Where the loop stops is where Search stops.
LEMMA LoopStopsAsSearch ==
    ASSUME LoopInv, LoopFollowsSeek
    PROVE  SearchAgrees
<1> SUFFICES ASSUME pc # "loop"
             PROVE  Search(table, key) = IF pc = "found" THEN Mid + 1 ELSE 0
  BY DEF SearchAgrees
<1> DEFINE i == <<left + 1, right + 1>>
<1>1. /\ LoopTypeOK /\ Len(table) \in Nat
      /\ left \in Int /\ right \in Int
      /\ left \in 0..Len(table) /\ right \in -1..(Len(table) - 1)
  BY TableKeys DEF LoopInv, LoopTypeOK
<1>3. PICK f : /\ Search(table, key) = f[<<1, Len(table)>>]
               /\ \A j \in Spans(table) : f[j] = Seek(f, table, key, j)
  BY <1>1, SearchUnfolds
<1>4. Search(table, key) = f[i]
  BY <1>3 DEF LoopFollowsSeek
<1>5. i \in Spans(table)
  BY <1>1 DEF Spans
<1>6. CASE pc = "found"
  <2>1. left <= right /\ table[Mid + 1].key = key
    BY <1>6 DEF LoopInv, Probe
  <2>2. ~(i[1] > i[2]) /\ MidOf(i) = Mid + 1
    BY <1>1, <2>1, LoopSpan
  <2> HIDE DEF i
  <2>3. f[i] = Mid + 1
    BY <1>3, <1>5, <2>1, <2>2 DEF Seek
  <2> QED
    BY <1>4, <1>6, <2>3
<1>7. CASE pc = "missing"
  <2>1. i[1] > i[2]
    BY <1>1, <1>7 DEF LoopInv
  <2>2. f[i] = 0
    BY <1>3, <1>5, <2>1 DEF Seek
  <2> QED
    BY <1>4, <1>7, <2>2
<1> QED
  BY <1>1, <1>6, <1>7 DEF LoopTypeOK

\* For every table size: the loop of lsm_get stops exactly where the recursive
\* search stops that stands for it in the model of the tree.
THEOREM SearchesAgree == LoopSpec => []SearchAgrees
<1>1. LoopInit => LoopFollowsSeek
  <2> SUFFICES ASSUME LoopInit PROVE LoopFollowsSeek
    OBVIOUS
  <2>1. left = 0 /\ right = Len(table) - 1 /\ Len(table) \in Nat
    BY LoopStarts, TableKeys DEF LoopInit, LoopInv
  <2>2. left + 1 = 1 /\ right + 1 = Len(table)
    BY <2>1
  <2> QED
    BY <2>2 DEF LoopFollowsSeek
<1>2. LoopInv /\ LoopFollowsSeek /\ [LoopNext]_loopVars => LoopFollowsSeek'
  BY LoopKeepsSeek
<1>3. LoopInv /\ LoopFollowsSeek => SearchAgrees
  BY LoopStopsAsSearch
<1> QED
  BY <1>1, <1>2, <1>3, LoopInvariance, PTL DEF LoopSpec
=============================================================================
