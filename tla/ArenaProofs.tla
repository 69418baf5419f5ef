----------------------------- MODULE ArenaProofs -----------------------------
(***************************************************************************)
(* The blocks of the arena, for all sizes and any number of chunks.        *)
(*                                                                         *)
(* That a new block overlaps no other one needs every block to end below   *)
(* the used part of its chunk, and a block's chunk to be the only one with *)
(* its number: chunks are numbered apart and lie in one place, the list or *)
(* current.                                                                *)
(***************************************************************************)
EXTENDS Arena, FiniteSetTheorems, TLAPS

---------------------------------------------------------------------------
(* The invariant. *)

\* No two chunks, in the list or current, have the same number.
Apart ==
    /\ \A i, j \in DOMAIN old : old[i].id = old[j].id => i = j
    /\ current # NoChunk => \A i \in DOMAIN old : old[i].id # current.id

\* Chunks have numbers that were given out, and are used up to their size.
Sound(c) == c.id <= maps /\ c.used <= c.size
AllSound ==
    /\ current # NoChunk => Sound(current)
    /\ \A i \in DOMAIN old : Sound(old[i])

\* The chunk that a block is in.
Holds(c, b) == c.id = b.chunk /\ b.offset + b.size <= c.used
Held ==
    \A b \in blocks :
        \/ current # NoChunk /\ Holds(current, b)
        \/ \E i \in DOMAIN old : Holds(old[i], b)

IInv == TypeOK /\ Apart /\ AllSound /\ Held /\ BlocksDisjoint /\ CountIsRight

---------------------------------------------------------------------------
(* Sizes. *)

\* Rounding up gives a multiple that is not zero.
LEMMA RoundUpType ==
    ASSUME NEW n \in Nat \ {0}, NEW unit \in Nat \ {0}
    PROVE  RoundUp(n, unit) \in Nat \ {0}
<1> DEFINE q == (n + unit - 1) \div unit
<1>1. q \in Nat /\ q >= 1
  OBVIOUS
<1> HIDE DEF q
<1>2. q * unit \in Nat /\ q * unit # 0
  BY <1>1
<1> QED
  BY <1>2 DEF RoundUp, q

\* The size that is cut for a request, and the chunk that is made for it.
LEMMA RequestSizes ==
    ASSUME NEW requested \in 1..MaxAlloc
    PROVE  LET size == RoundUp(requested, Alignment)
               mapped == RoundUp(NewChunkSize(size), Page)
           IN  size \in Nat \ {0} /\ mapped \in Nat \ {0} /\ size <= mapped
<1> DEFINE size == RoundUp(requested, Alignment)
           mapped == RoundUp(NewChunkSize(size), Page)
<1>1. Alignment \in Nat \ {0} /\ Page \in Nat \ {0} /\ MaxAlloc \in Nat
  BY PositiveAssumption
<1>2. size \in Nat \ {0}
  BY <1>1, RoundUpType
<1>3. NewChunkSize(size) \in Nat \ {0} /\ size <= mapped
  BY FitsAssumption
<1>4. mapped \in Nat \ {0}
  BY <1>1, <1>3, RoundUpType
<1> QED
  BY <1>2, <1>3, <1>4

---------------------------------------------------------------------------
(* Positions. *)

\* What is left of a list without one of its chunks.
LEMMA WithoutOne ==
    ASSUME old \in Seq(Chunk), NEW i \in DOMAIN old
    PROVE  /\ Without(i) \in Seq(Chunk)
           /\ Len(Without(i)) = Len(old) - 1
           /\ DOMAIN Without(i) = 1..(Len(old) - 1)
           /\ \A j \in DOMAIN Without(i) :
                 Without(i)[j] = old[IF j < i THEN j ELSE j + 1]
           /\ \A k \in DOMAIN old : k # i =>
                 \E j \in DOMAIN Without(i) : Without(i)[j] = old[k]
<1>1. DOMAIN old = 1..Len(old) /\ Len(old) \in Nat /\ Len(old) - 1 \in Nat
  OBVIOUS
<1>2. \A j \in 1..(Len(old) - 1) : (IF j < i THEN j ELSE j + 1) \in DOMAIN old
  BY <1>1
<1>3. \A k \in DOMAIN old : old[k] \in Chunk
  OBVIOUS
<1>4. Without(i) \in Seq(Chunk) /\ Len(Without(i)) = Len(old) - 1
  BY <1>1, <1>2, <1>3 DEF Without
<1>5. \A j \in 1..(Len(old) - 1) : Without(i)[j] = old[IF j < i THEN j ELSE j + 1]
  BY DEF Without
<1>6. ASSUME NEW k \in DOMAIN old, k # i
      PROVE  \E j \in 1..(Len(old) - 1) : Without(i)[j] = old[k]
  <2>1. CASE k < i
    <3>1. k \in 1..(Len(old) - 1)
      BY <1>1, <2>1
    <3> QED
      BY <1>5, <2>1, <3>1
  <2>2. CASE k > i
    <3>1. k - 1 \in 1..(Len(old) - 1) /\ ~(k - 1 < i) /\ (k - 1) + 1 = k
      BY <1>1, <2>2
    <3> QED
      BY <1>5, <3>1
  <2> QED
    BY <1>1, <1>6, <2>1, <2>2
<1>7. DOMAIN Without(i) = 1..(Len(old) - 1)
  BY DEF Without
<1> QED
  BY <1>4, <1>5, <1>6, <1>7

\* A walk comes to every position once.
LEMMA WalksVisitAll ==
    ASSUME NEW n \in Nat, NEW positions \in SUBSET (1..n), NEW walk \in Walks(positions)
    PROVE  /\ IsFiniteSet(positions) /\ Cardinality(positions) \in Nat
           /\ walk \in [1..Cardinality(positions) -> positions]
           /\ \A i, j \in DOMAIN walk : walk[i] = walk[j] => i = j
           /\ \A p \in positions : \E i \in DOMAIN walk : walk[i] = p
<1>1. IsFiniteSet(1..n)
  BY FS_Interval
<1>2. IsFiniteSet(positions) /\ Cardinality(positions) \in Nat
  BY <1>1, FS_Subset, FS_CardinalityType
<1> DEFINE c == Cardinality(positions)
<1>3. walk \in [1..c -> positions] /\ \A i, j \in 1..c : i < j => walk[i] < walk[j]
  BY DEF Walks
<1> HIDE DEF c
<1>4. c \in Nat
  BY <1>2 DEF c
<1>10. \A p \in positions : p \in Nat
  OBVIOUS
<1>11. \A i \in 1..c : walk[i] \in positions
  BY <1>3
<1>5. \A i, j \in 1..c : walk[i] = walk[j] => i = j
  <2> SUFFICES ASSUME NEW i \in 1..c, NEW j \in 1..c, walk[i] = walk[j] PROVE i = j
    OBVIOUS
  <2>1. ~(i < j) /\ ~(j < i)
    <3>1. walk[i] \in Nat
      BY <1>10, <1>11
    <3> QED
      BY <1>3, <3>1
  <2> QED
    BY <1>4, <2>1
<1>6. walk \in Injection(1..c, positions)
  BY <1>3, <1>5 DEF Injection, IsInjective
<1>7. Cardinality(1..c) = c
  BY <1>4, FS_Interval
<1>8. walk \in Surjection(1..c, positions)
  BY <1>2, <1>6, <1>7, FS_Injection DEF c
<1>9. \A p \in positions : \E i \in 1..c : walk[i] = p
  BY <1>8 DEF Surjection
<1> QED
  BY <1>2, <1>3, <1>5, <1>9 DEF c

---------------------------------------------------------------------------
(* Cutting a block. *)

\* A chunk is used only if it is one, and a block is held by a used chunk only.
LEMMA UsedIsChunk ==
    ASSUME TypeOK
    PROVE  /\ current.used \in Nat
           /\ current.used > 0 => current # NoChunk /\ current \in Chunk
           /\ current # NoChunk => current \in Chunk
           /\ \A b \in blocks, c \in Chunk : Holds(c, b) => c.used > 0
<1>1. current = NoChunk => current.used = 0
  BY DEF NoChunk
<1>2. current # NoChunk => current \in Chunk
  BY DEF TypeOK
<1>3. \A c \in Chunk : c.used \in Nat
  BY DEF Chunk
<1>4. \A b \in blocks : b.offset \in Nat /\ b.size \in Nat \ {0}
  BY DEF TypeOK, Block
<1>5. \A b \in blocks, c \in Chunk : Holds(c, b) => c.used > 0
  BY <1>3, <1>4 DEF Holds
<1> QED
  BY <1>1, <1>2, <1>3, <1>5

\* A chunk is not the same as none.
LEMMA ChunkIsSome ==
    \A c \in Chunk : c # NoChunk
BY DEF Chunk, NoChunk

\* A block cut from the chunk that becomes current, when every other chunk is
\* in the new list: it ends the used part, and all other blocks of the chunk end
\* where it begins.
LEMMA CutKeeps ==
    ASSUME NEW ch \in Chunk, NEW size \in Nat \ {0},
           CutFrom(ch, size), ch.used + size <= ch.size, ch.id <= maps',
           maps' \in Nat, blocks \subseteq Block, BlocksDisjoint,
           old' \in Seq(Chunk),
           \A i, j \in DOMAIN old' : old'[i].id = old'[j].id => i = j,
           \A i \in DOMAIN old' : old'[i].id # ch.id,
           \A i \in DOMAIN old' : old'[i].id <= maps' /\ old'[i].used <= old'[i].size,
           \A b \in blocks :
              Holds(ch, b) \/ \E i \in DOMAIN old' : Holds(old'[i], b)
    PROVE  /\ current' \in Chunk /\ current' # NoChunk
           /\ blocks' \subseteq Block /\ returned' \in Block
           /\ Apart' /\ AllSound' /\ Held' /\ BlocksDisjoint'
<1> DEFINE block == [chunk |-> ch.id, offset |-> ch.used, size |-> size]
<1>1. /\ current' = [ch EXCEPT !.used = @ + size]
      /\ blocks' = blocks \cup {block}
      /\ returned' = block
  BY DEF CutFrom
<1>2. ch.id \in 1..MaxMaps /\ ch.used \in Nat /\ ch.size \in Nat
  BY DEF Chunk
<1>3. /\ current' \in Chunk
      /\ current'.id = ch.id /\ current'.used = ch.used + size /\ current'.size = ch.size
  <2>1. ch.used + size \in Nat
    BY <1>2
  <2> DEFINE used == ch.used + size
  <2> HIDE DEF used
  <2>2. [ch EXCEPT !.used = used] \in Chunk
    BY <2>1 DEF Chunk, used
  <2>3. current' = [ch EXCEPT !.used = used]
    BY <1>1 DEF used
  <2> QED
    BY <2>2, <2>3 DEF Chunk, used
<1>4. block \in Block /\ block.chunk = ch.id /\ block.offset = ch.used /\ block.size = size
  BY <1>2 DEF Block
<1>5. current' # NoChunk
  BY <1>3, ChunkIsSome
<1> HIDE DEF block
<1>6. Apart'
  BY <1>3 DEF Apart
<1>7. AllSound'
  BY <1>3 DEF AllSound, Sound
<1>8. \A b \in blocks : b.chunk \in 1..MaxMaps /\ b.offset \in Nat /\ b.size \in Nat
  BY DEF Block
<1>9. ASSUME NEW b \in blocks'
      PROVE  \/ current' # NoChunk /\ Holds(current', b)
             \/ \E i \in DOMAIN old' : Holds(old'[i], b)
  <2>1. CASE b \in blocks /\ Holds(ch, b)
    <3>1. Holds(current', b)
      BY <1>2, <1>3, <1>8, <2>1 DEF Holds
    <3> QED
      BY <1>5, <3>1
  <2>2. CASE b = block
    <3>1. Holds(current', b)
      BY <1>2, <1>3, <1>4, <2>2 DEF Holds
    <3> QED
      BY <1>5, <3>1
  <2> QED
    BY <1>1, <2>1, <2>2
<1>10. Held'
  BY <1>9 DEF Held, Holds
<1>11. ASSUME NEW a \in blocks, a.chunk = ch.id
       PROVE  a.offset + a.size <= block.offset
  <2>1. Holds(ch, a)
    BY <1>11 DEF Holds
  <2> QED
    BY <1>4, <2>1 DEF Holds
<1>12. BlocksDisjoint'
  <2> SUFFICES ASSUME NEW a \in blocks', NEW b \in blocks', a # b, a.chunk = b.chunk
               PROVE  a.offset + a.size <= b.offset \/ b.offset + b.size <= a.offset
    BY DEF BlocksDisjoint
  <2>1. CASE a \in blocks /\ b \in blocks
    BY <2>1 DEF BlocksDisjoint
  <2>2. CASE a = block /\ b \in blocks
    BY <1>4, <1>11, <2>2
  <2>3. CASE a \in blocks /\ b = block
    BY <1>4, <1>11, <2>3
  <2> QED
    BY <1>1, <2>1, <2>2, <2>3
<1> QED
  BY <1>1, <1>3, <1>4, <1>5, <1>6, <1>7, <1>8, <1>10, <1>12 DEF TypeOK

\* The list after the current chunk is retired into it.
LEMMA RetiredList ==
    ASSUME TypeOK, NEW list \in Seq(Chunk)
    PROVE  /\ Retire(list) \in Seq(Chunk)
           /\ Len(Retire(list)) = Len(list) + (IF current.used > 0 THEN 1 ELSE 0)
           /\ \A j \in DOMAIN Retire(list) :
                 \/ current.used > 0 /\ j = 1 /\ Retire(list)[j] = current
                 \/ /\ current.used > 0
                    /\ j - 1 \in DOMAIN list /\ Retire(list)[j] = list[j - 1]
                 \/ /\ ~(current.used > 0)
                    /\ j \in DOMAIN list /\ Retire(list)[j] = list[j]
           /\ \A k \in DOMAIN list :
                 \E j \in DOMAIN Retire(list) : Retire(list)[j] = list[k]
           /\ current.used > 0 =>
                 \E j \in DOMAIN Retire(list) : Retire(list)[j] = current
<1>1. current.used > 0 => current \in Chunk
  BY UsedIsChunk
<1>2. Len(list) \in Nat /\ DOMAIN list = 1..Len(list)
  OBVIOUS
<1>3. CASE ~(current.used > 0)
  BY <1>2, <1>3 DEF Retire
<1>4. CASE current.used > 0
  <2> DEFINE r == <<current>> \o list
  <2>1. Retire(list) = r
    BY <1>4 DEF Retire
  <2>2. r \in Seq(Chunk) /\ Len(r) = Len(list) + 1 /\ DOMAIN r = 1..(Len(list) + 1)
    BY <1>1, <1>4
  <2>3. r[1] = current /\ \A k \in DOMAIN list : k + 1 \in DOMAIN r /\ r[k + 1] = list[k]
    BY <1>1, <1>2, <1>4
  <2> HIDE DEF r
  <2>4. \A j \in DOMAIN r : j # 1 => j - 1 \in DOMAIN list /\ r[j] = list[j - 1]
    <3> SUFFICES ASSUME NEW j \in DOMAIN r, j # 1
                 PROVE  j - 1 \in DOMAIN list /\ r[j] = list[j - 1]
      OBVIOUS
    <3>1. j - 1 \in DOMAIN list /\ (j - 1) + 1 = j
      BY <1>2, <2>2
    <3> QED
      BY <2>3, <3>1
  <2>5. 1 \in DOMAIN r
    BY <1>2, <2>2
  <2> QED
    BY <1>4, <2>1, <2>2, <2>3, <2>4, <2>5
<1> QED
  BY <1>3, <1>4

---------------------------------------------------------------------------
(* The steps. *)

\* The empty arena.
LEMMA InitIInv == Init => IInv
<1> SUFFICES ASSUME Init PROVE IInv
  OBVIOUS
<1>1. TypeOK
  BY BoundsAssumption DEF Init, TypeOK
<1> QED
  BY <1>1 DEF Init, IInv, Apart, AllSound, Held, BlocksDisjoint, CountIsRight

\* A block cut from the current chunk.
LEMMA AllocCurrentKeeps ==
    ASSUME IInv, NEW size \in Nat \ {0}, AllocCurrent(size), UNCHANGED now
    PROVE  IInv'
<1> USE DEF IInv
<1>1. /\ current # NoChunk /\ current.used + size <= current.size
      /\ CutFrom(current, size)
      /\ UNCHANGED <<old, totalAllocated, chunkCount, maps>>
  BY DEF AllocCurrent, Fits
<1>2. current \in Chunk /\ maps \in Nat /\ old \in Seq(Chunk) /\ blocks \subseteq Block
  BY <1>1 DEF TypeOK
<1>3. /\ \A i, j \in DOMAIN old : old[i].id = old[j].id => i = j
      /\ \A i \in DOMAIN old : old[i].id # current.id
  BY <1>1 DEF Apart
<1>4. /\ current.id <= maps
      /\ \A i \in DOMAIN old : old[i].id <= maps /\ old[i].used <= old[i].size
  BY <1>1 DEF AllSound, Sound
<1>5. \A b \in blocks : Holds(current, b) \/ \E i \in DOMAIN old : Holds(old[i], b)
  BY DEF Held
<1>6. /\ current' \in Chunk /\ current' # NoChunk
      /\ blocks' \subseteq Block /\ returned' \in Block
      /\ Apart' /\ AllSound' /\ Held' /\ BlocksDisjoint'
  BY <1>1, <1>2, <1>3, <1>4, <1>5, CutKeeps
<1>7. totalUsed' \in Nat
  BY <1>1 DEF CutFrom, TypeOK
<1>8. TypeOK'
  BY <1>1, <1>6, <1>7 DEF TypeOK
<1>9. CountIsRight'
  BY <1>1, <1>6 DEF CountIsRight
<1> QED
  BY <1>6, <1>8, <1>9

\* The current chunk is retired into a list and the block cut from a chunk that
\* is neither in this list nor current.
LEMMA RetireAndCut ==
    ASSUME IInv, NEW ch \in Chunk, NEW list \in Seq(Chunk), NEW size \in Nat \ {0},
           CutFrom(ch, size), ch.used + size <= ch.size,
           old' = Retire(list), maps' \in 0..MaxMaps, maps <= maps', ch.id <= maps',
           current # NoChunk => current.id # ch.id,
           \A j \in DOMAIN list : \E k \in DOMAIN old : list[j] = old[k],
           \A i, j \in DOMAIN list : list[i].id = list[j].id => i = j,
           \A i \in DOMAIN list : list[i].id # ch.id,
           \A b \in blocks, k \in DOMAIN old :
              Holds(old[k], b) =>
                 Holds(ch, b) \/ \E j \in DOMAIN list : Holds(list[j], b),
           chunkCount' = Len(list) + (IF current.used > 0 THEN 1 ELSE 0) + 1,
           totalAllocated' \in Nat, UNCHANGED now
    PROVE  IInv'
<1> USE DEF IInv
<1> DEFINE r == Retire(list)
<1>1. /\ current.used \in Nat
      /\ current.used > 0 => current # NoChunk /\ current \in Chunk
      /\ \A b \in blocks, c \in Chunk : Holds(c, b) => c.used > 0
      /\ current # NoChunk => current \in Chunk
  BY UsedIsChunk
<1>2. /\ r \in Seq(Chunk)
      /\ Len(r) = Len(list) + (IF current.used > 0 THEN 1 ELSE 0)
      /\ \A j \in DOMAIN r :
            \/ current.used > 0 /\ j = 1 /\ r[j] = current
            \/ current.used > 0 /\ j - 1 \in DOMAIN list /\ r[j] = list[j - 1]
            \/ ~(current.used > 0) /\ j \in DOMAIN list /\ r[j] = list[j]
      /\ \A k \in DOMAIN list : \E j \in DOMAIN r : r[j] = list[k]
      /\ current.used > 0 => \E j \in DOMAIN r : r[j] = current
  BY RetiredList
<1> HIDE DEF r
<1>3. old' = r
  BY DEF r
<1>4. maps \in Nat /\ maps' \in Nat /\ blocks \subseteq Block
  BY DEF TypeOK
<1>5. \A j \in DOMAIN list : list[j].id \in Nat /\ list[j].id <= maps
                             /\ list[j].used <= list[j].size
  <2> SUFFICES ASSUME NEW j \in DOMAIN list
               PROVE  list[j].id \in Nat /\ list[j].id <= maps
                      /\ list[j].used <= list[j].size
    OBVIOUS
  <2>1. PICK k \in DOMAIN old : list[j] = old[k]
    OBVIOUS
  <2>2. old[k] \in Chunk
    BY DEF TypeOK
  <2>3. old[k].id \in Nat
    BY <2>2 DEF Chunk
  <2> QED
    BY <2>1, <2>3 DEF AllSound, Sound
<1>6. current.used > 0 => /\ current.id \in Nat /\ current.id <= maps
                          /\ current.used <= current.size /\ current.id # ch.id
                          /\ \A j \in DOMAIN list : list[j].id # current.id
  <2> SUFFICES ASSUME current.used > 0
               PROVE  /\ current.id \in Nat /\ current.id <= maps
                      /\ current.used <= current.size /\ current.id # ch.id
                      /\ \A j \in DOMAIN list : list[j].id # current.id
    OBVIOUS
  <2>1. current # NoChunk /\ current \in Chunk
    BY <1>1
  <2>2. current.id \in Nat
    BY <2>1 DEF Chunk
  <2>3. current.id <= maps /\ current.used <= current.size
    BY <2>1 DEF AllSound, Sound
  <2>4. \A k \in DOMAIN old : old[k].id # current.id
    BY <2>1 DEF Apart
  <2> QED
    BY <2>1, <2>2, <2>3, <2>4
<1>7. \A i \in DOMAIN r : r[i].id # ch.id
  BY <1>2, <1>6
<1>8. \A i \in DOMAIN r : r[i].id <= maps' /\ r[i].used <= r[i].size
  <2> SUFFICES ASSUME NEW i \in DOMAIN r
               PROVE  r[i].id <= maps' /\ r[i].used <= r[i].size
    OBVIOUS
  <2>1. r[i].id \in Nat /\ r[i].id <= maps /\ r[i].used <= r[i].size
    BY <1>2, <1>5, <1>6
  <2> QED
    BY <1>4, <2>1
<1>9. ASSUME NEW i \in DOMAIN r, NEW j \in DOMAIN r, r[i].id = r[j].id
      PROVE  i = j
  <2>1. i \in Nat /\ j \in Nat
    BY <1>2
  <2>2. CASE ~(current.used > 0)
    BY <1>2, <1>9, <2>2
  <2>3. CASE current.used > 0
    <3>1. CASE i = 1 /\ r[i] = current /\ j = 1
      BY <3>1
    <3>2. CASE r[i] = current /\ j - 1 \in DOMAIN list /\ r[j] = list[j - 1]
      BY <1>6, <1>9, <2>3, <3>2
    <3>3. CASE r[j] = current /\ i - 1 \in DOMAIN list /\ r[i] = list[i - 1]
      BY <1>6, <1>9, <2>3, <3>3
    <3>4. CASE /\ i - 1 \in DOMAIN list /\ r[i] = list[i - 1]
               /\ j - 1 \in DOMAIN list /\ r[j] = list[j - 1]
      <4>1. i - 1 = j - 1
        BY <1>9, <3>4
      <4> QED
        BY <2>1, <4>1
    <3> QED
      BY <1>2, <2>3, <3>1, <3>2, <3>3, <3>4
  <2> QED
    BY <2>2, <2>3
<1>10. ASSUME NEW b \in blocks
       PROVE  Holds(ch, b) \/ \E i \in DOMAIN r : Holds(r[i], b)
  <2>1. CASE current # NoChunk /\ Holds(current, b)
    <3>1. current.used > 0
      BY <1>1, <2>1
    <3> QED
      BY <1>2, <2>1, <3>1
  <2>2. CASE \E k \in DOMAIN old : Holds(old[k], b)
    <3>1. Holds(ch, b) \/ \E j \in DOMAIN list : Holds(list[j], b)
      BY <2>2
    <3> QED
      BY <1>2, <3>1
  <2> QED
    BY <2>1, <2>2 DEF Held
<1>11. /\ current' \in Chunk /\ current' # NoChunk
       /\ blocks' \subseteq Block /\ returned' \in Block
       /\ Apart' /\ AllSound' /\ Held' /\ BlocksDisjoint'
  BY <1>2, <1>3, <1>4, <1>7, <1>8, <1>9, <1>10, CutKeeps
<1>12. totalUsed' \in Nat
  BY DEF CutFrom, TypeOK
<1>13. chunkCount' \in Nat /\ chunkCount' = Len(old') + 1
  BY <1>2, <1>3
<1>14. TypeOK'
  BY <1>2, <1>3, <1>11, <1>12, <1>13 DEF TypeOK
<1>15. CountIsRight'
  BY <1>11, <1>13 DEF CountIsRight
<1> QED
  BY <1>11, <1>14, <1>15

\* How the counter stands to the list when the current chunk is retired.
LEMMA CountOfRetired ==
    ASSUME TypeOK, CountIsRight
    PROVE  /\ Dropped \in Nat
           /\ chunkCount - Dropped = Len(old) + (IF current.used > 0 THEN 1 ELSE 0)
<1>1. Len(old) \in Nat
  BY DEF TypeOK
<1>2. CASE current = NoChunk
  BY <1>1, <1>2 DEF CountIsRight, Dropped, NoChunk
<1>3. CASE current # NoChunk
  <2>1. current.used \in Nat
    BY UsedIsChunk
  <2>2. chunkCount = Len(old) + 1
    BY <1>3 DEF CountIsRight
  <2>3. CASE current.used = 0
    BY <1>1, <1>3, <2>2, <2>3 DEF Dropped
  <2>4. CASE current.used > 0
    <3>1. current.used # 0
      BY <2>1, <2>4
    <3>2. Dropped = 0
      BY <3>1 DEF Dropped
    <3> QED
      BY <1>1, <2>2, <2>4, <3>2
  <2> QED
    BY <2>1, <2>3, <2>4
<1> QED
  BY <1>2, <1>3

\* A block cut from a chunk that is taken out of the list.
LEMMA AllocOldKeeps ==
    ASSUME IInv, NEW size \in Nat \ {0}, AllocOld(size), UNCHANGED now
    PROVE  IInv'
<1> USE DEF IInv
<1>1. PICK i \in DOMAIN old : HasRoom(i, size) /\ CutFrom(old[i], size)
                              /\ old' = Retire(Without(i))
  BY DEF AllocOld, IsFirst
<1>2. chunkCount' = chunkCount - Dropped /\ UNCHANGED <<totalAllocated, maps>>
  BY DEF AllocOld
<1>3. /\ old \in Seq(Chunk) /\ old[i] \in Chunk /\ DOMAIN old = 1..Len(old)
      /\ Len(old) \in Nat
  BY DEF TypeOK
<1> DEFINE list == Without(i)
<1>4. /\ list \in Seq(Chunk)
      /\ Len(list) = Len(old) - 1
      /\ DOMAIN list = 1..(Len(old) - 1)
      /\ \A j \in DOMAIN list : list[j] = old[IF j < i THEN j ELSE j + 1]
      /\ \A k \in DOMAIN old : k # i => \E j \in DOMAIN list : list[j] = old[k]
  BY <1>3, WithoutOne
<1> HIDE DEF list
<1>5. old' = Retire(list)
  BY <1>1 DEF list
<1>6. old[i].used + size <= old[i].size
  BY <1>1, <1>3 DEF HasRoom, Chunk
<1>7. current # NoChunk => current.id # old[i].id
  BY DEF Apart
<1>8. \A j \in DOMAIN list :
         LET k == IF j < i THEN j ELSE j + 1 IN k \in DOMAIN old /\ k # i
  BY <1>3, <1>4
<1>9. \A j \in DOMAIN list : \E k \in DOMAIN old : list[j] = old[k]
  BY <1>4, <1>8
<1>10. \A j \in DOMAIN list : list[j].id # old[i].id
  BY <1>4, <1>8 DEF Apart
<1>11. ASSUME NEW j \in DOMAIN list, NEW k \in DOMAIN list, list[j].id = list[k].id
       PROVE  j = k
  <2>1. (IF j < i THEN j ELSE j + 1) = (IF k < i THEN k ELSE k + 1)
    BY <1>4, <1>8, <1>11 DEF Apart
  <2> QED
    BY <1>3, <1>4, <2>1
<1>12. ASSUME NEW b \in blocks, NEW k \in DOMAIN old, Holds(old[k], b)
       PROVE  Holds(old[i], b) \/ \E j \in DOMAIN list : Holds(list[j], b)
  BY <1>4, <1>12
<1>13. chunkCount' = Len(list) + (IF current.used > 0 THEN 1 ELSE 0) + 1
  BY <1>2, <1>3, <1>4, CountOfRetired
<1>14. maps' \in 0..MaxMaps /\ maps <= maps' /\ totalAllocated' \in Nat
  BY <1>2, BoundsAssumption DEF TypeOK
<1>15. old[i].id <= maps'
  BY <1>2 DEF AllSound, Sound
<1> QED
  BY <1>1, <1>3, <1>4, <1>5, <1>6, <1>7, <1>9, <1>10, <1>11, <1>12, <1>13, <1>14,
     <1>15, RetireAndCut

\* A block cut from a chunk that is mapped for it.
LEMMA AllocNewKeeps ==
    ASSUME IInv, NEW requested \in 1..MaxAlloc,
           AllocNew(RoundUp(requested, Alignment)), UNCHANGED now
    PROVE  IInv'
<1> USE DEF IInv
<1> DEFINE size == RoundUp(requested, Alignment)
           mapped == RoundUp(NewChunkSize(size), Page)
           ch == [id |-> maps + 1, used |-> 0, size |-> mapped, createdAt |-> now]
<1>1. size \in Nat \ {0} /\ mapped \in Nat \ {0} /\ size <= mapped
  BY RequestSizes
<1>2. /\ maps < MaxMaps /\ maps' = maps + 1
      /\ CutFrom(ch, size)
      /\ old' = Retire(old)
      /\ totalAllocated' = totalAllocated + mapped
      /\ chunkCount' = chunkCount - Dropped + 1
  BY DEF AllocNew
<1> HIDE DEF size, mapped
<1>3. maps \in Nat /\ maps' \in 0..MaxMaps /\ maps <= maps' /\ maps + 1 \in 1..MaxMaps
  BY <1>2, BoundsAssumption DEF TypeOK
<1>4. ch \in Chunk
  BY <1>1, <1>3 DEF Chunk, TypeOK
<1>5. ch.used + size <= ch.size /\ ch.id = maps + 1 /\ ch.id <= maps'
  BY <1>1, <1>2, <1>3
<1> HIDE DEF ch
<1>6. old \in Seq(Chunk) /\ Len(old) \in Nat
  BY DEF TypeOK
<1>7. \A k \in DOMAIN old : old[k].id \in Nat /\ old[k].id <= maps
  <2> SUFFICES ASSUME NEW k \in DOMAIN old
               PROVE  old[k].id \in Nat /\ old[k].id <= maps
    OBVIOUS
  <2>1. old[k] \in Chunk
    BY <1>6
  <2>2. old[k].id \in Nat
    BY <2>1 DEF Chunk
  <2> QED
    BY <2>2 DEF AllSound, Sound
<1>8. \A k \in DOMAIN old : old[k].id # ch.id
  BY <1>3, <1>5, <1>7
<1>9. current # NoChunk => current.id \in Nat /\ current.id <= maps
  BY UsedIsChunk DEF AllSound, Sound, Chunk
<1>10. current # NoChunk => current.id # ch.id
  BY <1>3, <1>5, <1>9
<1>11. \A i, j \in DOMAIN old : old[i].id = old[j].id => i = j
  BY DEF Apart
<1>12. totalAllocated' \in Nat
  BY <1>1, <1>2 DEF TypeOK
<1>13. chunkCount' = Len(old) + (IF current.used > 0 THEN 1 ELSE 0) + 1
  BY <1>2, <1>6, CountOfRetired
<1> QED
  BY <1>1, <1>2, <1>3, <1>4, <1>5, <1>6, <1>8, <1>10, <1>11, <1>12, <1>13, RetireAndCut

\* The steps that change no chunk: an alloc that gives nothing, and time.
LEMMA NothingCut ==
    ASSUME IInv, UNCHANGED <<current, old, totalAllocated, totalUsed, chunkCount, maps, blocks>>,
           now' \in 0..MaxTime, returned' \in Block \cup {NULL}
    PROVE  IInv'
BY DEF IInv, TypeOK, Apart, AllSound, Sound, Held, Holds, BlocksDisjoint, CountIsRight

\* arena_alloc, for any size.
LEMMA AllocKeeps ==
    ASSUME IInv, NEW requested \in Nat, Alloc(requested)
    PROVE  IInv'
<1> DEFINE size == RoundUp(requested, Alignment)
<1>1. UNCHANGED now /\ now \in 0..MaxTime
  BY DEF Alloc, IInv, TypeOK
<1>2. CASE AllocRefused
  BY <1>1, <1>2, NothingCut DEF AllocRefused
<1>3. CASE requested \in 1..MaxAlloc /\ AllocCurrent(size)
  BY <1>1, <1>3, RequestSizes, AllocCurrentKeeps
<1>4. CASE requested \in 1..MaxAlloc /\ AllocOld(size)
  BY <1>1, <1>4, RequestSizes, AllocOldKeeps
<1>5. CASE requested \in 1..MaxAlloc /\ AllocNew(size)
  BY <1>1, <1>5, AllocNewKeeps
<1>6. CASE AllocFails(size)
  BY <1>1, <1>6, NothingCut DEF AllocFails
<1> QED
  BY <1>2, <1>3, <1>4, <1>5, <1>6 DEF Alloc

\* A reset leaves the current chunk alone, and no block.
LEMMA ResetKeeps ==
    ASSUME IInv, Reset
    PROVE  IInv'
<1> USE DEF IInv
<1>1. /\ old' = <<>> /\ current' = [current EXCEPT !.used = 0]
      /\ chunkCount' = chunkCount - Len(old) /\ totalUsed' = 0 /\ blocks' = {}
      /\ UNCHANGED <<totalAllocated, now, maps, returned>>
  BY DEF Reset
<1>2. CASE current = NoChunk
  <2>1. current' = NoChunk
    BY <1>1, <1>2 DEF NoChunk
  <2>2. chunkCount' = 0
    BY <1>1, <1>2 DEF CountIsRight, TypeOK
  <2> QED
    BY <1>1, <2>1, <2>2
       DEF TypeOK, Apart, AllSound, Held, BlocksDisjoint, CountIsRight
<1>3. CASE current # NoChunk
  <2>1. current \in Chunk
    BY <1>3 DEF TypeOK
  <2>2. current' \in Chunk /\ current'.id = current.id
        /\ current'.used = 0 /\ current'.size = current.size /\ current.size \in Nat
    BY <1>1, <2>1 DEF Chunk
  <2>3. current' # NoChunk
    BY <2>2, ChunkIsSome
  <2>4. chunkCount' = 1
    BY <1>1, <1>3 DEF CountIsRight, TypeOK
  <2>5. current'.id <= maps' /\ current'.used <= current'.size
    BY <1>1, <1>3, <2>2 DEF AllSound, Sound
  <2> QED
    BY <1>1, <2>2, <2>3, <2>4, <2>5
       DEF TypeOK, Apart, AllSound, Held, BlocksDisjoint, CountIsRight, Sound
<1> QED
  BY <1>2, <1>3

\* A cleanup keeps the young chunks and the blocks in them.
LEMMA CleanupKeeps ==
    ASSUME IInv, NEW maxAge \in Nat, CleanupOld(maxAge)
    PROVE  IInv'
<1> USE DEF IInv
<1> DEFINE young == {i \in DOMAIN old : now - old[i].createdAt <= maxAge}
           gone == {old[i].id : i \in DOMAIN old \ young}
           n == Cardinality(young)
<1>1. /\ chunkCount' = chunkCount - (Len(old) - n)
      /\ blocks' = {b \in blocks : b.chunk \notin gone}
      /\ UNCHANGED <<current, totalAllocated, totalUsed, now, maps, returned>>
  BY DEF CleanupOld
<1>2. PICK walk \in Walks(young) : old' = [i \in DOMAIN walk |-> old[walk[i]]]
  BY DEF CleanupOld
<1>3. old \in Seq(Chunk) /\ DOMAIN old = 1..Len(old) /\ Len(old) \in Nat
  BY DEF TypeOK
<1>4. young \in SUBSET DOMAIN old
  OBVIOUS
<1> HIDE DEF young
<1>5. /\ n \in Nat /\ walk \in [1..n -> young]
      /\ \A i, j \in DOMAIN walk : walk[i] = walk[j] => i = j
      /\ \A p \in young : \E i \in DOMAIN walk : walk[i] = p
  BY <1>2, <1>3, <1>4, WalksVisitAll
<1> HIDE DEF n
<1>6. \A i \in 1..n : walk[i] \in DOMAIN old /\ old'[i] = old[walk[i]]
  BY <1>2, <1>4, <1>5
<1>7. DOMAIN old' = 1..n /\ old' \in Seq(Chunk) /\ Len(old') = n
  BY <1>2, <1>3, <1>4, <1>5
<1>8. Apart'
  BY <1>1, <1>5, <1>6, <1>7 DEF Apart
<1>9. AllSound'
  BY <1>1, <1>6, <1>7 DEF AllSound, Sound
<1>10. Held'
  <2> SUFFICES ASSUME NEW b \in blocks',
                      ~(current # NoChunk /\ Holds(current, b))
               PROVE  \E i \in DOMAIN old' : Holds(old'[i], b)
    BY <1>1 DEF Held, Holds
  <2>1. b \in blocks /\ b.chunk \notin gone
    BY <1>1
  <2>2. PICK k \in DOMAIN old : Holds(old[k], b)
    BY <2>1 DEF Held
  <2>3. k \in young
    BY <2>1, <2>2 DEF Holds
  <2>4. PICK i \in 1..n : walk[i] = k
    BY <1>5, <2>3
  <2> QED
    BY <1>6, <1>7, <2>2, <2>4
<1>11. BlocksDisjoint'
  BY <1>1 DEF BlocksDisjoint
<1>12. chunkCount' = n + (IF current = NoChunk THEN 0 ELSE 1)
  <2>1. chunkCount' = chunkCount - (Len(old) - n)
    BY <1>1 DEF n
  <2> DEFINE one == IF current = NoChunk THEN 0 ELSE 1
  <2>2. chunkCount = Len(old) + one /\ one \in Nat
    BY DEF CountIsRight
  <2> HIDE DEF one
  <2>3. chunkCount' = n + one
    BY <1>3, <1>5, <2>1, <2>2
  <2> QED
    BY <2>3 DEF one
<1>13. CountIsRight'
  BY <1>1, <1>7, <1>12 DEF CountIsRight
<1>14. blocks' \subseteq blocks
  BY <1>1
<1>15. TypeOK'
  BY <1>1, <1>5, <1>7, <1>12, <1>14 DEF TypeOK
<1> QED
  BY <1>8, <1>9, <1>10, <1>11, <1>13, <1>15

\* A new arena is empty.
LEMMA DestroyKeeps ==
    ASSUME IInv, Destroy
    PROVE  IInv'
<1>1. TypeOK'
  BY DEF Destroy, IInv, TypeOK
<1> QED
  BY <1>1 DEF Destroy, IInv, Apart, AllSound, Held, BlocksDisjoint, CountIsRight

---------------------------------------------------------------------------
(* The theorems. *)

\* The invariant holds of every run.
LEMMA Invariance == Spec => []IInv
<1>1. IInv /\ [Next]_vars => IInv'
  <2> SUFFICES ASSUME IInv, [Next]_vars PROVE IInv'
    OBVIOUS
  <2>1. CASE \E requested \in Sizes : Alloc(requested)
    BY <2>1, AllocKeeps, SizesAssumption
  <2>2. CASE Reset
    BY <2>2, ResetKeeps
  <2>3. CASE \E maxAge \in 1..MaxTime : CleanupOld(maxAge)
    BY <2>3, CleanupKeeps
  <2>4. CASE Tick
    <3>1. now' \in 0..MaxTime /\ returned' \in Block \cup {NULL}
      BY <2>4, BoundsAssumption DEF Tick, IInv, TypeOK
    <3> QED
      BY <2>4, <3>1, NothingCut DEF Tick
  <2>5. CASE Destroy
    BY <2>5, DestroyKeeps
  <2>6. CASE UNCHANGED vars
    <3>1. now' \in 0..MaxTime /\ returned' \in Block \cup {NULL}
      BY <2>6 DEF vars, IInv, TypeOK
    <3> QED
      BY <2>6, <3>1, NothingCut DEF vars
  <2> QED
    BY <2>1, <2>2, <2>3, <2>4, <2>5, <2>6 DEF Next
<1> QED
  BY <1>1, InitIInv, PTL DEF Spec

\* The variables have their types: sizes and counters do not go below zero.
THEOREM TypeCorrect == Spec => []TypeOK
<1>1. IInv => TypeOK
  BY DEF IInv
<1> QED
  BY <1>1, Invariance, PTL

\* No two blocks in the hands of callers overlap (arena_alloc).
THEOREM BlocksAreApart == Spec => []BlocksDisjoint
<1>1. IInv => BlocksDisjoint
  BY DEF IInv
<1> QED
  BY <1>1, Invariance, PTL

\* No block in the hands of a caller is in memory that the arena gave back.
THEOREM BlocksStayMapped == Spec => []BlocksMapped
<1>1. IInv => BlocksMapped
  <2> SUFFICES ASSUME IInv, NEW b \in blocks
               PROVE  \E c \in Chunks : /\ c.id = b.chunk
                                        /\ b.offset + b.size <= c.used
                                        /\ c.used <= c.size
    BY DEF BlocksMapped
  <2>1. CASE current # NoChunk /\ Holds(current, b)
    <3>1. current \in Chunks
      BY <2>1 DEF Chunks
    <3> QED
      BY <2>1, <3>1 DEF Holds, IInv, AllSound, Sound
  <2>2. CASE \E i \in DOMAIN old : Holds(old[i], b)
    <3>1. PICK i \in DOMAIN old : Holds(old[i], b)
      BY <2>2
    <3>2. old[i] \in Chunk
      BY DEF IInv, TypeOK
    <3>3. old[i] \in Chunks
      BY <3>2, ChunkIsSome DEF Chunks, Range
    <3> QED
      BY <3>1, <3>3 DEF Holds, IInv, AllSound, Sound
  <2> QED
    BY <2>1, <2>2 DEF IInv, Held
<1> QED
  BY <1>1, Invariance, PTL

\* The arena counts its chunks (chunk_count).
THEOREM CountStaysRight == Spec => []CountIsRight
<1>1. IInv => CountIsRight
  BY DEF IInv
<1> QED
  BY <1>1, Invariance, PTL

=============================================================================
