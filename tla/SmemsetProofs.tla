---------------------------- MODULE SmemsetProofs ----------------------------
(***************************************************************************)
(* smemset sets the bytes that it is asked to, and no other, for every     *)
(* address, length and size of a word.  The argument is the loop invariant *)
(* Progress: the memory is set from dst up to addr, and what the counters  *)
(* of the loop stand for is what is left of the region.                    *)
(***************************************************************************)
EXTENDS Smemset, TLAPS

\* Every byte of the word is c.
LEMMA PatternIsC ==
    ASSUME opsize \in {4, 8}, c \in Bytes
    PROVE  \A i \in 0..(opsize - 1) : Pattern[i] = c
<1> DEFINE two == Or(Low, ShiftLeft(Low, 1))
           four == Or(two, ShiftLeft(two, 2))
<1>1. /\ DOMAIN Low = 0..(opsize - 1)
      /\ Low[0] = c
      /\ \A i \in 1..(opsize - 1) : Low[i] = 0
  BY DEF Low
<1>2. /\ DOMAIN two = 0..(opsize - 1)
      /\ two[0] = c /\ two[1] = c
      /\ \A i \in 2..(opsize - 1) : two[i] = 0
  BY <1>1 DEF Or, ShiftLeft
<1>3. /\ DOMAIN four = 0..(opsize - 1)
      /\ \A i \in 0..3 : four[i] = c
      /\ \A i \in 4..(opsize - 1) : four[i] = 0
  <2> HIDE DEF two
  <2>1. DOMAIN four = 0..(opsize - 1)
    BY <1>2 DEF Or
  <2>2. \A i \in 0..(opsize - 1) :
          ShiftLeft(two, 2)[i] = IF i < 2 THEN 0 ELSE two[i - 2]
    BY <1>2 DEF ShiftLeft
  <2>3. \A i \in 0..(opsize - 1) :
          four[i] = IF two[i] = 0 THEN ShiftLeft(two, 2)[i] ELSE two[i]
    BY <1>2 DEF Or
  <2> HIDE DEF four
  <2> QED
    BY <1>2, <2>1, <2>2, <2>3
<1>4. CASE opsize = 4
  <2> HIDE DEF four
  <2>1. Pattern = four
    BY <1>4 DEF Pattern, four, two
  <2> QED
    BY <1>3, <1>4, <2>1
<1>5. CASE opsize = 8
  <2> HIDE DEF four
  <2>1. Pattern = Or(four, ShiftLeft(four, 4))
    BY <1>5 DEF Pattern, four, two
  <2>2. \A i \in 0..7 : ShiftLeft(four, 4)[i] = IF i < 4 THEN 0 ELSE four[i - 4]
    BY <1>3, <1>5 DEF ShiftLeft
  <2>3. \A i \in 0..7 :
          Pattern[i] = IF four[i] = 0 THEN ShiftLeft(four, 4)[i] ELSE four[i]
    BY <1>3, <1>5, <2>1 DEF Or
  <2> QED
    BY <1>3, <1>5, <2>2, <2>3
<1> QED
  BY <1>4, <1>5

\* n words set n * opsize bytes from addr to c and leave the others.
LEMMA WordsSetTheirBytes ==
    ASSUME TypeOK, NEW n \in {1, 8}, StoreWords(n)
    PROVE  mem' = [a \in Address |-> IF addr <= a /\ a < addr + n * opsize
                                     THEN c ELSE mem[a]]
<1>1. \A a \in Address : addr <= a => (a - addr) % opsize \in 0..(opsize - 1)
  BY BoundsAssumption DEF TypeOK, Address
<1>2. \A a \in Address : (a - addr) % opsize \in 0..(opsize - 1)
                            => Pattern[(a - addr) % opsize] = c
  BY PatternIsC DEF TypeOK
<1>3. \A a \in Address : a \in addr..(addr + n * opsize - 1)
                            <=> addr <= a /\ a < addr + n * opsize
  BY BoundsAssumption DEF TypeOK, Address
<1> QED
  BY <1>1, <1>2, <1>3 DEF StoreWords

\* Before the first store nothing is set.
LEMMA InitIInv == Init => IInv
<1> SUFFICES ASSUME Init PROVE IInv
  OBVIOUS
<1>1. TypeOK
  BY BoundsAssumption DEF Init, TypeOK
<1>2. WordsAligned /\ Enough /\ Ending
  BY DEF Init, WordsAligned, Enough, Ending
<1>3. Progress
  BY BoundsAssumption DEF Init, Progress, Rest, Address
<1> QED
  BY <1>1, <1>2, <1>3 DEF IInv

\* A byte is stored at addr, where one is left to be set.
LEMMA ByteStored ==
    ASSUME IInv, \/ pc = "align" /\ addr % opsize # 0
                 \/ pc = "tail",
           len > 0, StoreByte,
           addr' = addr + 1, len' = len - 1, pc' = pc,
           UNCHANGED <<arguments, xlen>>
    PROVE  IInv'
<1> USE DEF IInv
<1>1. dst # 0 /\ addr + len = dst + size /\ dst <= addr
  BY DEF Ending, Progress, Rest
<1>2. addr \in Address
  BY <1>1, BoundsAssumption DEF TypeOK, Address
<1>3. TypeOK'
  BY <1>2 DEF TypeOK, StoreByte, arguments
<1>4. WordsAligned' /\ Ending'
  BY <1>1 DEF WordsAligned, Ending, arguments
<1>5. Enough'
  <2>1. pc = "align" /\ addr % opsize # 0 => len >= opsize - (addr % opsize)
    BY DEF Enough
  <2>2. CASE opsize = 4
    BY <2>1, <2>2 DEF Enough, TypeOK, arguments
  <2>3. CASE opsize = 8
    BY <2>1, <2>3 DEF Enough, TypeOK, arguments
  <2> QED
    BY <2>2, <2>3 DEF TypeOK
<1>6. Progress'
  <2>1. (addr + Rest = dst + size)' /\ (dst <= addr)'
    BY <1>1 DEF Rest, TypeOK, arguments
  <2>2. \A a \in Address : mem'[a] = IF a = addr THEN c ELSE mem[a]
    BY <1>2 DEF StoreByte, TypeOK
  <2>3. \A a \in Address : mem'[a] = IF dst <= a /\ a < addr + 1 THEN c ELSE Old
    BY <1>1, <2>2, BoundsAssumption DEF Progress, TypeOK, Address
  <2> QED
    BY <2>1, <2>3 DEF Progress, arguments
<1> QED
  BY <1>3, <1>4, <1>5, <1>6

\* Words are stored where that many bytes are left to be set.
LEMMA WordsStored ==
    ASSUME IInv, NEW n \in {1, 8}, pc = (IF n = 8 THEN "blocks" ELSE "words"),
           xlen > 0, StoreWords(n), addr' = addr + n * opsize, xlen' = xlen - 1,
           UNCHANGED <<arguments, len, pc>>
    PROVE  IInv'
<1> USE DEF IInv
<1>1. dst # 0 /\ addr + Rest = dst + size /\ dst <= addr
  BY DEF Ending, Progress
<1>2. mem' = [a \in Address |-> IF addr <= a /\ a < addr + n * opsize
                               THEN c ELSE mem[a]]
  BY WordsSetTheirBytes
<1>3. TypeOK'
  <2>1. mem' \in [Address -> Bytes \cup {Old}]
    BY <1>2 DEF TypeOK
  <2>2. addr' \in Nat /\ xlen' \in Nat
    BY DEF TypeOK
  <2> QED
    BY <2>1, <2>2 DEF TypeOK, arguments
<1>4. WordsAligned'
  <2>1. addr % opsize = 0
    BY DEF WordsAligned
  <2>2. CASE opsize = 4
    BY <2>1, <2>2 DEF WordsAligned, TypeOK, arguments
  <2>3. CASE opsize = 8
    BY <2>1, <2>3 DEF WordsAligned, TypeOK, arguments
  <2> QED
    BY <2>2, <2>3 DEF TypeOK
<1>5. Ending' /\ Enough'
  BY <1>1 DEF Ending, Enough, arguments
<1>6. Progress'
  <2>1. Rest' = Rest - n * opsize
    <3>1. CASE n = 8 /\ opsize = 4
      BY <3>1 DEF Rest, TypeOK, arguments
    <3>2. CASE n = 8 /\ opsize = 8
      BY <3>2 DEF Rest, TypeOK, arguments
    <3>3. CASE n = 1 /\ opsize = 4
      BY <3>3 DEF Rest, TypeOK, arguments
    <3>4. CASE n = 1 /\ opsize = 8
      BY <3>4 DEF Rest, TypeOK, arguments
    <3> QED
      BY <3>1, <3>2, <3>3, <3>4 DEF TypeOK
  <2>2. Rest \in Int
    BY <1>1 DEF Rest, TypeOK
  <2>3. (addr + Rest = dst + size)' /\ (dst <= addr)'
    BY <1>1, <2>1, <2>2 DEF TypeOK, arguments
  <2>4. \A a \in Address : mem'[a] = IF dst <= a /\ a < addr + n * opsize THEN c ELSE Old
    BY <1>1, <1>2, BoundsAssumption DEF Progress, TypeOK, Address
  <2> QED
    BY <2>3, <2>4 DEF Progress, arguments
<1> QED
  BY <1>3, <1>4, <1>5, <1>6

\* Every iteration of every loop keeps the invariant, and so does the way from
\* one loop to the next.
LEMMA NextIInv == IInv /\ [Next]_vars => IInv'
<1> SUFFICES ASSUME IInv, [Next]_vars PROVE IInv'
  OBVIOUS
<1>1. CASE Enter
  BY <1>1, BoundsAssumption
  DEF IInv, Enter, TypeOK, WordsAligned, Progress, Enough, Ending, Rest, arguments, Address
<1>2. CASE AlignByte
  BY <1>2, ByteStored DEF AlignByte, Unaligned
<1>3. CASE Aligned
  <2>1. dst # 0 /\ addr + len = dst + size
    BY <1>3 DEF IInv, Aligned, Ending, Progress, Rest
  <2>2. xlen' \in Nat /\ len = 8 * opsize * xlen' + (len % (8 * opsize))
    <3>1. CASE opsize = 4
      BY <1>3, <3>1 DEF IInv, Aligned, TypeOK
    <3>2. CASE opsize = 8
      BY <1>3, <3>2 DEF IInv, Aligned, TypeOK
    <3> QED
      BY <3>1, <3>2 DEF IInv, TypeOK
  <2>3. TypeOK' /\ Ending' /\ Enough'
    BY <1>3, <2>1, <2>2 DEF IInv, Aligned, TypeOK, Ending, Enough, arguments
  <2>4. WordsAligned'
    <3>1. CASE opsize = 4
      BY <1>3, <3>1 DEF IInv, Aligned, Unaligned, Enough, TypeOK, WordsAligned, arguments
    <3>2. CASE opsize = 8
      BY <1>3, <3>2 DEF IInv, Aligned, Unaligned, Enough, TypeOK, WordsAligned, arguments
    <3> QED
      BY <3>1, <3>2 DEF IInv, TypeOK
  <2>5. Progress'
    BY <1>3, <2>1, <2>2 DEF IInv, Aligned, Progress, Rest, arguments
  <2> QED
    BY <2>3, <2>4, <2>5 DEF IInv
<1>4. CASE Block
  BY <1>4, WordsStored DEF Block
<1>5. CASE BlocksDone
  <2>1. dst # 0 /\ addr + (len % (8 * opsize)) = dst + size
    BY <1>5 DEF IInv, BlocksDone, Ending, Progress, Rest, TypeOK
  <2>2. len' \in Nat /\ xlen' \in Nat /\ len' = opsize * xlen' + (len' % opsize)
    <3>1. CASE opsize = 4
      BY <1>5, <3>1 DEF IInv, BlocksDone, TypeOK
    <3>2. CASE opsize = 8
      BY <1>5, <3>2 DEF IInv, BlocksDone, TypeOK
    <3> QED
      BY <3>1, <3>2 DEF IInv, TypeOK
  <2>3. TypeOK' /\ Ending' /\ Enough' /\ WordsAligned'
    BY <1>5, <2>1, <2>2
    DEF IInv, BlocksDone, TypeOK, Ending, Enough, WordsAligned, arguments
  <2>4. Progress'
    BY <1>5, <2>1, <2>2 DEF IInv, BlocksDone, Progress, Rest, arguments
  <2> QED
    BY <2>3, <2>4 DEF IInv
<1>6. CASE Word
  <2>1. addr' = addr + 1 * opsize
    BY <1>6 DEF Word, IInv, TypeOK
  <2> QED
    BY <1>6, <2>1, WordsStored DEF Word
<1>7. CASE WordsDone
  <2>1. dst # 0 /\ addr + (len % opsize) = dst + size
    BY <1>7 DEF IInv, WordsDone, Ending, Progress, Rest, TypeOK
  <2>2. len' \in Nat
    BY <1>7 DEF IInv, WordsDone, TypeOK
  <2>3. TypeOK' /\ Ending' /\ Enough' /\ WordsAligned'
    BY <1>7, <2>1, <2>2
    DEF IInv, WordsDone, TypeOK, Ending, Enough, WordsAligned, arguments
  <2>4. Progress'
    BY <1>7, <2>1, <2>2 DEF IInv, WordsDone, Progress, Rest, arguments
  <2> QED
    BY <2>3, <2>4 DEF IInv
<1>8. CASE TailByte
  BY <1>8, ByteStored DEF TailByte
<1>9. CASE TailDone
  <2>1. dst # 0 /\ addr = dst + size
    BY <1>9 DEF IInv, TailDone, Ending, Progress, Rest, TypeOK
  <2>2. \A a \in Address : (a \in dst..(dst + size - 1)) <=> (dst <= a /\ a < addr)
    BY <2>1, BoundsAssumption DEF IInv, TypeOK, Address
  <2>3. mem = [a \in Address |-> IF a \in dst..(dst + size - 1) THEN c ELSE Old]
    BY <1>9, <2>1, <2>2 DEF IInv, TailDone, TypeOK, Progress
  <2> QED
    BY <1>9, <2>1, <2>3
    DEF IInv, TailDone, TypeOK, WordsAligned, Progress, Enough, Ending, arguments
<1>10. CASE UNCHANGED vars
  BY <1>10 DEF IInv, vars, arguments, TypeOK, WordsAligned, Progress, Enough, Ending, Rest
<1> QED
  BY <1>1, <1>2, <1>3, <1>4, <1>5, <1>6, <1>7, <1>8, <1>9, <1>10 DEF Next

\* The loop invariant holds in every state.
THEOREM Invariance == Spec => []IInv
<1> QED
  BY InitIInv, NextIInv, PTL DEF Spec

\* For every address, length and size of a word: when smemset returns, the region
\* is set and the rest of the memory is as it was.
THEOREM RegionIsSet == Spec => []RegionSet
<1>1. IInv => RegionSet
  <2>1. dst = 0 => Region = {}
    BY DEF Region
  <2>2. dst # 0 => Region = dst..(dst + size - 1)
    BY DEF Region
  <2> QED
    BY <2>1, <2>2 DEF IInv, RegionSet, Ending
<1> QED
  BY <1>1, Invariance, PTL

\* For every address, length and size of a word: no store touches a byte outside
\* of the region, at any moment.
THEOREM NothingElseIsTouched == Spec => []NothingElse
<1>1. IInv => NothingElse
  <2> SUFFICES ASSUME IInv, NEW a \in Address \ Region PROVE mem[a] = Old
    BY DEF NothingElse
  <2>1. CASE dst = 0 \/ pc = "done"
    BY <2>1 DEF IInv, Ending, Region
  <2>2. CASE dst # 0 /\ pc # "done"
    <3>1. Rest >= 0
      <4>1. CASE opsize = 4
        BY <2>2, <4>1 DEF IInv, TypeOK, Rest
      <4>2. CASE opsize = 8
        BY <2>2, <4>2 DEF IInv, TypeOK, Rest
      <4> QED
        BY <4>1, <4>2 DEF IInv, TypeOK
    <3>2. Rest \in Int
      BY <2>2 DEF IInv, TypeOK, Rest
    <3>3. ~(dst <= a /\ a < addr)
      BY <2>2, <3>1, <3>2, BoundsAssumption DEF IInv, TypeOK, Progress, Region, Address
    <3> QED
      BY <2>2, <3>3 DEF IInv, Progress
  <2> QED
    BY <2>1, <2>2
<1> QED
  BY <1>1, Invariance, PTL

\* For every address and length: words are stored at multiples of their size.
THEOREM WordStoresAligned == Spec => []WordsAligned
<1> QED
  BY Invariance, PTL DEF IInv
=============================================================================
