------------------------------- MODULE Smemset -------------------------------
(***************************************************************************)
(* smemset of third-party/smemset/smemset.c: len bytes from dst are set to *)
(* c, by bytes up to a multiple of the word, by eight words at a time, by  *)
(* words, and by bytes again.  One step is one iteration of a loop.        *)
(***************************************************************************)
EXTENDS Integers

CONSTANTS
    Bytes,   \* the values of a byte, 0 among them
    Old,     \* what the memory holds before
    MaxDst, MaxLen  \* bounds on the arguments

ASSUME BytesAssumption == 0 \in Bytes /\ Old \notin Bytes
ASSUME BoundsAssumption == MaxDst \in Nat /\ MaxLen \in Nat

VARIABLES
    opsize,    \* OPSIZ: 8 bytes on x86_64 and AArch64, 4 elsewhere
    dst, c, size,  \* the arguments; address 0 is NULL
    addr, len, xlen,  \* the locals dstp, len and xlen
    mem, pc

vars == <<opsize, dst, c, size, addr, len, xlen, mem, pc>>
arguments == <<opsize, dst, c, size>>

Address == 0..(MaxDst + MaxLen + 64)

Init ==
    /\ opsize \in {4, 8}
    /\ dst \in 0..MaxDst /\ c \in Bytes /\ size \in 0..MaxLen
    /\ addr = dst /\ len = size /\ xlen = 0
    /\ mem = [a \in Address |-> Old]
    /\ pc = "start"

\* The word cccc, byte by byte.  (The bytes that | brings together are equal, or
\* one of them is 0.)
Low == [i \in 0..(opsize - 1) |-> IF i = 0 THEN c ELSE 0]
ShiftLeft(w, n) == [i \in DOMAIN w |-> IF i < n THEN 0 ELSE w[i - n]]
Or(v, w) == [i \in DOMAIN v |-> IF v[i] = 0 THEN w[i] ELSE v[i]]

\* The operators named Bug... are never used by the specification: each is a
\* mistake that a change to the code could make.  Here the last shift is left out
\* for words of eight bytes.
BugHalfWord ==
    LET two == Or(Low, ShiftLeft(Low, 1)) IN Or(two, ShiftLeft(two, 2))

Pattern ==
    LET two == Or(Low, ShiftLeft(Low, 1))
        four == Or(two, ShiftLeft(two, 2))
    IN  IF opsize > 4 THEN Or(four, ShiftLeft(four, 4)) ELSE four

StoreByte == mem' = [mem EXCEPT ![addr] = c]
StoreWords(n) ==
    mem' = [a \in Address |-> IF a \in addr..(addr + n * opsize - 1)
                              THEN Pattern[(a - addr) % opsize] ELSE mem[a]]

\* NULL and length 0 return at once; less than eight bytes go to the last loop.
Enter ==
    /\ pc = "start"
    /\ pc' = IF dst = 0 \/ len = 0 THEN "done" ELSE IF len >= 8 THEN "align" ELSE "tail"
    /\ UNCHANGED <<arguments, addr, len, xlen, mem>>

Unaligned == addr % opsize # 0 /\ len > 0

AlignByte ==
    /\ pc = "align" /\ Unaligned
    /\ StoreByte
    /\ addr' = addr + 1 /\ len' = len - 1
    /\ UNCHANGED <<arguments, xlen, pc>>

Aligned ==
    /\ pc = "align" /\ ~Unaligned
    /\ xlen' = len \div (8 * opsize)
    /\ pc' = "blocks"
    /\ UNCHANGED <<arguments, addr, len, mem>>

\* Eight words.
Block ==
    /\ pc = "blocks" /\ xlen > 0
    /\ StoreWords(8)
    /\ addr' = addr + 8 * opsize /\ xlen' = xlen - 1
    /\ UNCHANGED <<arguments, len, pc>>

BlocksDone ==
    /\ pc = "blocks" /\ xlen = 0
    /\ len' = len % (8 * opsize)
    /\ xlen' = len' \div opsize
    /\ pc' = "words"
    /\ UNCHANGED <<arguments, addr, mem>>

\* The count of words stays.
BugEndless ==
    /\ pc = "words" /\ xlen > 0
    /\ StoreWords(1)
    /\ UNCHANGED <<arguments, addr, len, xlen, pc>>

Word ==
    /\ pc = "words" /\ xlen > 0
    /\ StoreWords(1)
    /\ addr' = addr + opsize /\ xlen' = xlen - 1
    /\ UNCHANGED <<arguments, len, pc>>

WordsDone ==
    /\ pc = "words" /\ xlen = 0
    /\ len' = len % opsize
    /\ pc' = "tail"
    /\ UNCHANGED <<arguments, addr, xlen, mem>>

TailByte ==
    /\ pc = "tail" /\ len > 0
    /\ StoreByte
    /\ addr' = addr + 1 /\ len' = len - 1
    /\ UNCHANGED <<arguments, xlen, pc>>

TailDone ==
    /\ pc = "tail" /\ len = 0
    /\ pc' = "done"
    /\ UNCHANGED <<arguments, addr, len, xlen, mem>>

Next ==
    \/ Enter \/ AlignByte \/ Aligned \/ Block \/ BlocksDone
    \/ Word \/ WordsDone \/ TailByte \/ TailDone

Spec == Init /\ [][Next]_vars /\ WF_vars(Next)

---------------------------------------------------------------------------
(* Properties *)

TypeOK ==
    /\ opsize \in {4, 8}
    /\ dst \in 0..MaxDst /\ c \in Bytes /\ size \in 0..MaxLen
    /\ addr \in Nat /\ len \in Nat /\ xlen \in Nat
    /\ mem \in [Address -> Bytes \cup {Old}]
    /\ pc \in {"start", "align", "blocks", "words", "tail", "done"}

\* The bytes that smemset is asked to set.
Region == IF dst = 0 THEN {} ELSE dst..(dst + size - 1)

\* At the end the region is set and nothing else is, whatever the address, the
\* length and the size of a word are: neither the bytes up to the first whole
\* word, nor the blocks, the words and the rest miss a byte or run over.
RegionSet ==
    pc = "done" => mem = [a \in Address |-> IF a \in Region THEN c ELSE Old]

\* No byte outside of the region is ever written, by no store of a word either.
NothingElse == \A a \in Address \ Region : mem[a] = Old

\* Words are stored at multiples of their size only.
WordsAligned == pc \in {"blocks", "words"} => addr % opsize = 0

\* The loops end.
Terminates == <>(pc = "done")

\* What is still to be set, between addr and the end of the region, in terms of
\* the counters that the loops run on.
Rest ==
    CASE pc \in {"start", "align", "tail"} -> len
      [] pc = "blocks" -> 8 * opsize * xlen + (len % (8 * opsize))
      [] pc = "words" -> opsize * xlen + (len % opsize)
      [] OTHER -> 0

\* The loop invariant: the memory is set up to addr, and Rest is what is left.
Progress ==
    dst # 0 /\ pc # "done" =>
        /\ dst <= addr
        /\ addr + Rest = dst + size
        /\ \A a \in Address : mem[a] = IF dst <= a /\ a < addr THEN c ELSE Old

\* Bytes enough are left to reach a multiple of the word.
Enough ==
    pc = "align" /\ addr % opsize # 0 => len >= opsize - (addr % opsize)

\* The invariant that the proofs use: with it NULL is never written through, and
\* the end is reached with nothing left.
Ending ==
    /\ dst = 0 => pc \in {"start", "done"} /\ mem = [a \in Address |-> Old]
    /\ dst # 0 /\ pc = "done" =>
          mem = [a \in Address |-> IF a \in dst..(dst + size - 1) THEN c ELSE Old]

IInv == TypeOK /\ WordsAligned /\ Progress /\ Enough /\ Ending

=============================================================================
