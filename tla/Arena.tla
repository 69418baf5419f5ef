-------------------------------- MODULE Arena --------------------------------
(***************************************************************************)
(* The arena allocator of kryocache (core/data/tokens/core/core.c): one    *)
(* current chunk that allocations are cut from, a list of older chunks, a  *)
(* reset, a cleanup that frees the old chunks past an age, and destroy.    *)
(* Every operation runs under the arena's mutex: each is one step.         *)
(*                                                                         *)
(* Sizes and offsets are in bytes; chunks are told apart by a number given *)
(* when they are mapped.  arena_cleanup_old is read without its mprotect   *)
(* of an undeclared size, which does not compile.                          *)
(***************************************************************************)
EXTENDS Integers, Sequences, FiniteSets, Functions

CONSTANTS
    DefaultChunk, MaxChunk,  \* ARENA_DEFAULT_CHUNK_SIZE, ARENA_MAX_CHUNK_SIZE
    Alignment, Page,         \* ARENA_ALIGNMENT, the page size
    MaxAlloc,                \* ARENA_MAX_ALLOC_SIZE
    Sizes,                   \* the sizes that callers ask for
    MaxTime,                 \* bound on the clock, in seconds
    MaxMaps                  \* bound: mmap fails after this many chunks

ASSUME PositiveAssumption ==
    {DefaultChunk, MaxChunk, Alignment, Page, MaxAlloc} \subseteq Nat \ {0}
ASSUME SizesAssumption == Sizes \subseteq Nat
ASSUME BoundsAssumption == MaxTime \in Nat /\ MaxMaps \in Nat

VARIABLES
    current,                      \* the chunk allocated from, or NoChunk
    old,                          \* old_chunks, the head first
    totalAllocated, totalUsed, chunkCount,
    now,                          \* time(NULL)
    maps,                         \* history: chunks mapped so far
    blocks,                       \* history: blocks given out and not freed since
    returned                      \* what the last arena_alloc returned

vars == <<current, old, totalAllocated, totalUsed, chunkCount, now, maps, blocks, returned>>

NoChunk == [id |-> 0, used |-> 0, size |-> 0, createdAt |-> 0]
NULL == [chunk |-> 0, offset |-> 0, size |-> 0]

RoundUp(size, unit) == ((size + unit - 1) \div unit) * unit

\* arena_calculate_new_chunk_size: the loop doubles the default size.
NewChunkSize(requested) ==
    LET grow[size \in 1..MaxChunk] ==
            IF size >= requested \/ size >= MaxChunk THEN size
            ELSE IF size > MaxChunk \div 2 THEN MaxChunk
            ELSE grow[2 * size]
    IN  IF requested <= DefaultChunk THEN DefaultChunk ELSE grow[DefaultChunk]

\* What the sizes above must give: every block fits into a chunk made for it.
ASSUME FitsAssumption ==
    \A size \in 1..MaxAlloc :
        LET aligned == RoundUp(size, Alignment) IN
        /\ NewChunkSize(aligned) \in Nat \ {0}
        /\ aligned <= RoundUp(NewChunkSize(aligned), Page)

\* The operators named Bug... are never used by the specification: each is a
\* mistake that a change to the code could make, kept as a test of a property.

\* A chunk that is not full is thought to have room for any size.
BugAnyRoom(chunk, size) == chunk # NoChunk /\ chunk.used < chunk.size

Chunks == {c \in Range(old) \cup {current} : c # NoChunk}
Fits(chunk, size) == chunk # NoChunk /\ chunk.used + size <= chunk.size

Init ==
    /\ current = NoChunk
    /\ old = <<>>
    /\ totalAllocated = 0 /\ totalUsed = 0 /\ chunkCount = 0
    /\ now = 0
    /\ maps = 0
    /\ blocks = {}
    /\ returned = NULL

---------------------------------------------------------------------------
(* arena_alloc *)

\* The block at the end of what is used of a chunk, which becomes current.
CutFrom(chunk, size) ==
    LET block == [chunk |-> chunk.id, offset |-> chunk.used, size |-> size] IN
    /\ current' = [chunk EXCEPT !.used = @ + size]
    /\ totalUsed' = totalUsed + size
    /\ blocks' = blocks \cup {block}
    /\ returned' = block

\* The current chunk goes to the head of the list, or away if it is empty.
Retire(list) == IF current.used > 0 THEN <<current>> \o list ELSE list
Dropped == IF current # NoChunk /\ current.used = 0 THEN 1 ELSE 0

AllocCurrent(size) ==
    /\ Fits(current, size)
    /\ CutFrom(current, size)
    /\ UNCHANGED <<old, totalAllocated, chunkCount, maps>>

HasRoom(i, size) == old[i].size - old[i].used >= size
IsFirst(i, size) == HasRoom(i, size) /\ \A j \in 1..(i - 1) : ~HasRoom(j, size)

\* The list without its i-th chunk.
Without(i) == [j \in 1..(Len(old) - 1) |-> old[IF j < i THEN j ELSE j + 1]]

\* A chunk that is found in the list stays in it.
BugLeftInList(size) ==
    /\ ~Fits(current, size)
    /\ \E i \in DOMAIN old : IsFirst(i, size) /\ CutFrom(old[i], size)
    /\ old' = Retire(old)
    /\ chunkCount' = chunkCount - Dropped
    /\ UNCHANGED <<totalAllocated, maps>>

\* The first old chunk with room is taken out of the list.
AllocOld(size) ==
    /\ ~Fits(current, size)
    /\ \E i \in DOMAIN old :
          /\ IsFirst(i, size)
          /\ CutFrom(old[i], size)
          /\ old' = Retire(Without(i))
    /\ chunkCount' = chunkCount - Dropped
    /\ UNCHANGED <<totalAllocated, maps>>

\* The new chunk is counted, the empty one that it replaces is not taken off.
BugCountGrows(size) ==
    LET mapped == RoundUp(NewChunkSize(size), Page) IN
    /\ ~Fits(current, size)
    /\ \A i \in DOMAIN old : ~HasRoom(i, size)
    /\ maps < MaxMaps
    /\ maps' = maps + 1
    /\ CutFrom([id |-> maps + 1, used |-> 0, size |-> mapped, createdAt |-> now], size)
    /\ old' = Retire(old)
    /\ totalAllocated' = totalAllocated + mapped
    /\ chunkCount' = chunkCount + 1

\* A new chunk is mapped.
AllocNew(size) ==
    LET mapped == RoundUp(NewChunkSize(size), Page) IN
    /\ ~Fits(current, size)
    /\ \A i \in DOMAIN old : ~HasRoom(i, size)
    /\ maps < MaxMaps
    /\ maps' = maps + 1
    /\ CutFrom([id |-> maps + 1, used |-> 0, size |-> mapped, createdAt |-> now], size)
    /\ old' = Retire(old)
    /\ totalAllocated' = totalAllocated + mapped
    /\ chunkCount' = chunkCount - Dropped + 1

\* mmap or calloc fails.
AllocFails(size) ==
    /\ ~Fits(current, size)
    /\ \A i \in DOMAIN old : ~HasRoom(i, size)
    /\ returned' = NULL
    /\ UNCHANGED <<current, old, totalAllocated, totalUsed, chunkCount, maps, blocks>>

AllocRefused ==
    /\ returned' = NULL
    /\ UNCHANGED <<current, old, totalAllocated, totalUsed, chunkCount, maps, blocks>>

Alloc(requested) ==
    LET size == RoundUp(requested, Alignment) IN
    /\ \/ /\ requested = 0 \/ requested > MaxAlloc
          /\ AllocRefused
       \/ /\ requested \in 1..MaxAlloc
          /\ AllocCurrent(size) \/ AllocOld(size) \/ AllocNew(size) \/ AllocFails(size)
    /\ UNCHANGED now

---------------------------------------------------------------------------
\* arena_reset
Reset ==
    /\ old' = <<>>
    /\ current' = [current EXCEPT !.used = 0]
    /\ chunkCount' = chunkCount - Len(old)
    /\ totalUsed' = 0
    /\ blocks' = {}
    /\ UNCHANGED <<totalAllocated, now, maps, returned>>

\* The walk through a set of positions, from the first to the last.
Walks(positions) ==
    {walk \in [1..Cardinality(positions) -> positions] :
        \A i, j \in DOMAIN walk : i < j => walk[i] < walk[j]}

\* arena_cleanup_old
CleanupOld(maxAge) ==
    LET young == {i \in DOMAIN old : now - old[i].createdAt <= maxAge}
        gone == {old[i].id : i \in DOMAIN old \ young}
    IN
    /\ \E walk \in Walks(young) : old' = [i \in DOMAIN walk |-> old[walk[i]]]
    /\ chunkCount' = chunkCount - (Len(old) - Cardinality(young))
    /\ blocks' = {b \in blocks : b.chunk \notin gone}
    /\ UNCHANGED <<current, totalAllocated, totalUsed, now, maps, returned>>

\* arena_destroy, and the arena_init of the next arena: every chunk is unmapped.
Destroy ==
    /\ current' = NoChunk
    /\ old' = <<>>
    /\ totalAllocated' = 0 /\ totalUsed' = 0 /\ chunkCount' = 0
    /\ blocks' = {}
    /\ returned' = NULL
    /\ UNCHANGED <<now, maps>>

Tick ==
    /\ now < MaxTime
    /\ now' = now + 1
    /\ UNCHANGED <<current, old, totalAllocated, totalUsed, chunkCount, maps, blocks, returned>>

Next ==
    \/ \E requested \in Sizes : Alloc(requested)
    \/ Reset
    \/ \E maxAge \in 1..MaxTime : CleanupOld(maxAge)
    \/ Destroy
    \/ Tick

Spec == Init /\ [][Next]_vars

---------------------------------------------------------------------------
(* Properties *)

Chunk == [id : 1..MaxMaps, used : Nat, size : Nat \ {0}, createdAt : 0..MaxTime]
Block == [chunk : 1..MaxMaps, offset : Nat, size : Nat \ {0}]

TypeOK ==
    /\ current \in Chunk \cup {NoChunk}
    /\ old \in Seq(Chunk)
    /\ totalAllocated \in Nat /\ totalUsed \in Nat /\ chunkCount \in Nat
    /\ now \in 0..MaxTime
    /\ maps \in 0..MaxMaps
    /\ blocks \subseteq Block
    /\ returned \in Block \cup {NULL}

\* Two blocks that callers hold never overlap, through any order of new chunks,
\* chunks taken back from the list, resets and cleanups.
BlocksDisjoint ==
    \A a, b \in blocks :
        a # b /\ a.chunk = b.chunk =>
            a.offset + a.size <= b.offset \/ b.offset + b.size <= a.offset

\* A block that a caller holds lies in the used part of a chunk that the arena
\* still has mapped: alloc never destroys a chunk that anybody holds.
BlocksMapped ==
    \A b \in blocks : \E c \in Chunks :
        c.id = b.chunk /\ b.offset + b.size <= c.used /\ c.used <= c.size

\* The counter is the number of chunks: each is in one place, and each one
\* destroyed, by alloc, reset or cleanup, is taken off once.
CountIsRight == chunkCount = Len(old) + (IF current = NoChunk THEN 0 ELSE 1)

=============================================================================
