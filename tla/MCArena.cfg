\* Chunks of one and two default sizes, up to four of them, aged up to three seconds.
SPECIFICATION Spec
CONSTANTS
    DefaultChunk = 4
    MaxChunk = 16
    Alignment = 2
    Page = 4
    MaxAlloc = 8
    Sizes <- MCSizes
    MaxTime = 3
    MaxMaps = 4
INVARIANTS
    BlocksDisjoint
    BlocksMapped
    CountIsRight
