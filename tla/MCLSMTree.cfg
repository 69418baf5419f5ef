\* Two keys and two values that fit their fields, one of each that does not,
\* and two SSTables: the second flush after a full list compacts tables that
\* hold both keys with different values.
SPECIFICATION Spec
CONSTANTS
    a = a
    b = b
    c = c
    NoValue = NoValue
    Keys <- MCKeys
    Vals <- MCVals
    Stored <- MCStored
    Kept <- MCKept
    Garbage <- MCGarbage
    MaxGarbage = 1
    MemtableSize = 1
    MaxSSTables = 2
INVARIANTS
    TypeOK
    SSTablesSorted
    NothingInvented
    NoKeyDropped
    LatestUntilCompaction
    IdleMatchesDisk
PROPERTY ImplementsKVStore
