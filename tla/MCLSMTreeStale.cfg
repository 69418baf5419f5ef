\* The same instance; the property that compaction breaks.
SPECIFICATION Spec
CONSTANTS
    a = a
    b = b
    c = c
    NoValue = NoValue
    Keys <- MCKeys
    Vals <- MCVals
    Stored <- MCStored
    Kept <- MCKept
    Garbage <- MCGarbage
    MaxGarbage = 1
    MemtableSize = 1
    MaxSSTables = 2
INVARIANT GetReturnsLastPut
