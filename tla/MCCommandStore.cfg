\* Four keys, two of them too long, in two buckets and at most three nodes.
SPECIFICATION Spec
CONSTANTS
    k = k
    long = long
    cut = cut
    far = far
    v = v
    w = w
    big = big
    NoValue = NoValue
    Keys <- MCKeys
    Vals <- MCVals
    Buckets <- MCBuckets
    Home <- MCHome
    Stored <- MCStored
    Kept <- MCKept
    MaxNodes = 3
INVARIANTS
    OneNodePerPlainKey
    SizeCountsNodes
    SetIsStored
PROPERTY PlainKeysFormMap
