\* One process; the meaning of CLIENT_SUCCESS.
SPECIFICATION Spec
CONSTANTS
    k = k
    mixed = mixed
    v = v
    mixedv = mixedv
    longv = longv
    c1 = c1
    t1 = t1
    t2 = t2
    None = None
    NoValue = NoValue
    Keys <- MCKeys
    Vals <- MCVals
    Buckets = {1}
    Home <- MCHome
    Stored <- MCStored
    Kept <- MCKept
    MaxNodes = 2
    Unsent = {longv}
    MixedKey = mixed
    MixedValue = mixedv
    Clients = {c1}
    Threads = {t1, t2}
    Owner <- SharedOwner
    Calls <- SetFlushPing
    MaxCalls = 2
    MaxAtExit = 1
    MaxConns = 1
INVARIANT SuccessMeansRan
CHECK_DEADLOCK FALSE
