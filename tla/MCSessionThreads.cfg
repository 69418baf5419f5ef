\* Two threads share a client; one may connect and then send nothing.
SPECIFICATION Spec
CONSTANTS
    k = k
    mixed = mixed
    v = v
    mixedv = mixedv
    longv = longv
    c1 = c1
    t1 = t1
    t2 = t2
    None = None
    NoValue = NoValue
    Keys <- MCKeys
    Vals <- MCVals
    Buckets = {1}
    Home <- MCHome
    Stored <- MCStored
    Kept <- MCKept
    MaxNodes = 2
    Unsent = {longv}
    MixedKey = mixed
    MixedValue = mixedv
    Clients = {c1}
    Threads = {t1, t2}
    Owner <- SharedOwner
    Calls <- SetGetConnect
    MaxCalls = 3
    MaxAtExit = 1
    MaxConns = 2
INVARIANTS
    AtMostOnce
    StaleOnlyAfterError
    AnsweredInOrder
    StatsAccount
    AcknowledgedIsRead
PROPERTY OperationsReturn
CHECK_DEADLOCK FALSE
