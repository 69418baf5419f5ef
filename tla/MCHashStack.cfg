\* Two threads, two nodes; the sixth hash repeats the second.
SPECIFICATION Spec
CONSTANTS
    t1 = t1
    t2 = t2
    a = a
    b = b
    Threads = {t1, t2}
    Nodes = {a, b}
    Null = Null
    Hashes = {0, 1, 2, 3, 4, 5}
    MaxDrawn = 6
    HashAt <- MCHashAt
INVARIANTS
    NodesAccounted
PROPERTIES
    FooledByRepeatOnly
    StackUntilFooled
CHECK_DEADLOCK FALSE
