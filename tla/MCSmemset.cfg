SPECIFICATION Spec
CONSTANTS
    Bytes = {0, 255}
    Old = Old
    MaxDst = 8
    MaxLen = 140
INVARIANT RegionSet
PROPERTY Terminates
CHECK_DEADLOCK FALSE
