\* All sorted tables of at most 6 pairs over 5 keys, repeated keys included.
SPECIFICATION LoopSpec
CONSTANTS
    Keys <- MCKeys
    MaxSize = 6
INVARIANTS
    SearchIsRight
    ProbeInTable
    SearchAgrees
PROPERTY Terminates
CHECK_DEADLOCK FALSE
