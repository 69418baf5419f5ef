\* Up to four signals, delivered to either thread, at any time.
SPECIFICATION Spec
CONSTANTS
    SignalThreads <- OnAny
    MaxSignals = 4
INVARIANTS
    OneLateConnection
PROPERTIES
    StopIsFinal
    StopEndsProcess
CHECK_DEADLOCK FALSE
