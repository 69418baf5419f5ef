\* One signal; uses of the server after server_destroy.
SPECIFICATION Spec
CONSTANTS
    SignalThreads <- OnMain
    MaxSignals = 1
INVARIANT NoUseAfterDestroy
CHECK_DEADLOCK FALSE
