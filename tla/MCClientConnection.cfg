\* Two clients, each created, connected and destroyed again, two attempts.
SPECIFICATION Spec
CONSTANTS
    Systems = {1, 2, 3}
    NoSystem = 0
    Names <- MCNames
    Upper <- MCUpper
    Clients = {1, 2}
    Descriptors = {3, 4}
    NoSocket = 0
    Configs <- MCConfigs
    MaxRetries = 2
    MaxConnects = 3
INVARIANTS
    DescriptorsOwned
    OnlyDenialsLeak
    StatusTellsSocket
    BlockingUnlessRefused
    OnlyDestroyLeaks
    ListIsWhole
PROPERTIES
    ConnectReturns
    ImplementsClientLink
CHECK_DEADLOCK FALSE
