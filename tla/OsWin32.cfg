SPECIFICATION FairSpec
CONSTANTS
    OpenMax = 4
    Handles <- MCHandles
    MaxOps = 2
    MaxOpens = 2
INVARIANTS
    SocketsAccounted
    OneCompletion
    MutexDiscipline
PROPERTIES
    OperationCompletes
    ShutdownStops
CHECK_DEADLOCK FALSE
