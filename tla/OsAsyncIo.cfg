SPECIFICATION FairSpec
CONSTANTS
    LastFd = 1
    InitTableSize = 2
INVARIANTS
    ClosedForgotten
    TableCovers
    OutstandingHeld
    PostedCounted
PROPERTY OperationCompletes
