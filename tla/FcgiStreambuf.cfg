SPECIFICATION Spec
CONSTANTS
    MaxReqs = 2
    BufSizes <- MCBufSizes
    Sizes <- MCSizes
    INT_MAX = 4
    InLen = 5
    OutLen = 6
CHECK_DEADLOCK FALSE
INVARIANTS
    InputInOrder
    OutputInOrder
    FlushedMeansAll
