SPECIFICATION FairSpec
CONSTANTS
    Connectors <- MCConnectors
    Lengths <- MCLengths
    Chunk = 2
    TwoTo31 = 4
    MaxReqs = 2
    MaxBody = 2
INVARIANTS
    ResponseShape
    Answered
    FormComplete
PROPERTY RequestEnds
CHECK_DEADLOCK FALSE
