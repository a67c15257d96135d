SPECIFICATION FairSpec
CONSTANTS
    Unit = 2
    BuffUnits <- MCBuffUnits
    PutSizes <- MCPutSizes
    MaxData <- MCMaxData
    MaxReqs = 2
    Statuses = {1}
CHECK_DEADLOCK FALSE
INVARIANTS
    BufferFits
    ResponseIntact
PROPERTIES
    CallsReturn
    ImplementsRequest
