SPECIFICATION Spec
CONSTANTS
    ParamsLen = 1
    HeaderLen = 2
    BodyLen = 2
    BuffLen = 8
    Scripts <- AnyScripts
    MaxConns = 2
    MaxGet = 2
CHECK_DEADLOCK FALSE
INVARIANTS
    Delivered
    StreamsInTurn
    PositionAccounted
    PassedAnswered
    QueryAnswered
PROPERTIES
    ImplementsRequest
