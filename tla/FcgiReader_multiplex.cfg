SPECIFICATION Spec
CONSTANTS
    ParamsLen = 1
    HeaderLen = 2
    BodyLen = 2
    BuffLen = 8
    Scripts <- MultiplexScripts
    MaxConns = 1
    MaxGet = 2
CHECK_DEADLOCK FALSE
INVARIANT EveryEndMeansAll
