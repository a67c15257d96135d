SPECIFICATION Spec
CONSTANTS
    Heap = {h1}
    FILEs = {f1, f2}
    NULL = NULL
    Statuses = {0, 1}
    Reopened = {"stdout"}
    MaxReqs = 2
CHECK_DEADLOCK FALSE
INVARIANTS
    NoDangling
    FilesHeld
    RequestsAnswered
    StatusHonoured
PROPERTY ImplementsRequest
SYMMETRY MCSymmetry
