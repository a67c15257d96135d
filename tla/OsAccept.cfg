SPECIFICATION FairSpec
CONSTANTS
    Procs = {p1, p2}
    Clients = {c1, c2}
    None = None
    UseLocking = TRUE
CHECK_DEADLOCK FALSE
INVARIANTS
    LockDiscipline
    ServesOwnApproved
    NoLeak
    ShutdownBound
PROPERTY QueueServed
