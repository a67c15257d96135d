SPECIFICATION FairSpec
CONSTANTS
    Procs = {p1, p2}
    Clients = {c1}
    None = None
    UseLocking = TRUE
CHECK_DEADLOCK FALSE
PROPERTY ShutdownLeaves
