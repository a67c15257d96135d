SPECIFICATION Spec
CONSTANTS
    LastFd = 1
    InitTableSize = 2
INVARIANT WorkSeenWhenNothingPosted
