SPECIFICATION FairSpec

CONSTANTS
    MIN_WINDOW = 4
    BUF_ALLOC = 8
    BUDGET = 4
    WRAP = 17
    OUTBOX_LIMIT = 2
    SOCK_BUF = 1
    MaxBytes = 6
    Loads <- LiveLoads

PROPERTIES
    GuestNeverStalls
    PumpEnds

CHECK_DEADLOCK FALSE
