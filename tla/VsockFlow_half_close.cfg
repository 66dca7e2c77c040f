SPECIFICATION FairSpec

CONSTANTS
    MIN_WINDOW = 2
    BUF_ALLOC = 4
    BUDGET = 2
    WRAP = 9
    OUTBOX_LIMIT = 2
    SOCK_BUF = 1
    MaxBytes = 4
    Loads <- HalfCloseLoads

PROPERTIES
    GuestNeverStalls

CHECK_DEADLOCK FALSE
