SPECIFICATION Spec

CONSTANTS
    MIN_WINDOW = 2
    BUF_ALLOC = 4
    BUDGET = 2
    WRAP = 9
    OUTBOX_LIMIT = 2
    SOCK_BUF = 1
    MaxBytes = 10
    Loads <- SafeLoads

INVARIANTS
    GracefulReset
    BuffersKept
PROPERTIES
    GuestToClient
    ClientToGuest
CHECK_DEADLOCK FALSE
