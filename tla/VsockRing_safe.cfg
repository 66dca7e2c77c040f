SPECIFICATION Spec
CONSTANTS
    MIN_WINDOW = 1
    BUF_ALLOC = 1
    BUDGET = 0
    WRAP = 8
    GuestKeys = {g1}
    HostKeys = {h1}
    Heads = {c1, c2, c3}
    NoKey = NoKey
    MaxId = 3
    MaxOwned = 1
    Loads <- SafeLoads
SYMMETRY Symmetry
INVARIANTS
    TypeOK
    ChainsOwnedOnce
    HeldExact
    ShareAndReserve
    BufferedExact
PROPERTIES
    ClosedStays
