SPECIFICATION FairSpec
CONSTANTS
    MIN_WINDOW = 1
    BUF_ALLOC = 2
    BUDGET = 1
    WRAP = 8
    GuestKeys = {g1}
    HostKeys = {h1}
    Heads = {c1, c2}
    NoKey = NoKey
    MaxId = 2
    MaxOwned = 1
    Loads <- LiveLoads
INVARIANTS
    GrantedExact
    GrantedBounded
PROPERTIES
    ChainsReturned
    
