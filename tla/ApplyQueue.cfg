SPECIFICATION FairSpec
CONSTANTS
    c1 = c1
    c2 = c2
    d1 = d1
    d2 = d2
    f1 = f1
    f2 = f2
    None = None
    Callers = {c1, c2}
    Workers = {w1, w2, w3}
    Keys = {d1, d2, f1, f2}
    Loads <- AllLoads
INVARIANTS
    SharedKeysInOrder
    
    NothingClaimedEarly
    NothingMislaid
    NobodySleepsThroughWork
PROPERTIES
    SharesAreDropped
CHECK_DEADLOCK FALSE
