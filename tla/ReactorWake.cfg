SPECIFICATION FairSpec

CONSTANTS
    Keys = {k1, k2}
    Threads = {t1}
    TOUCHED_MAX = 1

INVARIANTS
    NoLostWake
    TouchedCovers
    Signalled
PROPERTIES
    EventsServed
