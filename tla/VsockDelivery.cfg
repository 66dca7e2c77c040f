SPECIFICATION FairSpec

CONSTANTS
    Heads = {h1, h2, h3}
    Threads = {t1, t2}
    PILE = 2

INVARIANTS
    NothingLeftBehind
PROPERTIES
    SilentGuestServed
