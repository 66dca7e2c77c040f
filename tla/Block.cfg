SPECIFICATION FairSpec
CONSTANTS
    SECTORS = 4
    BLOCK = 2
    SIZE = 2
    Loads <- AllLoads
INVARIANTS
    ReadsSeeEarlierMutations
    FlushCoversEarlier
    MutationsInOrder
    KeepsWhatItOwes
    WaitIsNoticed
PROPERTIES
    RequestsAreAnswered
CHECK_DEADLOCK FALSE
