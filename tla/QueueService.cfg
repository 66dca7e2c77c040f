SPECIFICATION FairSpec
CONSTANTS
    SIZE = 2
    W = 4
    Loads <- AllLoads
INVARIANTS
    NoLostKick
    NoLostInterrupt
    
PROPERTIES
    ChainsComeBack
CHECK_DEADLOCK FALSE
