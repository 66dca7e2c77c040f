SPECIFICATION FairSpec
CONSTANTS
    RX_BACKLOG = 2
    RING = 2
    Loads <- WorkingLoads
INVARIANTS
    NothingForgotten
PROPERTIES
    FramesAreTaken
CHECK_DEADLOCK FALSE
