SPECIFICATION FairSpec
CONSTANTS
    RX_BACKLOG = 2
    RING = 2
    Loads <- WatchedFull
PROPERTIES
    FramesAreTaken
CHECK_DEADLOCK FALSE
