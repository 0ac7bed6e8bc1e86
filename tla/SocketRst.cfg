SPECIFICATION FairSpec
CONSTANTS
    PairRoom = 1
    Capacity = 2
    Window = 1
    OwnerLen = 1
    PeerLen = 1
PROPERTIES
    ResetOnDestruct
CHECK_DEADLOCK FALSE
