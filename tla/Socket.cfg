SPECIFICATION FairSpec
CONSTANTS
    PairRoom = 1
    Capacity = 2
    Window = 1
    OwnerLen = 1
    PeerLen = 3
INVARIANTS
    EofIsHonest
    ClosedMeansDelivered
    ThreadSurvives
PROPERTIES
    DestructorReturns
    
CHECK_DEADLOCK FALSE
