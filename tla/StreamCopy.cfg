SPECIFICATION FairSpec
CONSTANTS
    max_copy_length = 2
    buffer_size_max = 2
    KernelRoom = 1
    InputLength = 2
    PeerLength = 1
INVARIANTS
    NothingLost
    ExitMeansCopied
    NoSpuriousAbort
PROPERTIES
    CopyEnds
CHECK_DEADLOCK FALSE
