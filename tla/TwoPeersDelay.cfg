SPECIFICATION Spec
CONSTANTS
    U32 = 16
    U64 = 128
    MAX_PAYLOAD_SIZE = 2
    MAX_RETX_ATTEMPTS = 1
    LINGER = 2
    MAX_WINDOW = 15
    SendCapacity = 2
    RecvCapacity = 2
    RTO = 1
    ClientISN = 13
    ServerISN = 5
    ClientLen = 3
    ServerLen = 1
    MaxLoss = 0
    MaxDup = 0
    MaxOvertake = 0
    MaxTicks = 1
    MaxFaults = 1
CHECK_DEADLOCK FALSE
INVARIANTS
    EofMeansComplete
    NoLingerSafe
 
