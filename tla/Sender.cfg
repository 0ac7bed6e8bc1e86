SPECIFICATION Spec
CONSTANTS
    U32 = 16
    U64 = 128
    MAX_PAYLOAD_SIZE = 2
    Capacity = 3
    RTO = 2
    ISN = 14
    Windows = {0, 1, 2, 4}
    MaxBytes = 5
    MaxRetx = 2
INVARIANTS
    FlightCovered
    SeqnoAccounting
    OutstandingBytes
    NothingStranded
    TimerSound
PROPERTIES
    WindowRespected
    AckProgress
