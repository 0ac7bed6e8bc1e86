SPECIFICATION Spec
CONSTANTS
    U32 = 16
    U64 = 128
    MaxCheckpoint = 90
INVARIANT RoundTrip
