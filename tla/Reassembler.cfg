SPECIFICATION Spec
CONSTANTS
    Capacity = 5
    StreamLen = 11
    MaxUnass = 10
INVARIANTS
    InOrderOutput
    RingCoherent
