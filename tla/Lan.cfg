SPECIFICATION FairSpec
CONSTANTS
    a = a
    b = b
    None = None
    BROADCAST = BROADCAST
    IP <- MCIP
    Ethernet <- MCEthernet
    Route <- MCRoute
    ARP_WAIT = 1
    MAPPING_TTL = 2
    Step = 1
    MaxSend = 2
    MaxRetransmit = 2
    MaxLoss = 1
    MaxRestart = 1
INVARIANTS
    OrderKept
    CacheCoherent
PROPERTIES
    RetryHeals
    StaleForgotten
