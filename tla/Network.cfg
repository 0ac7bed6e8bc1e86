SPECIFICATION FairSpec
CONSTANTS
    applesauce = applesauce
    default_router = default_router
    hs_router = hs_router
    dm42 = dm42
    dm43 = dm43
    None = None
    NoHop = NoHop
    BROADCAST = BROADCAST
    Host <- MCHost
    address <- MCAddress
    next_hop <- MCNextHop
    Link <- MCLink
    Routes <- MCRoutes
    Destination <- MCDestination
    Sender = {applesauce, dm42}
    Interface = {0, 1, 2, 3}
    Width = 4
    Hop <- MCIP
    IP <- MCIP
    Ethernet <- MCEthernet
    TTL = {1, 2}
    ARP_WAIT = 5000
    MAPPING_TTL = 30000
    MaxSend = 2
INVARIANTS
    LongestPrefixMatch
    UnroutedOnInterfaceZero
    NothingUnexpected
PROPERTIES
    EverythingRouted
