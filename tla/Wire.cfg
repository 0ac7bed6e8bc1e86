SPECIFICATION Spec
CONSTANTS
    Stacks = {"udp", "tun", "tap"}
    Server = "server"
    Hosts <- MCHosts
    AddressOf <- MCAddressOf
    EthOf <- MCEthOf
    Segments <- MCSegments
    Flips = {1, 16, 128}
    Cuts = {1, 2, 6}
INVARIANTS
    IntactOrNothing
    DueIsDelivered
    OnlyFromThePeer
    BoundToAHost
    FramesToldApart
