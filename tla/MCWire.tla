------------------------------- MODULE MCWire -------------------------------
(***************************************************************************)
(* A server and three hosts that contact it: two on different addresses    *)
(* with the same port, two on one address with different ports.            *)
(***************************************************************************)
EXTENDS Wire

Addr(last8, port) == [ip |-> <<10, 0, 0, last8>>, port |-> port]

MCHosts == {"server", "client", "rival", "sibling"}
MCAddressOf ==
    [server |-> Addr(1, 1234), client |-> Addr(2, 40000), rival |-> Addr(3, 40000),
     sibling |-> Addr(2, 40001)]
MCEthOf ==
    [server |-> <<2, 0, 0, 0, 0, 1>>, client |-> <<2, 0, 0, 0, 0, 2>>,
     rival |-> <<2, 0, 0, 0, 0, 3>>, sibling |-> <<2, 0, 0, 0, 0, 4>>]

Seg(flags, payload) ==
    [header |-> [TCPHeader EXCEPT !.seqno = <<255, 255, 255, 254>>, !.flags = flags, !.win = 64000],
     payload |-> payload]
MCSegments == {Seg(SYN, <<>>), Seg(SYN + RST, <<>>), Seg(ACK + FIN, <<0, 9, 0>>)}
=============================================================================
