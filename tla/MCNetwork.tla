------------------------------ MODULE MCNetwork ------------------------------
(* The simulated network in small: four-bit addresses, a default route, two *)
(* directly attached networks (one of them with two hosts), and nested      *)
(* routes to one remote network.                                            *)
EXTENDS Network

CONSTANTS applesauce, default_router, hs_router, dm42, dm43

MCHost == {applesauce, default_router, hs_router, dm42, dm43}

MCAddress ==
    (applesauce :> <<0, 0, 1, 0>>) @@ (default_router :> <<1, 1, 1, 1>>) @@
    (hs_router :> <<1, 0, 0, 1>>) @@ (dm42 :> <<0, 1, 1, 0>>) @@ (dm43 :> <<0, 1, 1, 1>>) @@
    (0 :> <<1, 1, 1, 0>>) @@ (1 :> <<0, 0, 0, 1>>) @@ (2 :> <<0, 1, 0, 1>>) @@
    (3 :> <<1, 0, 0, 0>>)

MCNextHop ==
    (applesauce :> MCAddress[1]) @@ (dm42 :> MCAddress[2]) @@ (dm43 :> MCAddress[2]) @@
    (hs_router :> MCAddress[3]) @@ (default_router :> MCAddress[0])

MCLink == <<<<0, default_router>>, <<1, applesauce>>, <<3, hs_router>>, <<2, dm42, dm43>>>>

Via(prefix, len, hop, num) == [prefix |-> prefix, len |-> len, hop |-> hop, num |-> num]

MCRoutes ==
    {Via(<<0, 0, 0, 0>>, 0, MCAddress[default_router], 0),
     Via(<<0, 0, 0, 0>>, 2, NoHop, 1),
     Via(<<0, 1, 0, 0>>, 2, NoHop, 2),
     Via(<<1, 0, 0, 0>>, 2, MCAddress[hs_router], 3),
     Via(<<1, 1, 0, 0>>, 3, MCAddress[hs_router], 3)}

MCDestination ==
    {MCAddress[applesauce], MCAddress[dm42], MCAddress[dm43], <<1, 0, 1, 1>>, <<1, 1, 0, 1>>,
     <<1, 1, 1, 0>>}

MCIP == Range(MCAddress) \cup MCDestination
MCEthernet == MCHost \cup 0 .. 3
=============================================================================
