------------------------------- MODULE Network -------------------------------
(***************************************************************************)
(* The network of apps/network_simulator.cc: a router with several         *)
(* interfaces, hosts on the links of these interfaces, and a loop that     *)
(* lets the router route and the links carry frames.  Each interface is an *)
(* AsyncNetworkInterface (libsponge/router.hh).  The routes are added in   *)
(* any order, and hosts send at any point of the loop.                     *)
(***************************************************************************)
EXTENDS Router, NetworkInterface, SequencesExt

CONSTANTS Host,         \* the hosts
          address,      \* the Internet address of each host and router interface
          next_hop,     \* where each host sends its datagrams
          Link,         \* sequence of links, each the sequence of what is on it
          Routes,       \* the routes that are added
          Destination,  \* the addresses hosts send to
          Sender,       \* the hosts that send
          TTL,          \* the times to live hosts send with
          MaxSend       \* bound: datagrams sent

VARIABLES node,   \* the interface of each host, and each interface of the router
          turn,   \* the next step of the loop: 0 is route(), n is link n
          sent,   \* the datagrams sent, with the host that sent them
          got     \* the datagrams each host received

vars == <<bst, table, node, turn, sent, got>>

End == Host \cup Interface

ASSUME NetworkAssumption ==
    /\ Interface = 0 .. Cardinality(Interface) - 1
    /\ \A e \in End : address[e] \in IP /\ e \in Ethernet
    /\ Routes \subseteq [prefix : Address, len : 0 .. Width,
                         hop : Hop \cup {NoHop}, num : Interface]

AsyncNetworkInterface(eth, ip) == [datagrams_out |-> <<>>] @@ NetworkInterface(eth, ip)

Async_recv_frame(i, frame) ==
    IF Datagram(i, frame)
    THEN [i EXCEPT !.datagrams_out = Append(@, frame.payload)]
    ELSE recv_frame(i, frame)

Init ==
    /\ TableInit
    /\ node = [e \in End |-> AsyncNetworkInterface(e, address[e])]
    /\ turn = 0
    /\ sent = {}
    /\ got = [h \in Host |-> <<>>]

(* The constructor of Network adds all routes before anything is sent.      *)
Prefix(r) == First(r.prefix, r.len)
Constructed == \A r \in Routes : Prefix(r) \in DOMAIN table

AddRoute ==
    /\ \E r \in Routes : /\ Prefix(r) \notin DOMAIN table
                         /\ add_route(r.prefix, r.len, r.hop, r.num)
    /\ UNCHANGED <<node, turn, sent, got>>

send_to(h, destination, ttl) ==
    /\ Constructed
    /\ Cardinality(sent) < MaxSend
    /\ LET dgram == [src |-> address[h], dst |-> destination, ttl |-> ttl,
                     payload |-> Cardinality(sent)]
       IN  /\ node' = [node EXCEPT ![h] = send_datagram(@, dgram, next_hop[h])]
           /\ sent' = sent \cup {dgram}
    /\ UNCHANGED <<bst, table, turn, got>>

(* interfaces are the router's; the others of node are left alone.          *)
route_one_datagram(interfaces, dgram) ==
    LET found == Lookup(bst, dgram.dst)
        hop == IF found.data = NoHop THEN dgram.dst ELSE found.data
    IN  IF dgram.ttl < 2 THEN interfaces
        ELSE [interfaces EXCEPT ![found.num_interface] =
                 send_datagram(@, [dgram EXCEPT !.ttl = dgram.ttl - 1], hop)]

(* Goes through the interfaces in order, and through the queue of each.     *)
route ==
    LET InOrder(n) == node[n - 1].datagrams_out
        all == FlattenSeq([n \in 1 .. Cardinality(Interface) |-> InOrder(n)])
        Emptied == [e \in End |-> IF e \in Interface
                                  THEN [node[e] EXCEPT !.datagrams_out = <<>>]
                                  ELSE node[e]]
    IN  FoldLeft(route_one_datagram, Emptied, all)

Route ==
    /\ Constructed
    /\ turn = 0
    /\ node' = route
    /\ turn' = IF Len(Link) = 0 THEN 0 ELSE 1
    /\ UNCHANGED <<bst, table, sent, got>>

(* What the others on a link had to send when the exchange began.           *)
FramesFor(e, link) ==
    LET Others(x) == x # e
        others == SelectSeq(link, Others)
    IN  FlattenSeq([n \in 1 .. Len(others) |-> node[others[n]].frames_out])

(* clear removes as many frames as were delivered: what receiving them made *)
(* the interface send stays for the next round.                             *)
Cleared_all(i, n) == [i EXCEPT !.frames_out = <<>>]                  \* mutant
Cleared(i, n) == [i EXCEPT !.frames_out = SubSeq(@, n + 1, Len(@))]

exchange_frames(link) ==
    [e \in End |->
        IF e \in Range(link)
        THEN Cleared(FoldLeft(Async_recv_frame, node[e], FramesFor(e, link)),
                     Len(node[e].frames_out))
        ELSE node[e]]

Exchange ==
    /\ turn > 0
    /\ node' = exchange_frames(Link[turn])
    /\ turn' = (turn + 1) % (Len(Link) + 1)
    /\ UNCHANGED <<bst, table, sent, got>>

(* A host takes what its interface received.                                *)
check(h) ==
    /\ node[h].datagrams_out # <<>>
    /\ got' = [got EXCEPT ![h] = @ \o node[h].datagrams_out]
    /\ node' = [node EXCEPT ![h].datagrams_out = <<>>]
    /\ UNCHANGED <<bst, table, turn, sent>>

Next ==
    \/ AddRoute \/ Route \/ Exchange
    \/ \E h \in Host : check(h)
    \/ \E h \in Sender, d \in Destination, ttl \in TTL : send_to(h, d, ttl)

(* simulate goes round its loop 256 times and then checks every host.       *)
FairSpec ==
    /\ Init /\ [][Next]_vars
    /\ WF_vars(AddRoute \/ Route \/ Exchange)
    /\ \A h \in Host : WF_vars(check(h))
-----------------------------------------------------------------------------
(* The host a datagram for an address should reach: the next hop of the     *)
(* longest route that matches it, on the link of that route's interface.    *)
Expected(ip) ==
    LET best == CHOOSE r \in Routes : /\ First(ip, r.len) = Prefix(r)
                                      /\ \A s \in Routes :
                                            First(ip, s.len) = Prefix(s) => s.len <= r.len
        hop == IF best.hop = NoHop THEN ip ELSE best.hop
    IN  {h \in Host : address[h] = hop /\ \E l \in Range(Link) : {h, best.num} \subseteq Range(l)}

Times(h, dgram) == Cardinality({n \in DOMAIN got[h] : got[h][n] = dgram})

(* What a host receives was sent, reaches the host the longest prefix names *)
(* and no other on the same link, only once, with its time to live one less *)
(* and never when that was spent: Host::check throws at nothing it finds.   *)
NothingUnexpected ==
    \A h \in Host : \A n \in DOMAIN got[h] :
        /\ \E dgram \in sent : /\ got[h][n] = [dgram EXCEPT !.ttl = @ - 1]
                               /\ dgram.ttl >= 2
                               /\ h \in Expected(dgram.dst)
        /\ Times(h, got[h][n]) = 1

(* Every datagram whose time to live is not spent is received where it is   *)
(* expected: Host::check misses none.                                       *)
EverythingRouted ==
    <>[] \A dgram \in sent : dgram.ttl >= 2 =>
            \A h \in Expected(dgram.dst) : Times(h, [dgram EXCEPT !.ttl = @ - 1]) = 1
=============================================================================
