--------------------------- MODULE NetworkInterface ---------------------------
(***************************************************************************)
(* The network interface (libsponge/network_interface.cc): it sends        *)
(* Internet datagrams in Ethernet frames, learns Ethernet addresses by ARP *)
(* and forgets them after a while.                                         *)
(*                                                                         *)
(* _time occurs only in its difference from the recorded timestamps, so    *)
(* each timestamp is kept as its age.  The age of an ARP request is only   *)
(* compared with ARP_WAIT and is kept up to that value.                    *)
(***************************************************************************)
EXTENDS Naturals, Sequences

CONSTANTS IP,           \* the Internet addresses of the interfaces
          Ethernet,     \* their Ethernet addresses
          None,         \* no entry in a map
          BROADCAST,    \* ETHERNET_BROADCAST
          ARP_WAIT,     \* milliseconds before a request is repeated: 5000 in the code
          MAPPING_TTL   \* milliseconds a mapping is kept: 30000 in the code

ASSUME InterfaceAssumption ==
    /\ None \notin Ethernet \cup Nat
    /\ BROADCAST \notin Ethernet
    /\ ARP_WAIT \in Nat \ {0} /\ MAPPING_TTL \in Nat

(* ip2eth, ip2dgrams and timestamps_arp are maps from Internet addresses;   *)
(* an address that is not in the map is mapped to None, or to no datagrams. *)
NetworkInterface(ethernet_address, ip_address) ==
    [eth |-> ethernet_address, ip |-> ip_address,
     ip2eth |-> [a \in IP |-> None],
     ip2dgrams |-> [a \in IP |-> <<>>],
     timestamps_arp |-> [a \in IP |-> None],
     timestamps_pair |-> <<>>,
     frames_out |-> <<>>]

(* A datagram in a frame to an Ethernet address.                            *)
IPv4Frame(i, dgram, dst) ==
    [src |-> i.eth, dst |-> dst, type |-> "IPv4", payload |-> dgram]

send_arp(i, opcode, target_ip, target_eth) ==
    [i EXCEPT !.frames_out = Append(@,
        [src |-> i.eth,
         dst |-> IF opcode = "REPLY" THEN target_eth ELSE BROADCAST,
         type |-> "ARP",
         payload |-> [opcode |-> opcode,
                      sender_ip |-> i.ip, sender_eth |-> i.eth,
                      target_ip |-> target_ip, target_eth |-> target_eth]])]

(* An ARP request for the address was sent less than ARP_WAIT ago.          *)
Waiting_forever(i, ip) == i.timestamps_arp[ip] # None             \* mutant
Waiting(i, ip) ==
    i.timestamps_arp[ip] # None /\ i.timestamps_arp[ip] < ARP_WAIT

Enqueue(i, dgram, ip) == [i EXCEPT !.ip2dgrams[ip] = Append(@, dgram)]

Request(i, ip) ==
    IF Waiting(i, ip) THEN i
    ELSE send_arp([i EXCEPT !.timestamps_arp[ip] = 0], "REQUEST", ip, None)

send_datagram(i, dgram, next_hop) ==
    IF i.ip2eth[next_hop] # None
    THEN [i EXCEPT !.frames_out = Append(@, IPv4Frame(i, dgram, i.ip2eth[next_hop]))]
    ELSE Request(Enqueue(i, dgram, next_hop), next_hop)

(* A frame that carries a datagram for this interface.                      *)
Datagram_anyDestination(i, frame) == frame.type = "IPv4"            \* mutant
Datagram(i, frame) == frame.type = "IPv4" /\ frame.dst = i.eth

(* The steps of recv_frame for an ARP message, in the order of the code.    *)
Learn_twice(i, msg) ==                                              \* mutant
    [i EXCEPT !.ip2eth[msg.sender_ip] = msg.sender_eth,
              !.timestamps_pair = Append(@,
                    [ip |-> msg.sender_ip, eth |-> msg.sender_eth, age |-> 0])]
Learn(i, msg) ==
    IF i.ip2eth[msg.sender_ip] = None
    THEN [i EXCEPT !.ip2eth[msg.sender_ip] = msg.sender_eth,
                   !.timestamps_pair = Append(@,
                        [ip |-> msg.sender_ip, eth |-> msg.sender_eth, age |-> 0])]
    ELSE i

Flush_requestKept(i, ip) ==                                         \* mutant
    [i EXCEPT !.frames_out = @ \o [k \in 1 .. Len(i.ip2dgrams[ip]) |->
                                    IPv4Frame(i, i.ip2dgrams[ip][k], i.ip2eth[ip])]]
Flush(i, ip) ==
    IF i.timestamps_arp[ip] # None
    THEN [i EXCEPT !.timestamps_arp[ip] = None,
                   !.ip2dgrams[ip] = <<>>,
                   !.frames_out = @ \o
                        [k \in 1 .. Len(i.ip2dgrams[ip]) |->
                            IPv4Frame(i, i.ip2dgrams[ip][k], i.ip2eth[ip])]]
    ELSE i

Reply(i, msg) ==
    IF msg.opcode = "REQUEST" /\ msg.target_ip = i.ip
    THEN send_arp(i, "REPLY", msg.sender_ip, msg.sender_eth)
    ELSE i

(* Whatever is not a datagram for us is parsed as an ARP message, which     *)
(* only succeeds for an ARP message, whoever it is addressed to.            *)
recv_frame(i, frame) ==
    IF ~Datagram(i, frame) /\ frame.type = "ARP"
    THEN Reply(Flush(Learn(i, frame.payload), frame.payload.sender_ip), frame.payload)
    ELSE i

Aged(i, ms) ==
    [i EXCEPT !.timestamps_pair = [k \in 1 .. Len(@) |->
                  [i.timestamps_pair[k] EXCEPT !.age = i.timestamps_pair[k].age + ms]],
              !.timestamps_arp = [a \in IP |->
                  IF @[a] = None THEN None
                  ELSE IF @[a] + ms > ARP_WAIT THEN ARP_WAIT ELSE @[a] + ms]]

(* The loop of tick stops at the first mapping that is young enough.        *)
Expired(pairs) ==
    CHOOSE n \in 0 .. Len(pairs) :
        /\ \A k \in 1 .. n : pairs[k].age > MAPPING_TTL
        /\ n < Len(pairs) => pairs[n + 1].age <= MAPPING_TTL

Forget_pairsOnly(i, n) ==                                           \* mutant
    [i EXCEPT !.timestamps_pair = SubSeq(@, n + 1, Len(@))]
Forget(i, n) ==
    [i EXCEPT !.ip2eth = [a \in IP |->
                  IF \E k \in 1 .. n : i.timestamps_pair[k].ip = a THEN None ELSE @[a]],
              !.timestamps_pair = SubSeq(@, n + 1, Len(@))]

NetworkInterface_tick(i, ms) ==
    Forget(Aged(i, ms), Expired(Aged(i, ms).timestamps_pair))
-----------------------------------------------------------------------------
(* The four maps of an interface agree: timestamps_pair names each known    *)
(* address once, oldest first and none past its time; datagrams are queued  *)
(* exactly for the addresses with a request outstanding; and none of these  *)
(* is known.                                                                *)
PairsCoherent(i) ==
    LET pairs == i.timestamps_pair
    IN  /\ \A a \in IP : i.ip2eth[a] # None <=> \E k \in DOMAIN pairs : pairs[k].ip = a
        /\ \A j, k \in DOMAIN pairs : j < k =>
                pairs[j].ip # pairs[k].ip /\ pairs[j].age >= pairs[k].age
        /\ \A k \in DOMAIN pairs : pairs[k].eth = i.ip2eth[pairs[k].ip]

Young(i) == \A k \in DOMAIN i.timestamps_pair : i.timestamps_pair[k].age <= MAPPING_TTL

QueueCoherent(i) ==
    \A a \in IP : /\ i.timestamps_arp[a] # None <=> i.ip2dgrams[a] # <<>>
                  /\ i.timestamps_arp[a] # None => i.ip2eth[a] = None

Coherent(i) == PairsCoherent(i) /\ Young(i) /\ QueueCoherent(i)
=============================================================================
