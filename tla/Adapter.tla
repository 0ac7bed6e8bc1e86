------------------------------- MODULE Adapter -------------------------------
(***************************************************************************)
(* The adapters between a TCP connection and the network: TCP in UDP       *)
(* datagrams (fd_adapter.cc), TCP in IPv4 datagrams on a TUN device, and   *)
(* TCP in IPv4 in Ethernet frames on a TAP device (tcp_over_ip.cc,         *)
(* tuntap_adapter.cc).                                                     *)
(*                                                                         *)
(* An adapter a has its Ethernet address, the source and destination of    *)
(* its FdAdapterConfig (an address is an IP address and a port) and the    *)
(* listening flag.  Reading gives the adapter after the call and what the  *)
(* caller gets, Nothing for an empty optional.                             *)
(***************************************************************************)
EXTENDS Codec

Nothing == [kind |-> "nothing"]

Segment(header, payload) ==
    [kind |-> "segment", header |-> [header EXCEPT !.cksum = 0], payload |-> payload]

Outcome(a, got) == [a |-> a, got |-> got]

OpensConnection(header) == Flag(header, SYN) /\ ~Flag(header, RST)

(* The port numbers that both kinds of write put into the segment.          *)
WithPorts_forgotten(a, seg) == seg.header                             \* mutant
WithPorts(a, seg) ==
    [seg.header EXCEPT !.sport = a.source.port, !.dport = a.destination.port]
-----------------------------------------------------------------------------
(* TCPOverUDPSocketAdapter.  The source of a datagram comes from the socket *)
(* and the checksum covers the segment alone.                               *)
udp_read(a, from, bytes) ==
    LET seg == TCPSegment_parse(bytes, 0)
        got == Segment(seg.header, seg.payload)
    IN  IF \/ ~a.listening /\ from # a.destination
           \/ seg.result # "NoError"
        THEN Outcome(a, Nothing)
        ELSE IF ~a.listening THEN Outcome(a, got)
        ELSE IF ~OpensConnection(seg.header) THEN Outcome(a, Nothing)
        ELSE Outcome([a EXCEPT !.destination = from, !.listening = FALSE], got)

udp_write(a, seg) == TCPSegment_serialize(WithPorts(a, seg), seg.payload, 0)
-----------------------------------------------------------------------------
(* TCPOverIPv4Adapter: dgram is what IPv4Datagram_parse returned.           *)
Bound(a, dgram, header) ==
    [a EXCEPT !.source.ip = dgram.header.dst,
              !.destination = [ip |-> dgram.header.src, port |-> header.sport],
              !.listening = FALSE]

FromPeer_any(a, header) == TRUE                                       \* mutant
FromPeer(a, header) == header.src = a.destination.ip

unwrap_tcp_in_ip(a, dgram) ==
    LET seg == TCPSegment_parse(dgram.payload, pseudo_cksum(dgram.header))
        b == IF a.listening THEN Bound(a, dgram, seg.header) ELSE a
    IN  IF \/ ~a.listening /\ dgram.header.dst # a.source.ip
           \/ ~a.listening /\ ~FromPeer(a, dgram.header)
           \/ dgram.header.proto # PROTO_TCP
           \/ seg.result # "NoError"
           \/ seg.header.dport # a.source.port
           \/ a.listening /\ ~OpensConnection(seg.header)
        THEN Outcome(a, Nothing)
        ELSE Outcome(b, IF seg.header.sport # b.destination.port THEN Nothing
                        ELSE Segment(seg.header, seg.payload))

wrap_tcp_in_ip(a, seg) ==
    LET header == [IPv4Header EXCEPT !.src = a.source.ip, !.dst = a.destination.ip,
                       !.len = @ + 4 * IPv4Header.hlen + 4 * seg.header.doff + Len(seg.payload)]
    IN  [header |-> header,
         payload |-> TCPSegment_serialize(WithPorts(a, seg), seg.payload, pseudo_cksum(header))]

tun_read(a, bytes) ==
    LET dgram == IPv4Datagram_parse(bytes)
    IN  IF dgram.result # "NoError" THEN Outcome(a, Nothing) ELSE unwrap_tcp_in_ip(a, dgram)

tun_write(a, seg) ==
    LET dgram == wrap_tcp_in_ip(a, seg) IN IPv4Datagram_serialize(dgram.header, dgram.payload)
-----------------------------------------------------------------------------
(* What recv_frame of the network interface makes of a frame, whatever it   *)
(* then does with an ARP message (module NetworkInterface): every frame     *)
(* that is not an IPv4 datagram for us is tried as an ARP message.          *)
recv_frame(a, frame) ==
    LET dgram == IPv4Datagram_parse(frame.payload)
        arp == ARPMessage_parse(frame.payload)
    IN  IF frame.header.type = TYPE_IPv4 /\ frame.header.dst = a.eth
        THEN IF dgram.result # "NoError" THEN Outcome(a, Nothing) ELSE unwrap_tcp_in_ip(a, dgram)
        ELSE IF arp.result # "NoError" THEN Outcome(a, Nothing)
        ELSE Outcome(a, [kind |-> "arp", msg |-> arp.msg])

tap_read(a, bytes) ==
    LET frame == EthernetFrame_parse(bytes)
    IN  IF frame.result # "NoError" THEN Outcome(a, Nothing) ELSE recv_frame(a, frame)

Frame(src, dst, type, payload) ==
    EthernetFrame_serialize([dst |-> dst, src |-> src, type |-> type], payload)

(* The frame of send_datagram once the next hop's Ethernet address is       *)
(* known, and the ones of send_arp.                                         *)
tap_write(a, seg, next_hop) == Frame(a.eth, next_hop, TYPE_IPv4, tun_write(a, seg))

ETHERNET_BROADCAST == [k \in 1 .. 6 |-> 255]

ARPMessage(a, opcode, target_ip, target_eth) ==
    [hardware_type |-> 1, protocol_type |-> TYPE_IPv4, hardware_address_size |-> 6,
     protocol_address_size |-> 4, opcode |-> opcode,
     sender_ethernet_address |-> a.eth, sender_ip_address |-> a.source.ip,
     target_ethernet_address |-> target_eth, target_ip_address |-> target_ip]

send_arp(a, msg) ==
    Frame(a.eth, IF msg.opcode = OPCODE_REPLY THEN msg.target_ethernet_address
                 ELSE ETHERNET_BROADCAST,
          TYPE_ARP, ARPMessage_serialize(msg))
=============================================================================
