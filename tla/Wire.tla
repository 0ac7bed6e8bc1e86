-------------------------------- MODULE Wire --------------------------------
(***************************************************************************)
(* Hosts that talk TCP through their adapters over a medium that loses,    *)
(* damages, cuts and pads what it carries.  One host, the Server, listens; *)
(* the others know the server's address, as after TCPSpongeSocket's        *)
(* connect, and all of them may talk at once.                              *)
(*                                                                         *)
(* A UDP datagram reaches the host it is addressed to.  On a TUN or TAP    *)
(* device every host may be shown every datagram: telling its own from the *)
(* others is the adapter's work.                                           *)
(***************************************************************************)
EXTENDS Adapter

CONSTANTS
    Stacks,      \* the stacks to try: a subset of "udp", "tun", "tap"
    Hosts,
    Server,      \* the host that listens
    AddressOf,   \* host -> its IP address and port
    EthOf,       \* host -> its Ethernet address
    Segments,    \* the segments TCP hands to an adapter
    Flips,       \* what a damaged byte may change by
    Cuts         \* how many bytes a datagram may lose, or gain as padding

ASSUME WireAssumption ==
    /\ Stacks \subseteq {"udp", "tun", "tap"}
    /\ Server \in Hosts
    /\ \A g, h \in Hosts : g # h => AddressOf[g] # AddressOf[h] /\ EthOf[g] # EthOf[h]
    /\ Flips \subseteq 1 .. 255

VARIABLES
    stack,
    adapter,     \* host -> its adapter
    wire,        \* the datagram under way, or Nothing
    last         \* the last call of read: who read, what was sent, what came of it
vars == <<stack, adapter, wire, last>>

NoRead == [by |-> "nobody"]

(* set_listening and config_mut, as connect and listen_and_accept call them *)
NewAdapter(h) ==
    [eth |-> EthOf[h], listening |-> h = Server,
     source |-> IF h = Server THEN [ip |-> Zeros(4), port |-> AddressOf[h].port] ELSE AddressOf[h],
     destination |-> IF h = Server THEN [ip |-> Zeros(4), port |-> 0] ELSE AddressOf[Server]]

Init ==
    /\ stack \in Stacks
    /\ adapter = [h \in Hosts |-> NewAdapter(h)]
    /\ wire = Nothing
    /\ last = NoRead

PeerOf(h) == CHOOSE g \in Hosts : AddressOf[g] = adapter[h].destination

Put(h, to, sent, bytes) ==
    wire' = [kind |-> "datagram", from |-> h, to |-> to, sent |-> sent, bytes |-> bytes,
             state |-> "intact"]

(* A server writes only once TCP has seen a segment, that is when bound.    *)
write(h, seg) ==
    /\ wire = Nothing
    /\ ~adapter[h].listening
    /\ Put(h, PeerOf(h), Segment(WithPorts(adapter[h], seg), seg.payload),
           CASE stack = "udp" -> udp_write(adapter[h], seg)
             [] stack = "tun" -> tun_write(adapter[h], seg)
             [] stack = "tap" -> tap_write(adapter[h], seg, EthOf[PeerOf(h)]))
    /\ last' = NoRead
    /\ UNCHANGED <<stack, adapter>>

(* The interface of a TAP adapter asks for an Ethernet address.             *)
ask(h, ip) ==
    /\ wire = Nothing
    /\ stack = "tap"
    /\ LET msg == ARPMessage(adapter[h], OPCODE_REQUEST, ip, Zeros(6))
       IN  Put(h, "everyone", [kind |-> "arp", msg |-> msg], send_arp(adapter[h], msg))
    /\ last' = NoRead
    /\ UNCHANGED <<stack, adapter>>

Medium(state, bytes) ==
    /\ wire # Nothing /\ wire.state = "intact"
    /\ wire' = [wire EXCEPT !.state = state, !.bytes = bytes]
    /\ UNCHANGED <<stack, adapter, last>>

Damage == wire # Nothing /\ \E k \in DOMAIN wire.bytes, d \in Flips :
              Medium("damaged", [wire.bytes EXCEPT ![k] = (@ + d) % 256])

(* A UDP socket receives what was sent, whole.                              *)
Cut == wire # Nothing /\ stack # "udp" /\ \E n \in Cuts :
           Medium("cut", SubSeq(wire.bytes, 1, Len(wire.bytes) - n))

Pad == wire # Nothing /\ stack # "udp" /\ \E n \in Cuts :
           Medium("padded", wire.bytes \o Zeros(n))

Lose == wire # Nothing /\ wire' = Nothing /\ UNCHANGED <<stack, adapter, last>>

Read(a, w) ==
    CASE stack = "udp" -> udp_read(a, AddressOf[w.from], w.bytes)
      [] stack = "tun" -> tun_read(a, w.bytes)
      [] stack = "tap" -> tap_read(a, w.bytes)

(* LossyFdAdapter: what is dropped has already been read by the adapter     *)
(* underneath.                                                              *)
LossyRead(a, w, drop) ==
    LET r == Read(a, w) IN IF drop THEN Outcome(r.a, Nothing) ELSE r

(* Is h to be given the segment, had the medium not touched it?             *)
Due(h, w) ==
    /\ w.sent.kind = "segment"
    /\ w.to = h
    /\ IF adapter[h].listening THEN OpensConnection(w.sent.header) ELSE PeerOf(h) = w.from

read(h) ==
    /\ wire # Nothing /\ wire.from # h
    /\ stack = "udp" => wire.to = h
    /\ \E drop \in BOOLEAN : \E r \in {LossyRead(adapter[h], wire, drop)} :
         /\ adapter' = [adapter EXCEPT ![h] = r.a]
         /\ last' = [by |-> h, from |-> wire.from, sent |-> wire.sent, state |-> wire.state,
                     dropped |-> drop, due |-> Due(h, wire), got |-> r.got]
    /\ wire' = Nothing
    /\ UNCHANGED stack

Next ==
    \/ \E h \in Hosts, seg \in Segments : write(h, seg)
    \/ \E h \in Hosts, g \in Hosts : ask(h, AddressOf[g].ip)
    \/ Damage \/ Cut \/ Pad \/ Lose
    \/ \E h \in Hosts : read(h)

Spec == Init /\ [][Next]_vars
-----------------------------------------------------------------------------
(* A segment that an adapter hands to TCP is, field for field and byte for  *)
(* byte, one that was written, although the medium may have changed any one *)
(* byte, cut the end off or padded it.  IPv4Datagram::parse ignores what    *)
(* IPv4Header::parse returns, so a bad header checksum or version passes:   *)
(* it is the length and TCP's checksum that must catch the rest.            *)
IntactOrNothing ==
    last # NoRead /\ last.got.kind = "segment" => last.got = last.sent

(* A segment for which the reader is the addressee, from its peer or        *)
(* opening the connection it listens for, is handed over when the medium    *)
(* left it alone: serialising and parsing are inverse in every stack, and   *)
(* no filter of the adapters is too strict.                                 *)
DueIsDelivered ==
    last # NoRead /\ last.due /\ last.state = "intact" /\ ~last.dropped => last.got = last.sent

(* What TCP is given comes from the one peer the adapter is bound to, and   *)
(* was meant for this host: a second host that talks to the same server,    *)
(* from the same port or from the same address, is not mixed in.            *)
OnlyFromThePeer ==
    last # NoRead /\ last.got.kind = "segment" =>
        /\ ~adapter[last.by].listening
        /\ adapter[last.by].destination = AddressOf[last.from]
        /\ adapter[last.from].destination = AddressOf[last.by]

(* A listener is bound to a host that exists, at the address it was         *)
(* contacted at, even when the damage was in the addresses of the SYN.      *)
BoundToAHost ==
    /\ adapter[Server].listening \/ \E h \in Hosts \ {Server} :
                                       adapter[Server].destination = AddressOf[h]
    /\ stack # "udp" /\ ~adapter[Server].listening => adapter[Server].source = AddressOf[Server]

(* A frame that carried a datagram, damaged or shown to the wrong host, is  *)
(* never taken for an ARP message, though recv_frame tries every frame that *)
(* is not an IPv4 datagram for its own address as one; an ARP message that  *)
(* the medium left alone or padded is understood.                           *)
FramesToldApart ==
    last # NoRead /\ stack = "tap" =>
        /\ last.got.kind = "arp" => last.sent.kind = "arp"
        /\ last.sent.kind = "arp" /\ last.state \in {"intact", "padded"} /\ ~last.dropped
             => last.got = last.sent
=============================================================================
