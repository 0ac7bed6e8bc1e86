-------------------------------- MODULE Codec --------------------------------
(***************************************************************************)
(* What goes over the wire, byte by byte: the parser and unparser of       *)
(* integers (util/parser.cc), the Internet checksum (util/util.cc) and the *)
(* headers of Ethernet, ARP, IPv4 and TCP (tcp_helpers/).                  *)
(*                                                                         *)
(* A buffer, whether Buffer, BufferList or string, is a sequence of bytes. *)
(* The headers are tables of fields.  A field of one or two bytes is a     *)
(* number; a longer one (an address, a sequence number) is only compared   *)
(* and stays a sequence of bytes.                                          *)
(***************************************************************************)
EXTENDS Integers, Sequences, TLC

NetParser(buffer) == [buffer |-> buffer, error |-> "NoError"]

Drop(bytes, n) == SubSeq(bytes, n + 1, Len(bytes))

_check_size(p, n) == IF n > Len(p.buffer) THEN [p EXCEPT !.error = "PacketTooShort"] ELSE p

remove_prefix(p, n) ==
    LET q == _check_size(p, n)
    IN  IF q.error # "NoError" THEN q ELSE [q EXCEPT !.buffer = Drop(@, n)]

Number(bytes) ==
    CASE Len(bytes) = 1 -> bytes[1]
      [] Len(bytes) = 2 -> 256 * bytes[1] + bytes[2]
      [] OTHER -> bytes

Zeros(n) == [k \in 1 .. n |-> 0]

(* The value read is 0 once there has been an error.                        *)
_parse_int(p, n) ==
    Number(IF _check_size(p, n).error # "NoError" THEN Zeros(n) ELSE SubSeq(p.buffer, 1, n))

_unparse_int(value, width, k) ==
    CASE width = 1 -> value
      [] width = 2 -> IF k = 1 THEN value \div 256 ELSE value % 256
      [] OTHER -> value[k]

(* A header is a table of fields, each with its offset and width.  Reading  *)
(* the fields one after the other gives 0 from the first one on that the    *)
(* buffer does not hold.                                                    *)
Value(p, field) == _parse_int(remove_prefix(p, field[1]), field[2])

Fields(p, table) == [x \in DOMAIN table |-> Value(p, table[x])]

Written(h, table, length) ==
    [k \in 1 .. length |->
        LET x == CHOOSE x \in DOMAIN table : k - table[x][1] \in 1 .. table[x][2]
        IN  _unparse_int(h[x], table[x][2], k - table[x][1])]

Resized(bytes, n) == IF n <= Len(bytes) THEN SubSeq(bytes, 1, n)
                     ELSE bytes \o Zeros(n - Len(bytes))
-----------------------------------------------------------------------------
(* InternetChecksum: bytes at odd places count 256 times.  The loop of      *)
(* value folds the carries back until 16 bits are left, which is the sum    *)
(* modulo 65535, with 65535 for a sum that is a multiple of it and not 0.   *)
Sum(initial, bytes) ==
    LET sum[k \in 0 .. Len(bytes)] ==
            IF k = 0 THEN initial
            ELSE sum[k - 1] + (IF k % 2 = 1 THEN 256 * bytes[k] ELSE bytes[k])
    IN  sum[Len(bytes)]

InternetChecksum(initial, bytes) ==
    LET sum == Sum(initial, bytes)
    IN  65535 - (IF sum = 0 THEN 0 ELSE ((sum - 1) % 65535) + 1)
-----------------------------------------------------------------------------
IPv4Fields == [first |-> <<0, 1>>, tos |-> <<1, 1>>, len |-> <<2, 2>>, id |-> <<4, 2>>,
               fo |-> <<6, 2>>, ttl |-> <<8, 1>>, proto |-> <<9, 1>>, cksum |-> <<10, 2>>,
               src |-> <<12, 4>>, dst |-> <<16, 4>>]
IPv4_LENGTH == 20
PROTO_TCP == 6

IPv4Header ==
    [ver |-> 4, hlen |-> 5, tos |-> 0, len |-> 0, id |-> 0, fo |-> 16384, ttl |-> 128,
     proto |-> PROTO_TCP, cksum |-> 0, src |-> Zeros(4), dst |-> Zeros(4)]

(* The fields are set also when the result is an error; what the parser     *)
(* has not gone past is left in its buffer.                                 *)
IPv4Header_parse(p) ==
    LET f == Fields(p, IPv4Fields)
        h == [x \in DOMAIN IPv4Header |->
                CASE x = "ver" -> f.first \div 16
                  [] x = "hlen" -> f.first % 16
                  [] x = "fo" -> f.fo % 32768
                  [] OTHER -> f[x]]
        data_size == Len(p.buffer)
        read == remove_prefix(p, IPv4_LENGTH)
        past == remove_prefix(read, h.hlen * 4 - IPv4_LENGTH)
        Result(q, result) == [p |-> q, header |-> h, result |-> result]
    IN  IF data_size < IPv4_LENGTH
        THEN [p |-> p, header |-> IPv4Header, result |-> "PacketTooShort"]
        ELSE IF data_size < 4 * h.hlen THEN Result(read, "PacketTooShort")
        ELSE IF h.ver # 4 THEN Result(read, "WrongIPVersion")
        ELSE IF h.hlen < 5 THEN Result(read, "HeaderTooShort")
        ELSE IF data_size # h.len THEN Result(read, "TruncatedPacket")
        ELSE IF past.error # "NoError" THEN Result(past, past.error)
        ELSE IF InternetChecksum(0, SubSeq(p.buffer, 1, 4 * h.hlen)) # 0
        THEN Result(past, "BadChecksum")
        ELSE Result(past, "NoError")

IPv4Header_serialize(h) ==
    Resized(Written(("first" :> 16 * h.ver + h.hlen) @@ h, IPv4Fields, IPv4_LENGTH), 4 * h.hlen)

payload_length(h) == (h.len - 4 * h.hlen) % 65536

pseudo_cksum_lengthOnly(h) == h.proto + payload_length(h)             \* mutant
pseudo_cksum(h) == Sum(0, h.src \o h.dst) + h.proto + payload_length(h)

(* The result of parsing the header is not looked at, only the parser's     *)
(* own error and the length.                                                *)
IPv4Datagram_parse(buffer) ==
    LET r == IPv4Header_parse(NetParser(buffer))
    IN  [header |-> r.header, payload |-> r.p.buffer,
         result |-> IF Len(r.p.buffer) # payload_length(r.header) THEN "PacketTooShort"
                    ELSE r.p.error]

IPv4Datagram_serialize(header, payload) ==
    LET zero == [header EXCEPT !.cksum = 0]
        check == InternetChecksum(0, IPv4Header_serialize(zero))
    IN  IPv4Header_serialize([header EXCEPT !.cksum = check]) \o payload
-----------------------------------------------------------------------------
TCPFields == [sport |-> <<0, 2>>, dport |-> <<2, 2>>, seqno |-> <<4, 4>>, ackno |-> <<8, 4>>,
              doff |-> <<12, 1>>, flags |-> <<13, 1>>, win |-> <<14, 2>>, cksum |-> <<16, 2>>,
              uptr |-> <<18, 2>>]
TCP_LENGTH == 20

TCPHeader ==
    [sport |-> 0, dport |-> 0, seqno |-> Zeros(4), ackno |-> Zeros(4), doff |-> 5,
     flags |-> 0, win |-> 0, cksum |-> 0, uptr |-> 0]

(* The six flags of the header, from the highest bit: urg ack psh rst syn   *)
(* fin.                                                                     *)
ACK == 16
RST == 4
SYN == 2
FIN == 1
Flag(header, bit) == (header.flags \div bit) % 2 = 1

TCPHeader_parse(p) ==
    LET h == [Fields(p, TCPFields) EXCEPT !.doff = @ \div 16, !.flags = @ % 64]
        read == remove_prefix(p, TCP_LENGTH)
    IN  [header |-> h,
         p |-> IF h.doff < 5 THEN read ELSE remove_prefix(read, h.doff * 4 - TCP_LENGTH)]

TCPHeader_serialize(h) ==
    Resized(Written([h EXCEPT !.doff = @ * 16], TCPFields, TCP_LENGTH), 4 * h.doff)

(* Here too the result of parsing the header is not looked at.              *)
TCPSegment_parse_unchecked(buffer, datagram_layer_checksum) ==       \* mutant
    LET r == TCPHeader_parse(NetParser(buffer))
    IN  [header |-> r.header, payload |-> r.p.buffer, result |-> r.p.error]
TCPSegment_parse(buffer, datagram_layer_checksum) ==
    LET r == TCPHeader_parse(NetParser(buffer))
    IN  [header |-> r.header, payload |-> r.p.buffer,
         result |-> IF InternetChecksum(datagram_layer_checksum, buffer) # 0 THEN "BadChecksum"
                    ELSE r.p.error]

TCPSegment_serialize(header, payload, datagram_layer_checksum) ==
    LET zero == TCPHeader_serialize([header EXCEPT !.cksum = 0])
        check == InternetChecksum(datagram_layer_checksum, zero \o payload)
    IN  TCPHeader_serialize([header EXCEPT !.cksum = check]) \o payload
-----------------------------------------------------------------------------
EthernetFields == [dst |-> <<0, 6>>, src |-> <<6, 6>>, type |-> <<12, 2>>]
Ethernet_LENGTH == 14
TYPE_IPv4 == 2048
TYPE_ARP == 2054

EthernetHeader == [dst |-> Zeros(6), src |-> Zeros(6), type |-> 0]

(* A frame too short for the header keeps the header it was constructed     *)
(* with, and parses without an error.                                       *)
EthernetFrame_parse(buffer) ==
    IF Len(buffer) < Ethernet_LENGTH
    THEN [header |-> EthernetHeader, payload |-> buffer, result |-> "NoError"]
    ELSE [header |-> Fields(NetParser(buffer), EthernetFields),
          payload |-> Drop(buffer, Ethernet_LENGTH), result |-> "NoError"]

EthernetFrame_serialize(header, payload) ==
    Written(header, EthernetFields, Ethernet_LENGTH) \o payload

ARPFields == [hardware_type |-> <<0, 2>>, protocol_type |-> <<2, 2>>,
              hardware_address_size |-> <<4, 1>>, protocol_address_size |-> <<5, 1>>,
              opcode |-> <<6, 2>>, sender_ethernet_address |-> <<8, 6>>,
              sender_ip_address |-> <<14, 4>>, target_ethernet_address |-> <<18, 6>>,
              target_ip_address |-> <<24, 4>>]
ARP_LENGTH == 28
OPCODE_REQUEST == 1
OPCODE_REPLY == 2

supported(msg) ==
    /\ msg.hardware_type = 1 /\ msg.protocol_type = TYPE_IPv4
    /\ msg.hardware_address_size = 6 /\ msg.protocol_address_size = 4
    /\ msg.opcode \in {OPCODE_REQUEST, OPCODE_REPLY}

(* What follows the message, such as padding, is ignored.                   *)
ARPMessage_parse_anyKind(buffer) ==                                   \* mutant
    [msg |-> Fields(NetParser(buffer), ARPFields),
     result |-> IF Len(buffer) < ARP_LENGTH THEN "PacketTooShort" ELSE "NoError"]
ARPMessage_parse(buffer) ==
    LET msg == Fields(NetParser(buffer), ARPFields)
    IN  [msg |-> msg, result |-> IF Len(buffer) < ARP_LENGTH THEN "PacketTooShort"
                                 ELSE IF ~supported(msg) THEN "Unsupported"
                                 ELSE "NoError"]

ARPMessage_serialize(msg) == Written(msg, ARPFields, ARP_LENGTH)
=============================================================================
