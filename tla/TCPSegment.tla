----------------------------- MODULE TCPSegment -----------------------------
(***************************************************************************)
(* The segment that a TCPSender, a TCPConnection and a TCPReceiver pass    *)
(* around (tcp_helpers/tcp_segment.cc, tcp_header.hh): the header fields    *)
(* they read and the payload, a sequence of bytes.                         *)
(***************************************************************************)
EXTENDS Integers, Sequences

(* TCPSegment{} with the fields a TCPSender sets; the acknowledgment half  *)
(* is filled in by TCPConnection::send_segments.                           *)
NewSegment(seqno, syn, fin, payload) ==
    [seqno |-> seqno, syn |-> syn, fin |-> fin, payload |-> payload,
     ack |-> FALSE, ackno |-> 0, win |-> 0, rst |-> FALSE]

One(flag) == IF flag THEN 1 ELSE 0

length_in_sequence_space_noFin(seg) == Len(seg.payload) + One(seg.syn)   \* mutant
length_in_sequence_space(seg) == Len(seg.payload) + One(seg.syn) + One(seg.fin)
=============================================================================
