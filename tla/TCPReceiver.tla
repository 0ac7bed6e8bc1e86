----------------------------- MODULE TCPReceiver -----------------------------
(***************************************************************************)
(* The receiving half of a connection (libsponge/tcp_receiver.cc): places  *)
(* a segment's payload in the stream, hands it to the reassembler and      *)
(* computes the acknowledgment number and the window to advertise.         *)
(***************************************************************************)
EXTENDS WrappingIntegers, StreamReassembler, TCPSegment

NewReceiver(capacity) ==
    [reassembler |-> NewReassembler(capacity), capacity |-> capacity,
     ckpt |-> 0, isn |-> 0, ack |-> 0, syn |-> FALSE, eof |-> FALSE,
     len_stream |-> U64 - 1]

stream_out(v) == v.reassembler.output

StartPayload(v, isn, seg) ==
    LET abs == unwrap(seg.seqno, isn, v.ckpt)
    IN  IF seg.syn THEN abs ELSE Sub64(abs, 1)

(* The next absolute sequence number expected, after the SYN, ckpt bytes   *)
(* and, once all of the stream has been written, the FIN.                  *)
NextExpected_ahead(ckpt, len_stream) == ckpt + 2                 \* mutant
NextExpected(ckpt, len_stream) == ckpt + (IF ckpt = len_stream THEN 2 ELSE 1)

(* _eof stays set from the first FIN on, so every later payload is pushed  *)
(* as if it ended the stream.                                              *)
TCPReceiver_segment_received(v, seg) ==
    LET isn        == IF seg.syn THEN seg.seqno ELSE v.isn
        start      == StartPayload(v, isn, seg)
        len_stream == IF seg.fin THEN Add64(start, Len(seg.payload))
                      ELSE v.len_stream
        eof_flag   == v.eof \/ seg.fin
        pushed     == push_substring(v.reassembler, seg.payload, start, eof_flag)
        ckpt       == pushed.output.bytes_wrote
    IN  IF ~v.syn /\ ~seg.syn
        THEN v
        ELSE [v EXCEPT
                !.syn = TRUE, !.isn = isn, !.eof = eof_flag,
                !.len_stream = len_stream, !.ckpt = ckpt,
                !.ack = wrap(NextExpected(ckpt, len_stream), isn),
                !.reassembler = IF ckpt = len_stream
                                THEN [pushed EXCEPT !.output = end_input(@)]
                                ELSE pushed]

HasAckno(v)    == v.syn     \* ackno().has_value()
ackno(v)       == v.ack
window_size_full(v) == v.capacity                                \* mutant
window_size(v) == v.capacity - buffer_size(stream_out(v))
=============================================================================
