---------------------------- MODULE TCPConnection ----------------------------
(***************************************************************************)
(* One endpoint (libsponge/tcp_connection.cc): a TCPSender, a TCPReceiver  *)
(* and the rules that tie them together.  _time and                        *)
(* _time_last_segment_received occur only in their difference, idle, which *)
(* is only compared with the linger time and is kept up to that value.     *)
(***************************************************************************)
EXTENDS TCPSender, TCPReceiver

CONSTANTS MAX_RETX_ATTEMPTS,  \* TCPConfig::MAX_RETX_ATTEMPTS: 8 in the code
          LINGER,             \* 10 * _cfg.rt_timeout
          MAX_WINDOW          \* numeric_limits<uint16_t>::max()

ASSUME ConnectionAssumption ==
    /\ MAX_RETX_ATTEMPTS \in Nat /\ LINGER \in Nat /\ MAX_WINDOW \in Nat

NewConnection(send_capacity, recv_capacity, rt_timeout, isn) ==
    [sender |-> NewSender(send_capacity, rt_timeout, isn),
     receiver |-> NewReceiver(recv_capacity),
     linger |-> TRUE, rst_received |-> FALSE, rst_to_send |-> FALSE,
     connect_called |-> FALSE, idle |-> 0, segments_out |-> <<>>]

bytes_in_flight(c) == c.sender.bytes_flying
stream_in(c)       == c.sender.stream
inbound_stream(c)  == stream_out(c.receiver)
remaining_outbound_capacity(c) == remaining_capacity(stream_in(c))

StreamsFinished(c) ==
    eof(inbound_stream(c)) /\ bytes_in_flight(c) = 0 /\ eof(stream_in(c))

active(c) ==
    /\ ~c.rst_received /\ ~c.rst_to_send
    /\ StreamsFinished(c) => c.linger /\ c.idle < LINGER

(* set_error() on both streams                                              *)
BothError(c) ==
    [c EXCEPT !.sender.stream = set_error(@),
              !.receiver.reassembler.output = set_error(@)]

send_segments(c) ==
    LET acked(seg) ==
            IF HasAckno(c.receiver)
            THEN [seg EXCEPT !.ack = TRUE, !.ackno = ackno(c.receiver),
                             !.win = Least(window_size(c.receiver), MAX_WINDOW)]
            ELSE seg
        out == c.sender.segments_out
    IN  [c EXCEPT
           !.segments_out = @ \o [i \in 1 .. Len(out) |->
                                    [acked(out[i]) EXCEPT !.rst = c.rst_to_send]],
           !.sender.segments_out = <<>>]

connect(c) ==
    send_segments([c EXCEPT !.connect_called = TRUE, !.sender = fill_window(@)])

TCPConnection_write(c, data) ==
    send_segments([c EXCEPT
        !.sender = fill_window([@ EXCEPT !.stream = write(@, data)])])

end_input_stream(c) ==
    send_segments([c EXCEPT
        !.sender = fill_window([@ EXCEPT !.stream = end_input(@)])])

(* A segment is answered when it occupies sequence space, or when it is an *)
(* empty one just before the expected number (a keep-alive).               *)
Answered(c, seg) ==
    \/ length_in_sequence_space(seg) > 0
    \/ /\ HasAckno(c.receiver)
       /\ seg.seqno = RawMinus(ackno(c.receiver), 1)

(* A FIN while our own output is not finished: we shall not have to linger. *)
PassiveClose_anyFin(c, seg) == seg.fin                           \* mutant
PassiveClose(c, seg) == seg.fin /\ ~eof(stream_in(c))

(* The steps of segment_received, in the order of the code.                 *)
RelayAck(c, seg) ==
    IF seg.ack
    THEN [c EXCEPT !.sender = ack_received(@, seg.ackno, seg.win)]
    ELSE c

PassToReceiver(c, seg) ==
    IF length_in_sequence_space(seg) # 0
    THEN [c EXCEPT !.receiver = TCPReceiver_segment_received(@, seg)]
    ELSE c

ResetConnection(c, seg) ==
    IF seg.rst /\ c.connect_called /\ active(c)
    THEN BothError([c EXCEPT !.rst_received = TRUE])
    ELSE c

Answer(c, seg) ==
    IF Answered(c, seg)
    THEN [c EXCEPT !.sender = send_empty_segment(@)]
    ELSE c

DecideLinger(c, seg) ==
    IF PassiveClose(c, seg) THEN [c EXCEPT !.linger = FALSE] ELSE c

(* A SYN that reaches a listening connection is answered with our own.      *)
React(c, seg) ==
    IF seg.syn /\ ~seg.ack /\ ~c.connect_called
    THEN connect(c)
    ELSE LET reset == [ResetConnection(c, seg) EXCEPT !.idle = 0]
         IN  send_segments(DecideLinger(Answer(reset, seg), seg))

segment_received(c, seg) == React(PassToReceiver(RelayAck(c, seg), seg), seg)

GiveUp(c) ==
    IF c.sender.consec_retrans > MAX_RETX_ATTEMPTS
    THEN BothError([c EXCEPT !.rst_to_send = TRUE])
    ELSE c

TCPConnection_tick(c, ms) ==
    send_segments(GiveUp([c EXCEPT !.idle = Least(@ + ms, LINGER),
                                   !.sender = TCPSender_tick(@, ms)]))
=============================================================================
