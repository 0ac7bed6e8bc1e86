------------------------------ MODULE TCPSender ------------------------------
(***************************************************************************)
(* The sending half of a connection (libsponge/tcp_sender.cc): cuts the    *)
(* outgoing stream into segments within the peer's window, keeps what is   *)
(* not acknowledged yet and retransmits the oldest of it on a timeout.     *)
(*                                                                         *)
(* The deques of outstanding segments and of their ends are one sequence   *)
(* of records.  Of the recorded times only the front one is ever read, and *)
(* only in _time - _timestamps_outstanding[0]: whenever the front is       *)
(* popped, the time of every segment left is reset.  That difference is    *)
(* the field timer.  _time_fin_sent is never read.                         *)
(***************************************************************************)
EXTENDS WrappingIntegers, ByteStream, TCPSegment

CONSTANT MAX_PAYLOAD_SIZE    \* TCPConfig::MAX_PAYLOAD_SIZE: 1000 in the code

ASSUME PayloadAssumption == MAX_PAYLOAD_SIZE \in Nat \ {0}

NewSender(capacity, retx_timeout, isn) ==
    [isn |-> isn, initial_RTO |-> retx_timeout, curr_RTO |-> retx_timeout,
     stream |-> NewByteStream(capacity), next_seqno |-> 0,
     outstanding |-> <<>>, bytes_flying |-> 0, window_size |-> 1,
     timer |-> 0, consec_retrans |-> 0, ack_abs |-> 0, fin_sent |-> FALSE,
     segments_out |-> <<>>]

next_seqno_acked(s) == wrap(s.ack_abs, s.isn)                    \* mutant
next_seqno(s) == wrap(s.next_seqno, s.isn)

(* Queue new segments, the k-th of which ends just before the absolute     *)
(* sequence number ends[k]; the clock starts if nothing was outstanding.   *)
Transmit(s, segs, ends) ==
    LET last == ends[Len(ends)]
    IN  [s EXCEPT
           !.segments_out = @ \o segs,
           !.outstanding  = @ \o [k \in 1 .. Len(segs) |->
                                    [seg |-> segs[k], end |-> ends[k]]],
           !.timer        = IF s.outstanding = <<>> THEN 0 ELSE @,
           !.bytes_flying = Add64(@, last - s.next_seqno),
           !.next_seqno   = last]

SendOne(s, seg) ==
    Transmit(s, <<seg>>, <<s.next_seqno + length_in_sequence_space(seg)>>)

WindowOpen(s) == s.window_size > s.bytes_flying
Probing_never(s)  == FALSE                                       \* mutant
Probing_always(s) == s.window_size = 0                           \* mutant
Probing(s)    == s.window_size = 0 /\ s.bytes_flying = 0

(* The loop under "Window available": the first total bytes of the stream  *)
(* leave in segments of MAX_PAYLOAD_SIZE, the last of which takes what is  *)
(* left and carries the FIN when it empties an ended stream and there is   *)
(* room for it.                                                            *)
SendData(s) ==
    LET room    == s.window_size - s.bytes_flying
        total   == Least(buffer_size(s.stream), room)
        n       == (total + MAX_PAYLOAD_SIZE - 1) \div MAX_PAYLOAD_SIZE
        fin     == /\ s.stream.end /\ total = buffer_size(s.stream)
                   /\ ~s.fin_sent /\ room > total
        upto(k) == Least(k * MAX_PAYLOAD_SIZE, total)
        segs    == [k \in 1 .. n |->
                      NewSegment(wrap(s.next_seqno + upto(k - 1), s.isn),
                                 FALSE, fin /\ k = n,
                                 SubSeq(s.stream.deq, upto(k - 1) + 1, upto(k)))]
        ends    == [k \in 1 .. n |-> s.next_seqno + upto(k) + One(fin /\ k = n)]
    IN  [Transmit(s, segs, ends) EXCEPT
            !.stream   = pop_output(@, total),
            !.fin_sent = @ \/ fin]

fill_window(s) ==
    IF s.next_seqno = 0
    THEN SendOne(s, NewSegment(s.isn, TRUE, FALSE, <<>>))
    ELSE IF eof(s.stream) /\ ~s.fin_sent /\ (WindowOpen(s) \/ Probing(s))
    THEN [SendOne(s, NewSegment(next_seqno(s), FALSE, TRUE, <<>>))
            EXCEPT !.fin_sent = TRUE]
    ELSE IF buffer_size(s.stream) > 0 /\ Probing(s)
    THEN [SendOne(s, NewSegment(next_seqno(s), FALSE, FALSE, peek_output(s.stream, 1)))
            EXCEPT !.stream = pop_output(@, 1)]
    ELSE IF buffer_size(s.stream) > 0 /\ WindowOpen(s)
    THEN SendData(s)
    ELSE s

(* The acknowledgment moves the left edge and acknowledges only what may   *)
(* have been sent.                                                         *)
UsefulAck_outdated(s, ack_abs) ==                                \* mutant
    ack_abs <= s.stream.bytes_readed + (IF s.fin_sent THEN 2 ELSE 1)
UsefulAck(s, ack_abs) ==
    /\ ack_abs > s.ack_abs
    /\ ack_abs <= s.stream.bytes_readed + (IF s.fin_sent THEN 2 ELSE 1)

(* Segments that are wholly acknowledged are popped from the front of the  *)
(* queue.                                                                  *)
Unacknowledged_keepsLast(q, ack_abs) ==                          \* mutant
    LET acked == CHOOSE k \in 0 .. Len(q) :
                    /\ \A i \in 1 .. k : q[i].end < ack_abs
                    /\ k = Len(q) \/ q[k + 1].end >= ack_abs
    IN  SubSeq(q, acked + 1, Len(q))
Unacknowledged(q, ack_abs) ==
    LET acked == CHOOSE k \in 0 .. Len(q) :
                    /\ \A i \in 1 .. k : q[i].end <= ack_abs
                    /\ k = Len(q) \/ q[k + 1].end > ack_abs
    IN  SubSeq(q, acked + 1, Len(q))

(* The advertised window is taken before the acknowledgment is judged.     *)
ack_received(s, raw_ackno, win) ==
    LET ack_abs == unwrap(raw_ackno, s.isn, s.stream.bytes_readed)
        w       == [s EXCEPT !.window_size = win]
        acked   == [w EXCEPT
                      !.curr_RTO       = s.initial_RTO,
                      !.bytes_flying   = Sub64(@, ack_abs - s.ack_abs),
                      !.ack_abs        = ack_abs,
                      !.timer          = 0,
                      !.consec_retrans = 0,
                      !.outstanding    = Unacknowledged(@, ack_abs)]
    IN  IF ~UsefulAck(s, ack_abs)
        THEN w
        ELSE IF (WindowOpen(acked) \/ Probing(acked)) /\ ~s.fin_sent
        THEN fill_window(acked)
        ELSE acked

(* The time since the front segment was sent reaches the timeout.          *)
Due_late(s, ms) == s.timer + ms > s.curr_RTO                     \* mutant
Due(s, ms)      == s.timer + ms >= s.curr_RTO

(* A retransmission backs off only while the peer advertises a window.     *)
TCPSender_tick(s, ms) ==
    LET counted == s.window_size # 0
    IN  IF s.outstanding = <<>>
        THEN s
        ELSE IF ~Due(s, ms)
        THEN [s EXCEPT !.timer = @ + ms]
        ELSE [s EXCEPT
                !.segments_out   = Append(@, s.outstanding[1].seg),
                !.timer          = 0,
                !.consec_retrans = @ + One(counted),
                !.curr_RTO       = IF counted THEN 2 * @ ELSE @]

send_empty_segment(s) ==
    [s EXCEPT !.segments_out =
        Append(@, NewSegment(next_seqno(s), FALSE, FALSE, <<>>))]
=============================================================================
