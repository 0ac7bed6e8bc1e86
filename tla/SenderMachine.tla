---------------------------- MODULE SenderMachine ----------------------------
(***************************************************************************)
(* One TCPSender with the connection that drives it: the application's     *)
(* writes, acknowledgments with any number and window, and the clock.  The *)
(* calls are the ones TCPConnection makes; at the start of each step it    *)
(* has emptied segments_out, so snd.segments_out holds what the last step  *)
(* put on the wire.                                                        *)
(***************************************************************************)
EXTENDS TCPSender

CONSTANTS Capacity,    \* capacity of the outgoing stream
          RTO,         \* TCPConfig::rt_timeout
          ISN,         \* our initial sequence number
          Windows,     \* the windows a peer may advertise
          MaxBytes,    \* bound: bytes the application writes
          MaxRetx      \* TCPConfig::MAX_RETX_ATTEMPTS

ASSUME SenderAssumption ==
    /\ Capacity \in Nat \ {0} /\ RTO \in Nat \ {0} /\ ISN \in Raw
    /\ Windows \subseteq Nat
    /\ MaxBytes \in Nat /\ MaxBytes + 2 < U64
    /\ MaxRetx \in Nat

VARIABLE snd

Drained == [snd EXCEPT !.segments_out = <<>>]

Init == snd = NewSender(Capacity, RTO, ISN)

(* TCPConnection::connect                                                   *)
Connect ==
    /\ snd.next_seqno = 0
    /\ snd' = fill_window(Drained)

(* TCPConnection::write, the bytes of the stream being 0, 1, 2, ...         *)
Write(len) ==
    LET first == snd.stream.bytes_wrote
        data  == [k \in 1 .. len |-> first + k - 1]
    IN  /\ ~snd.stream.end
        /\ first + len <= MaxBytes
        /\ len <= remaining_capacity(snd.stream)
        /\ snd' = fill_window([Drained EXCEPT !.stream = write(@, data)])

(* TCPConnection::end_input_stream                                          *)
EndInputStream ==
    /\ ~snd.stream.end
    /\ snd' = fill_window([Drained EXCEPT !.stream = end_input(@)])

AckReceived(raw, win) == snd' = ack_received(Drained, raw, win)

Tick(ms) ==
    /\ snd.consec_retrans <= MaxRetx
    /\ snd' = TCPSender_tick(Drained, ms)

(* A peer acknowledges nothing before it has seen our SYN.                 *)
Next ==
    \/ Connect
    \/ \E len \in 1 .. Capacity : Write(len)
    \/ EndInputStream
    \/ \E raw \in Raw, win \in Windows : snd.next_seqno > 0 /\ AckReceived(raw, win)
    \/ Tick(1)

Spec == Init /\ [][Next]_snd

(* Acknowledgments also reach a connection that is still listening.        *)
NextStray ==
    \/ Next
    \/ \E raw \in Raw, win \in Windows : AckReceived(raw, win)

SpecStray == Init /\ [][NextStray]_snd
-----------------------------------------------------------------------------
Segment == [seqno : Raw, syn : BOOLEAN, fin : BOOLEAN, payload : Seq(Nat),
            ack : BOOLEAN, ackno : Raw, win : Nat, rst : BOOLEAN]

Stream == [cap : {Capacity}, deq : Seq(Nat), bytes_wrote : Nat, bytes_readed : Nat,
           end : BOOLEAN, error : BOOLEAN]

TypeOK ==
    /\ snd \in [isn : {ISN}, initial_RTO : {RTO}, curr_RTO : Nat, stream : Stream,
                next_seqno : Nat, outstanding : Seq([seg : Segment, end : Nat]),
                bytes_flying : Nat, window_size : Nat, timer : Nat,
                consec_retrans : 0 .. MaxRetx + 1, ack_abs : Nat,
                fin_sent : BOOLEAN, segments_out : Seq(Segment)]
    /\ Len(snd.stream.deq) <= Capacity

Start(o) == o.end - length_in_sequence_space(o.seg)

(* bytes_in_flight() is exactly what is sent and not acknowledged, and the *)
(* queue of outstanding segments covers it with no gap: the front segment  *)
(* reaches back to the acknowledged edge, each next one starts where the   *)
(* one before ends and the last ends at _next_seqno.  So every byte in     *)
(* flight will be retransmitted if it is lost.                             *)
FlightCovered ==
    LET q == snd.outstanding
    IN  /\ snd.bytes_flying = snd.next_seqno - snd.ack_abs
        /\ \A i \in 1 .. Len(q) - 1 : Start(q[i + 1]) = q[i].end
        /\ q # <<>> => /\ Start(q[1]) <= snd.ack_abs
                       /\ snd.ack_abs < q[1].end
                       /\ q[Len(q)].end = snd.next_seqno
        /\ q = <<>> => snd.ack_abs = snd.next_seqno

(* The sequence numbers used so far are the SYN, the bytes taken from the  *)
(* stream and the FIN, each once.                                          *)
SeqnoAccounting ==
    snd.next_seqno > 0 =>
        snd.next_seqno = 1 + snd.stream.bytes_readed + One(snd.fin_sent)

(* What is kept for retransmission are the right bytes: the payload of an  *)
(* outstanding segment is the stretch of the stream that its sequence      *)
(* numbers stand for.                                                      *)
OutstandingBytes ==
    \A i \in 1 .. Len(snd.outstanding) :
        LET o == snd.outstanding[i]
        IN  /\ o.seg.seqno = wrap(Start(o), ISN)
            /\ \A k \in 1 .. Len(o.seg.payload) :
                    o.seg.payload[k] = Start(o) + k - 2

(* No lost wakeup: once the SYN is out, a sender with nothing in flight    *)
(* has nothing left to send.  Were it otherwise no timer would be running  *)
(* and no acknowledgment expected, and the bytes would wait for ever.      *)
NothingStranded ==
    (snd.next_seqno > 0 /\ snd.bytes_flying = 0) =>
        /\ buffer_empty(snd.stream)
        /\ snd.stream.end => snd.fin_sent

(* The timer has been doubled once per counted retransmission, and the     *)
(* oldest segment is never left waiting past it.                           *)
TimerSound ==
    /\ snd.curr_RTO = RTO * 2 ^ snd.consec_retrans
    /\ snd.outstanding # <<>> => snd.timer < snd.curr_RTO

(* New sequence numbers are used only within the window the peer           *)
(* advertised last, a window of 0 counting as 1.                           *)
WindowRespected ==
    [][snd'.next_seqno > snd.next_seqno =>
          snd'.next_seqno <= snd'.ack_abs + Greatest(snd'.window_size, 1)]_snd

(* The acknowledged edge never moves back nor past what was sent, and the  *)
(* backoff is undone only when it moves.                                   *)
AckProgress ==
    [][/\ snd.ack_abs <= snd'.ack_abs /\ snd'.ack_abs <= snd'.next_seqno
       /\ snd'.consec_retrans < snd.consec_retrans => snd.ack_abs < snd'.ack_abs]_snd
=============================================================================
