------------------------------- MODULE TCPState -------------------------------
(***************************************************************************)
(* The official TCP states as tcp_helpers/tcp_state.cc reads them off a    *)
(* connection: a summary of the sender, one of the receiver, and the       *)
(* active and linger bits.                                                 *)
(***************************************************************************)
EXTENDS TCPConnection

ReceiverSummary(v) ==
    IF stream_out(v).error THEN "ERROR"
    ELSE IF ~HasAckno(v) THEN "LISTEN"
    ELSE IF input_ended(stream_out(v)) THEN "FIN_RECV"
    ELSE "SYN_RECV"

SenderSummary(s) ==
    IF s.stream.error THEN "ERROR"
    ELSE IF s.next_seqno = 0 THEN "CLOSED"
    ELSE IF s.next_seqno = s.bytes_flying THEN "SYN_SENT"
    ELSE IF ~eof(s.stream) \/ s.next_seqno < s.stream.bytes_wrote + 2 THEN "SYN_ACKED"
    ELSE IF s.bytes_flying > 0 THEN "FIN_SENT"
    ELSE "FIN_ACKED"

(* receiver summary, sender summary, linger and active of each state        *)
OfficialState ==
    [LISTEN      |-> <<"LISTEN",   "CLOSED",    TRUE,  TRUE>>,
     SYN_RCVD    |-> <<"SYN_RECV", "SYN_SENT",  TRUE,  TRUE>>,
     SYN_SENT    |-> <<"LISTEN",   "SYN_SENT",  TRUE,  TRUE>>,
     ESTABLISHED |-> <<"SYN_RECV", "SYN_ACKED", TRUE,  TRUE>>,
     CLOSE_WAIT  |-> <<"FIN_RECV", "SYN_ACKED", FALSE, TRUE>>,
     LAST_ACK    |-> <<"FIN_RECV", "FIN_SENT",  FALSE, TRUE>>,
     CLOSING     |-> <<"FIN_RECV", "FIN_SENT",  TRUE,  TRUE>>,
     FIN_WAIT_1  |-> <<"SYN_RECV", "FIN_SENT",  TRUE,  TRUE>>,
     FIN_WAIT_2  |-> <<"SYN_RECV", "FIN_ACKED", TRUE,  TRUE>>,
     TIME_WAIT   |-> <<"FIN_RECV", "FIN_ACKED", TRUE,  TRUE>>,
     RESET       |-> <<"ERROR",    "ERROR",     FALSE, FALSE>>,
     CLOSED      |-> <<"FIN_RECV", "FIN_ACKED", FALSE, FALSE>>]

(* TCPConnection::state()                                                   *)
state(c) == <<ReceiverSummary(c.receiver), SenderSummary(c.sender),
              active(c) /\ c.linger, active(c)>>

InState(c, name) == state(c) = OfficialState[name]
=============================================================================
