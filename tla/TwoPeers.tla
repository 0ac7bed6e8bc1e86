------------------------------- MODULE TwoPeers -------------------------------
(***************************************************************************)
(* Two TCPConnections, the applications at their ends and the network      *)
(* between them.  The client connects, the server listens; each writes a   *)
(* stream of a given length (byte i of a stream is the number i), closes   *)
(* it and reads the other's.                                               *)
(*                                                                         *)
(* Each action is one iteration of the event loop of TCPSpongeSocket: the  *)
(* handler of TCPConnection runs to its end and what it queued goes to the *)
(* network.  The network may lose, duplicate and reorder segments within   *)
(* the budgets of the model.                                               *)
(***************************************************************************)
EXTENDS TCPState

CONSTANTS SendCapacity,   \* TCPConfig::send_capacity
          RecvCapacity,   \* TCPConfig::recv_capacity
          RTO,            \* TCPConfig::rt_timeout
          ClientISN, ServerISN,
          ClientLen, ServerLen,   \* bytes each application writes
          MaxLoss,        \* bound: segments the network loses
          MaxDup,         \* bound: segments the network duplicates
          MaxOvertake,    \* bound: segments that overtake earlier ones
          MaxTicks,       \* bound: ticks while a segment is on its way
          MaxFaults       \* bound: all of these together

ASSUME TwoPeersAssumption ==
    /\ SendCapacity \in Nat \ {0} /\ RecvCapacity \in Nat \ {0}
    /\ RTO \in Nat \ {0} /\ ClientISN \in Raw /\ ServerISN \in Raw
    /\ ClientLen \in Nat /\ ServerLen \in Nat
    /\ MaxLoss \in Nat /\ MaxDup \in Nat /\ MaxOvertake \in Nat /\ MaxTicks \in Nat
    /\ MaxFaults \in Nat

Peers == {"client", "server"}
Other(p) == IF p = "client" THEN "server" ELSE "client"
StreamLen(p) == IF p = "client" THEN ClientLen ELSE ServerLen

VARIABLES conn,     \* the TCPConnection of each peer
          net,      \* the segments on their way to each peer, oldest first
          used      \* how much of each bound the run has used up

vars == <<conn, net, used>>

Init ==
    /\ conn = [p \in Peers |->
                 NewConnection(SendCapacity, RecvCapacity, RTO,
                               IF p = "client" THEN ClientISN ELSE ServerISN)]
    /\ net = [p \in Peers |-> <<>>]
    /\ used = [loss |-> 0, dup |-> 0, overtake |-> 0, tick |-> 0]

(* A handler leaves connection c at p; the event loop then sends all that  *)
(* c has queued (rule 4), after taking from the network what it read.      *)
Run(p, c, rest) ==
    /\ conn' = [conn EXCEPT ![p] = [c EXCEPT !.segments_out = <<>>]]
    /\ net' = [rest EXCEPT ![Other(p)] = @ \o c.segments_out]

Faults == used.loss + used.dup + used.overtake + used.tick

RemoveAt(q, i) == SubSeq(q, 1, i - 1) \o SubSeq(q, i + 1, Len(q))

Connect ==
    /\ ~conn["client"].connect_called
    /\ Run("client", connect(conn["client"]), net)
    /\ UNCHANGED used

(* The application thread is inside connect() or listen_and_accept() until *)
(* the handshake is over.                                                  *)
Opening(p) ==
    IF p = "client"
    THEN ~conn[p].connect_called \/ InState(conn[p], "SYN_SENT")
    ELSE \E name \in {"LISTEN", "SYN_RCVD", "SYN_SENT"} : InState(conn[p], name)

(* rule 2 is interested: the outbound stream is open and has room.          *)
OutboundReady(p) ==
    /\ active(conn[p]) /\ ~Opening(p) /\ ~stream_in(conn[p]).end
    /\ remaining_outbound_capacity(conn[p]) > 0

(* rule 2: the bytes the application wrote, as far as there is room for    *)
(* them.                                                                   *)
Write(p, len) ==
    LET first == stream_in(conn[p]).bytes_wrote
    IN  /\ OutboundReady(p)
        /\ first + len <= StreamLen(p)
        /\ len <= remaining_outbound_capacity(conn[p])
        /\ Run(p, TCPConnection_write(conn[p], [k \in 1 .. len |-> first + k - 1]), net)
        /\ UNCHANGED used

(* rule 2 at the end of the application's output: an empty write, then the *)
(* end.                                                                    *)
Close(p) ==
    /\ OutboundReady(p)
    /\ stream_in(conn[p]).bytes_wrote = StreamLen(p)
    /\ Run(p, end_input_stream(TCPConnection_write(conn[p], <<>>)), net)
    /\ UNCHANGED used

(* rule 3: all or part of the inbound buffer goes to the application.       *)
Read(p, len) ==
    /\ len <= buffer_size(inbound_stream(conn[p]))
    /\ conn' = [conn EXCEPT ![p].receiver.reassembler.output = pop_output(@, len)]
    /\ UNCHANGED <<net, used>>

(* rule 1: a segment arrives, the oldest one or one that overtook it.       *)
Deliver(p, i) ==
    /\ active(conn[p])
    /\ i = 1 \/ (used.overtake < MaxOvertake /\ Faults < MaxFaults)
    /\ used' = IF i = 1 THEN used ELSE [used EXCEPT !.overtake = @ + 1]
    /\ Run(p, segment_received(conn[p], net[p][i]), [net EXCEPT ![p] = RemoveAt(@, i)])

(* Nobody reads for a connection that has finished.                         *)
Discard(p) ==
    /\ ~active(conn[p]) /\ net[p] # <<>>
    /\ net' = [net EXCEPT ![p] = <<>>]
    /\ UNCHANGED <<conn, used>>

Idle == \A p \in Peers : net[p] = <<>>

(* Time passes for both: tick() at every connection that is still active.  *)
Ticked == [p \in Peers |-> IF active(conn[p]) THEN TCPConnection_tick(conn[p], 1)
                           ELSE conn[p]]

Tick ==
    /\ \E p \in Peers : active(conn[p])
    /\ Idle \/ (used.tick < MaxTicks /\ Faults < MaxFaults)
    /\ used' = IF Idle THEN used ELSE [used EXCEPT !.tick = @ + 1]
    /\ conn' = [p \in Peers |-> [Ticked[p] EXCEPT !.segments_out = <<>>]]
    /\ net' = [p \in Peers |-> net[p] \o Ticked[Other(p)].segments_out]

Lose(p, i) ==
    /\ used.loss < MaxLoss /\ Faults < MaxFaults
    /\ used' = [used EXCEPT !.loss = @ + 1]
    /\ net' = [net EXCEPT ![p] = RemoveAt(@, i)]
    /\ UNCHANGED conn

Duplicate(p, i) ==
    /\ used.dup < MaxDup /\ Faults < MaxFaults
    /\ used' = [used EXCEPT !.dup = @ + 1]
    /\ net' = [net EXCEPT ![p] = Append(@, @[i])]
    /\ UNCHANGED conn

Next ==
    \/ Connect
    \/ Tick
    \/ \E p \in Peers :
        \/ \E len \in 1 .. SendCapacity : Write(p, len)
        \/ Close(p)
        \/ \E len \in 1 .. RecvCapacity : Read(p, len)
        \/ Discard(p)
        \/ \E i \in 1 .. Len(net[p]) : Deliver(p, i) \/ Lose(p, i) \/ Duplicate(p, i)

Spec == Init /\ [][Next]_vars
-----------------------------------------------------------------------------
Inbound(p)  == inbound_stream(conn[p])
Sender(p)   == conn[p].sender

(* No segment was repeated by the network or overtook another.              *)
InOrder == used.dup = 0 /\ used.overtake = 0

(* What peer p's application has written and is not yet in the other's      *)
(* inbound stream.                                                         *)
InTransit(p) ==
    LET first == Inbound(Other(p)).bytes_wrote
    IN  [k \in 1 .. stream_in(conn[p]).bytes_wrote - first |-> first + k - 1]

ToServer == INSTANCE BytePipe WITH Byte <- Nat, Capacity <- RecvCapacity,
                sent <- InTransit("client"), ready <- Inbound("server").deq
ToClient == INSTANCE BytePipe WITH Byte <- Nat, Capacity <- RecvCapacity,
                sent <- InTransit("server"), ready <- Inbound("client").deq


(* What a sender takes for acknowledged - and has dropped from its queue - *)
(* the peer has in its inbound stream.                                     *)
AckedWasReceived ==
    \A p \in Peers :
        Sender(p).ack_abs > 0 =>
            LET complete == Sender(p).ack_abs = StreamLen(p) + 2
            IN  Inbound(Other(p)).bytes_wrote >=
                    Sender(p).ack_abs - (IF complete THEN 2 ELSE 1)

(* An application that sees the end of its input has been given all that   *)
(* the other wrote, and the other has indeed closed.                       *)
EofMeansComplete ==
    \A p \in Peers :
        input_ended(Inbound(p)) =>
            /\ Sender(Other(p)).fin_sent
            /\ Inbound(p).bytes_wrote = StreamLen(Other(p))

FinishedCleanly(p) ==
    ~active(conn[p]) /\ ~conn[p].rst_received /\ ~conn[p].rst_to_send

(* A peer that finishes without lingering leaves no one behind: the other  *)
(* has nothing in flight that only this peer could still acknowledge.      *)
NoLingerSafe ==
    \A p \in Peers :
        FinishedCleanly(p) /\ ~conn[p].linger =>
            Sender(Other(p)).fin_sent /\ Sender(Other(p)).bytes_flying = 0

(* Flow control end to end: no sender runs ahead of the other application's *)
(* reads by more than the receiver's capacity, and by the one byte of a     *)
(* probe only while it takes the window for closed.                         *)
(* (An old acknowledgment that comes late, overtaken or repeated, reopens a *)
(* window that has closed since: ack_received stores it before it tests it.)*)
NoOverrun ==
    InOrder =>
    \A p \in Peers :
        Sender(p).stream.bytes_readed <=
            Inbound(Other(p)).bytes_readed + RecvCapacity
                + (IF Sender(p).window_size = 0 THEN 1 ELSE 0)

(* The edges of the state diagram of RFC 793 between the states that       *)
(* tcp_state.cc knows; a segment that carries both the FIN and the         *)
(* acknowledgment of ours takes two edges at once.                         *)
Diagram ==
    {<<"LISTEN", "SYN_RCVD">>, <<"LISTEN", "SYN_SENT">>,
     <<"SYN_SENT", "SYN_RCVD">>, <<"SYN_SENT", "ESTABLISHED">>,
     <<"SYN_RCVD", "ESTABLISHED">>, <<"SYN_RCVD", "FIN_WAIT_1">>,
     <<"ESTABLISHED", "FIN_WAIT_1">>, <<"ESTABLISHED", "CLOSE_WAIT">>,
     <<"FIN_WAIT_1", "FIN_WAIT_2">>, <<"FIN_WAIT_1", "CLOSING">>,
     <<"FIN_WAIT_1", "TIME_WAIT">>, <<"FIN_WAIT_2", "TIME_WAIT">>,
     <<"CLOSING", "TIME_WAIT">>, <<"CLOSE_WAIT", "LAST_ACK">>,
     <<"LAST_ACK", "CLOSED">>, <<"TIME_WAIT", "CLOSED">>}

-----------------------------------------------------------------------------
(* What the event loops and the applications owe: a segment on its way is  *)
(* read in the end, applications go on writing, closing and reading, and   *)
(* time passes.  Each line is the weak fairness of an action, with the     *)
(* condition under which a step of it changes something spelt out in place *)
(* of ENABLED, which TLC could not evaluate in reasonable time.            *)
Fairness ==
    /\ []<>(conn["client"].connect_called) \/ []<><<Connect>>_vars
    /\ []<>(~Idle \/ Ticked = conn) \/ []<><<Tick>>_vars
    /\ \A p \in Peers :
        /\ []<>(net[p] = <<>>)
           \/ []<><<net[p] # <<>> /\ Deliver(p, 1)>>_vars
           \/ []<><<Discard(p)>>_vars
        /\ []<>(~OutboundReady(p) \/ stream_in(conn[p]).bytes_wrote = StreamLen(p))
           \/ []<><<\E len \in 1 .. SendCapacity : Write(p, len)>>_vars
        /\ []<>(~OutboundReady(p) \/ stream_in(conn[p]).bytes_wrote < StreamLen(p))
           \/ []<><<Close(p)>>_vars
        /\ []<>(buffer_empty(Inbound(p)))
           \/ []<><<\E len \in 1 .. RecvCapacity : Read(p, len)>>_vars

FairSpec == Spec /\ Fairness

(* Unless segments are lost or out of order, both applications get the     *)
(* whole of the other's stream and both connections finish cleanly: no     *)
(* window, timer or closing handshake leaves the two waiting for each      *)
(* other.                                                                  *)
EverythingArrives ==
    <>[](InOrder /\ used.loss = 0 =>
            \A p \in Peers :
                /\ FinishedCleanly(p)
                /\ Inbound(p).bytes_readed = StreamLen(Other(p)))

=============================================================================
