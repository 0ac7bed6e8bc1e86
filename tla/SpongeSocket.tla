----------------------------- MODULE SpongeSocket -----------------------------
(***************************************************************************)
(* The two threads of a TCPSpongeSocket (tcp_helpers/tcp_sponge_socket.cc):*)
(* the owner, who connects or accepts, writes, reads and gets rid of the   *)
(* socket, and the TCP thread, whose event loop moves bytes and segments   *)
(* between the owner, the TCPConnection and the network.  The threads      *)
(* share a pair of connected stream sockets and the flag _abort.           *)
(*                                                                         *)
(* The TCPConnection is taken here for what TwoPeers checks of it: bytes   *)
(* arrive in order, what is sent is acknowledged in order or given up, and *)
(* active() depends on resets, on the end of both streams and on           *)
(* lingering.  The network neither loses nor reorders; that is TCP's       *)
(* business.  The connection's own acknowledgments, which change nothing   *)
(* here, are left out.  The bytes of each stream are numbered from 1.      *)
(***************************************************************************)
EXTENDS ByteStream, EventLoop

CONSTANTS PairRoom,   \* bytes each way of the socket pair holds
          Capacity,   \* capacity of the streams of the TCPConnection
          Window,     \* segments the peer lets the connection send ahead
          OwnerLen,   \* bound: bytes the owner writes
          PeerLen     \* bound: bytes the peer sends

ASSUME SocketAssumption ==
    {PairRoom, Capacity, Window} \subseteq Nat \ {0} /\ {OwnerLen, PeerLen} \subseteq Nat

VARIABLES owner,   \* where the owner is, and what it wrote and read
          sock,    \* the members of TCPSpongeSocket that are not below
          loop,    \* _eventloop, run by the owner while it opens and then by the thread
          tcp,     \* _tcp
          pair,    \* what the socket pair holds, each way
          net,     \* the segments on their way, each way
          peer     \* what the peer sent and received

vars == <<owner, sock, loop, tcp, pair, net, peer>>

Rule == 1 .. 4
Fd == <<"adapter", "thread_data", "thread_data", "adapter">>
Direction == <<"In", "In", "Out", "Out">>

Segment(kind, byte) == [kind |-> kind, byte |-> byte]

NewTcp(role) ==
    [status |-> IF role = "connect" THEN "SYN_SENT" ELSE "LISTEN",
     inbound |-> NewByteStream(Capacity), outbound |-> NewByteStream(Capacity),
     fin_sent |-> FALSE, flying |-> 0, linger |-> TRUE, lingered |-> FALSE, rst |-> FALSE,
     segments_out |-> IF role = "connect" THEN <<Segment("syn", 0)>> ELSE <<>>]

Way == [buf |-> <<>>, ended |-> FALSE, broken |-> FALSE]

(* connect() or listen_and_accept() has set up the connection.              *)
Init ==
    /\ owner = [at |-> "opening", wrote |-> 0, read |-> 0, eof |-> FALSE]
    /\ sock = [abort |-> FALSE, inbound_shutdown |-> FALSE, outbound_shutdown |-> FALSE,
               thread |-> "none", data |-> FileDescriptor]
    /\ loop = EventLoop(Rule)
    /\ tcp \in {NewTcp(role) : role \in {"connect", "accept"}}
    /\ pair = [toTcp |-> Way, toOwner |-> Way]
    /\ net = [toPeer |-> <<>>,
              toUs |-> IF tcp.status = "LISTEN" THEN <<Segment("syn", 0)>> ELSE <<>>]
    /\ peer = [sent |-> 0, fin |-> FALSE, got |-> 0, got_fin |-> FALSE, got_rst |-> FALSE,
               silent |-> FALSE]
-----------------------------------------------------------------------------
(* The TCPConnection.                                                       *)
Send(t, segment) == [t EXCEPT !.segments_out = Append(@, segment)]

active_inFlightForgotten(t) ==                                     \* mutant
    /\ ~t.rst
    /\ (eof(t.inbound) /\ eof(t.outbound)) => t.linger /\ ~t.lingered
active(t) ==
    /\ ~t.rst
    /\ (eof(t.inbound) /\ t.flying = 0 /\ eof(t.outbound)) => t.linger /\ ~t.lingered

(* fill_window: one byte at a time as far as the window reaches, and the    *)
(* FIN after the last.                                                      *)
FillOne(t, k) ==
    IF t.flying >= Window \/ t.fin_sent THEN t
    ELSE IF ~buffer_empty(t.outbound)
    THEN Send([t EXCEPT !.outbound = pop_output(@, 1), !.flying = @ + 1],
              Segment("data", Head(t.outbound.deq)))
    ELSE IF input_ended(t.outbound)
    THEN Send([t EXCEPT !.fin_sent = TRUE, !.flying = @ + 1], Segment("fin", 0))
    ELSE t

fill_window(t) == FoldLeft(FillOne, t, [k \in 1 .. Window |-> k])

Errored(t) ==
    [t EXCEPT !.rst = TRUE, !.inbound = set_error(@), !.outbound = set_error(@)]

segment_received(t, segment) ==
    CASE segment.kind = "syn" -> Send([t EXCEPT !.status = "SYN_RCVD"], Segment("syn", 0))
      [] segment.kind = "synack" -> [t EXCEPT !.status = "OPEN"]
      [] segment.kind = "data" -> [t EXCEPT !.inbound = write(@, <<segment.byte>>)]
      [] segment.kind = "fin" -> [t EXCEPT !.inbound = end_input(@),
                                           !.linger = @ /\ eof(t.outbound)]
      [] segment.kind = "ack" -> fill_window([t EXCEPT !.flying = @ - 1])
      [] segment.kind = "rst" -> Errored(t)

(* The timers of tick: giving up on what is not answered, and lingering.    *)
GivesUp(t) == t.flying > 0 \/ t.status \in {"SYN_SENT", "SYN_RCVD"}
GivenUp(t) == Send(Errored(t), Segment("rst", 0))

(* The destructor of an active connection.                                  *)
Destructed(t) ==
    IF active(t) THEN Send([Errored(t) EXCEPT !.status = "CUT"], Segment("rst", 0)) ELSE t
-----------------------------------------------------------------------------
(* The event loop with its four rules.                                      *)
interest(t, s, n) ==
    CASE n = 1 -> active(t)
      [] n = 2 -> active(t) /\ ~s.outbound_shutdown /\ remaining_capacity(t.outbound) > 0
      [] n = 3 -> \/ ~buffer_empty(t.inbound)
                  \/ (eof(t.inbound) \/ t.inbound.error) /\ ~s.inbound_shutdown
      [] n = 4 -> t.segments_out # <<>>

end_input_stream(t) == fill_window([t EXCEPT !.outbound = end_input(@)])

Available(n) ==
    LET If(condition, event) == IF condition THEN {event} ELSE {}
    IN  IF Fd[n] = "adapter" THEN If(net.toUs # <<>>, "In") \cup {"Out"}
        ELSE If(pair.toTcp.buf # <<>> \/ pair.toTcp.ended, "In")
                \cup If(Len(pair.toOwner.buf) < PairRoom, "Out")
                \cup If(pair.toTcp.ended /\ pair.toOwner.ended, "HUP")

(* Only rule 2 can be cancelled: its handle is the one that reaches an end, *)
(* and none is closed.                                                      *)
Cancelling == 2 \in loop.rules /\ Defunct(sock.data, "In")
Cancelled(t) == IF Cancelling THEN end_input_stream(t) ELSE t
Shutdown(s) == IF Cancelling THEN [s EXCEPT !.outbound_shutdown = TRUE] ELSE s

SetUp(t, s) ==
    LET rules == IF Cancelling THEN loop.rules \ {2} ELSE loop.rules
    IN  [loop EXCEPT !.rules = rules,
                     !.events = [n \in Rule |-> IF n \in rules /\ interest(t, s, n)
                                                THEN {Direction[n]} ELSE {}]]

Polled(l) == [l EXCEPT !.revents = [n \in Rule |-> Reported(Available(n), l.events[n])]]

(* poll returns at once when something is ready, and else after a timeout.  *)
Awaited(l, polled) ==
    loop' = IF ~SomethingToPoll(l) THEN Returned(l, "exit")
            ELSE IF Pending(polled) = {} THEN Returned(l, "idle")
            ELSE [polled EXCEPT !.phase = "serve"]

(* _tcp_loop goes on: the owner runs it until the handshake is over, and    *)
(* then the thread, until the abort.                                        *)
Opening == tcp.status \in {"SYN_SENT", "LISTEN", "SYN_RCVD"} /\ ~tcp.rst
Looping == ~sock.abort /\ (owner.at = "opening" => Opening)

wait_next_event ==
    /\ loop.phase = "idle" /\ Looping
    /\ UNCHANGED <<owner, pair, net, peer>>
    /\ tcp' = Cancelled(tcp)
    /\ sock' = Shutdown(sock)
    /\ \E l \in {SetUp(tcp', sock')} : \E polled \in {Polled(l)} : Awaited(l, polled)

Callback(n) == Turn(loop, n) /\ poll_ready(loop, n)

Return(n) == loop' = Checked(loop, n, register_write(register_read(sock.data)), Direction[n],
                             interest(tcp', sock', n))

(* A hangup that is all that happened to the handle, or that nothing was    *)
(* asked of.                                                                *)
NoCallback(n) ==
    /\ Turn(loop, n) /\ ~poll_ready(loop, n)
    /\ IF poll_hup(loop, n)
       THEN /\ loop' = Erased(loop, n)
            /\ tcp' = IF n = 2 THEN end_input_stream(tcp) ELSE tcp
            /\ sock' = IF n = 2 THEN [sock EXCEPT !.outbound_shutdown = TRUE] ELSE sock
       ELSE loop' = Served(loop, n) /\ UNCHANGED <<tcp, sock>>
    /\ UNCHANGED <<owner, pair, net, peer>>

rule1 ==
    /\ Callback(1)
    /\ tcp' = segment_received(tcp, Head(net.toUs))
    /\ net' = [net EXCEPT !.toUs = Tail(@)]
    /\ UNCHANGED <<owner, sock, pair, peer>>
    /\ Return(1)

(* The bytes read fit the outbound stream; at the end of them it ends.      *)
rule2(k) ==
    /\ Callback(2)
    /\ LET room == Least(Len(pair.toTcp.buf), remaining_capacity(tcp.outbound))
       IN  k \in (IF room = 0 THEN {0} ELSE 1 .. room)
    /\ pair' = [pair EXCEPT !.toTcp.buf = SubSeq(@, k + 1, Len(@))]
    /\ LET data == FileDescriptor_read(sock.data, remaining_capacity(tcp.outbound),
                                       SubSeq(pair.toTcp.buf, 1, k))
           written == [tcp EXCEPT !.outbound = write(@, SubSeq(pair.toTcp.buf, 1, k))]
       IN  /\ sock' = [sock EXCEPT !.data = [data EXCEPT !.read_count = 0],
                                   !.outbound_shutdown = @ \/ data.eof]
           /\ tcp' = IF data.eof THEN end_input_stream(fill_window(written))
                     ELSE fill_window(written)
    /\ UNCHANGED <<owner, net, peer>>
    /\ Return(2)

(* Whether the stream to the owner is shut down after this write.           *)
Ends_early(s) == input_ended(s) \/ s.error                         \* mutant
Ends(s) == eof(s) \/ s.error

(* A reset also ends the stream to the owner while bytes are left in it;    *)
(* writing after that, or after the owner shut its end down, fails with     *)
(* EPIPE, whose signal ends the process.                                    *)
rule3(k) ==
    /\ Callback(3)
    /\ UNCHANGED <<owner, net, peer>>
    /\ LET room == Least(buffer_size(tcp.inbound), PairRoom - Len(pair.toOwner.buf))
           ends == Ends(pop_output(tcp.inbound, k))
       IN  IF ~buffer_empty(tcp.inbound) /\ pair.toOwner.broken
           THEN k = 0 /\ loop' = [loop EXCEPT !.phase = "killed"] /\ UNCHANGED <<tcp, sock, pair>>
           ELSE /\ k \in (IF room = 0 THEN {0} ELSE 1 .. room)
                /\ tcp' = [tcp EXCEPT !.inbound = pop_output(@, k)]
                /\ pair' = [pair EXCEPT !.toOwner.buf = @ \o peek_output(tcp.inbound, k),
                                        !.toOwner.ended = @ \/ ends,
                                        !.toOwner.broken = @ \/ ends]
                /\ sock' = [sock EXCEPT !.inbound_shutdown = @ \/ ends]
                /\ Return(3)

rule4 ==
    /\ Callback(4)
    /\ net' = [net EXCEPT !.toPeer = @ \o tcp.segments_out]
    /\ tcp' = [tcp EXCEPT !.segments_out = <<>>]
    /\ UNCHANGED <<owner, sock, pair, peer>>
    /\ Return(4)
-----------------------------------------------------------------------------
(* _tcp_loop between two calls of wait_next_event: a tick at which one of   *)
(* the timers of an active connection goes off, or the abort.               *)
Tick(t) ==
    /\ loop.phase = "idle" /\ ~sock.abort /\ active(tcp)
    /\ tcp' = t
    /\ UNCHANGED <<owner, sock, loop, pair, net, peer>>

GiveUp == GivesUp(tcp) /\ Tick(GivenUp(tcp))
LingerOver ==
    /\ eof(tcp.inbound) /\ tcp.flying = 0 /\ eof(tcp.outbound) /\ ~tcp.lingered
    /\ Tick([tcp EXCEPT !.lingered = TRUE])

Abort ==
    /\ loop.phase = "idle" /\ sock.abort
    /\ loop' = Returned(loop, "exit")
    /\ UNCHANGED <<owner, sock, tcp, pair, net, peer>>

(* The end of the owner's loop: the thread takes over.                      *)
StartThread ==
    /\ owner.at = "opening"
    /\ loop.phase = "exit" \/ (loop.phase = "idle" /\ ~Opening)
    /\ owner' = [owner EXCEPT !.at = "open"]
    /\ sock' = [sock EXCEPT !.thread = "main"]
    /\ loop' = Returned(loop, "idle")
    /\ UNCHANGED <<tcp, pair, net, peer>>

(* _tcp_main after its loop: the owner's end is shut down both ways, and    *)
(* the TCPConnection destructed, together with the reset that its           *)
(* destructor queues if it is still active.                                 *)
ThreadEnds ==
    /\ sock.thread = "main" /\ loop.phase = "exit"
    /\ sock' = [sock EXCEPT !.thread = "ended"]
    /\ pair' = [toTcp |-> [pair.toTcp EXCEPT !.ended = TRUE, !.broken = TRUE],
                toOwner |-> [pair.toOwner EXCEPT !.ended = TRUE, !.broken = TRUE]]
    /\ tcp' = Destructed(tcp)
    /\ UNCHANGED <<owner, loop, net, peer>>

Thread ==
    \/ wait_next_event
    \/ Abort
    \/ /\ loop.phase = "serve"
       /\ \/ rule1 \/ rule4
          \/ \E k \in 0 .. Capacity + PairRoom : rule2(k) \/ rule3(k)
          \/ \E n \in Rule : NoCallback(n)
    \/ StartThread
    \/ ThreadEnds
-----------------------------------------------------------------------------
(* The owner.                                                               *)
Alive == loop.phase \notin {"thrown", "killed"}

OwnerWrites ==
    /\ owner.at = "open" /\ Alive /\ owner.wrote < OwnerLen
    /\ ~pair.toTcp.ended /\ Len(pair.toTcp.buf) < PairRoom
    /\ pair' = [pair EXCEPT !.toTcp.buf = Append(@, owner.wrote + 1)]
    /\ owner' = [owner EXCEPT !.wrote = @ + 1]
    /\ UNCHANGED <<sock, loop, tcp, net, peer>>

OwnerReads ==
    /\ owner.at = "open" /\ Alive /\ ~owner.eof
    /\ IF pair.toOwner.buf # <<>>
       THEN /\ pair' = [pair EXCEPT !.toOwner.buf = Tail(@)]
            /\ owner' = [owner EXCEPT !.read = @ + 1]
       ELSE /\ pair.toOwner.ended
            /\ owner' = [owner EXCEPT !.eof = TRUE]
            /\ UNCHANGED pair
    /\ UNCHANGED <<sock, loop, tcp, net, peer>>

(* shutdown(SHUT_WR), as when the owner has nothing more to write.          *)
OwnerFinishes ==
    /\ owner.at = "open" /\ Alive /\ ~pair.toTcp.ended
    /\ pair' = [pair EXCEPT !.toTcp.ended = TRUE]
    /\ UNCHANGED <<owner, sock, loop, tcp, net, peer>>

wait_until_closed ==
    /\ owner.at = "open" /\ Alive
    /\ pair' = [toTcp |-> [pair.toTcp EXCEPT !.ended = TRUE],
                toOwner |-> [pair.toOwner EXCEPT !.ended = TRUE, !.broken = TRUE]]
    /\ owner' = [owner EXCEPT !.at = "closing"]
    /\ UNCHANGED <<sock, loop, tcp, net, peer>>

Destruct_noAbort ==                                                \* mutant
    /\ owner.at = "open" /\ Alive
    /\ owner' = [owner EXCEPT !.at = "destructing"]
    /\ UNCHANGED <<sock, loop, tcp, pair, net, peer>>
Destruct ==
    /\ owner.at = "open" /\ Alive
    /\ sock' = [sock EXCEPT !.abort = TRUE]
    /\ owner' = [owner EXCEPT !.at = "destructing"]
    /\ UNCHANGED <<loop, tcp, pair, net, peer>>

Join ==
    /\ owner.at \in {"closing", "destructing"} /\ sock.thread = "ended"
    /\ owner' = [owner EXCEPT !.at = IF @ = "closing" THEN "closed" ELSE "destructed"]
    /\ UNCHANGED <<sock, loop, tcp, pair, net, peer>>

Owner == OwnerWrites \/ OwnerReads \/ OwnerFinishes \/ wait_until_closed \/ Destruct \/ Join
-----------------------------------------------------------------------------
(* The peer: it answers what it receives, sends bytes as far as they fit    *)
(* and ends its stream; it may also reset the connection or fall silent.    *)
Answering == ~peer.silent /\ ~peer.got_rst

Answer(segment) ==
    CASE segment.kind = "syn" -> <<Segment("synack", 0)>>
      [] segment.kind \in {"data", "fin"} -> <<Segment("ack", 0)>>
      [] OTHER -> <<>>

PeerReceives ==
    /\ Answering /\ net.toPeer # <<>>
    /\ LET segment == Head(net.toPeer)
       IN  /\ net' = [toPeer |-> Tail(net.toPeer), toUs |-> net.toUs \o Answer(segment)]
           /\ peer' = [peer EXCEPT !.got = IF segment.kind = "data" THEN @ + 1 ELSE @,
                                   !.got_fin = @ \/ segment.kind = "fin",
                                   !.got_rst = @ \/ segment.kind = "rst"]
    /\ UNCHANGED <<owner, sock, loop, tcp, pair>>

(* What the peer does of itself while the connection is active; nothing     *)
(* that it sends later is ever read.                                        *)
PeerAct(segments, next) ==
    /\ Answering /\ active(tcp)
    /\ net' = [net EXCEPT !.toUs = @ \o segments]
    /\ peer' = next
    /\ UNCHANGED <<owner, sock, loop, tcp, pair>>

PeerSends ==
    /\ tcp.status = "OPEN" /\ ~peer.fin /\ peer.sent < PeerLen
    /\ peer.sent - tcp.inbound.bytes_readed < Capacity
    /\ PeerAct(<<Segment("data", peer.sent + 1)>>, [peer EXCEPT !.sent = @ + 1])

PeerFinishes ==
    /\ tcp.status = "OPEN" /\ ~peer.fin
    /\ PeerAct(<<Segment("fin", 0)>>, [peer EXCEPT !.fin = TRUE])

PeerResets ==
    /\ tcp.status # "LISTEN"
    /\ PeerAct(<<Segment("rst", 0)>>, [peer EXCEPT !.silent = TRUE])

PeerFallsSilent == PeerAct(<<>>, [peer EXCEPT !.silent = TRUE])

Peer == PeerReceives \/ PeerSends \/ PeerFinishes \/ PeerResets \/ PeerFallsSilent

Next == Thread \/ GiveUp \/ LingerOver \/ Owner \/ Peer

(* Both threads run; a peer that is not silent receives and finishes; time  *)
(* passes, so what stays unanswered is given up and lingering ends.         *)
FairSpec ==
    /\ Init /\ [][Next]_vars
    /\ WF_vars(Thread) /\ WF_vars(Join)
    /\ SF_vars(GiveUp) /\ SF_vars(LingerOver)
    /\ WF_vars(PeerReceives) /\ WF_vars(PeerFinishes)
-----------------------------------------------------------------------------
(* An owner that reads the end of its input has read every byte the peer    *)
(* sent before it finished, unless the connection was reset or given up:    *)
(* the thread never shuts the socket pair down ahead of the bytes.          *)
EofIsHonest ==
    owner.eof => tcp.rst \/ (peer.fin /\ owner.read = peer.sent)

(* When wait_until_closed returns and the connection was not reset, the     *)
(* peer has received every byte the owner wrote, and the end.               *)
ClosedMeansDelivered ==
    owner.at = "closed" => tcp.rst \/ (peer.got = owner.wrote /\ peer.got_fin)

(* The thread neither throws nor dies, unless the connection was reset or   *)
(* the owner closed the socket before it had reached the end of its input.  *)
ThreadSurvives ==
    ~Alive => tcp.rst \/ (owner.at = "closing" /\ ~owner.eof)

(* The destructor returns, whatever the peer does: _abort ends the thread.  *)
DestructorReturns == owner.at = "destructing" ~> owner.at = "destructed" \/ ~Alive


(* A connection that is open when its socket is destructed is terminated    *)
(* with a reset that reaches a peer who still listens.                      *)
ResetOnDestruct == tcp.status = "CUT" ~> peer.got_rst \/ peer.silent
=============================================================================
