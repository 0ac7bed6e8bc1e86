------------------------------ MODULE StreamCopy ------------------------------
(***************************************************************************)
(* bidirectional_stream_copy (apps/bidirectional_stream_copy.cc): four     *)
(* rules of an event loop copy standard input to the TCP socket and the    *)
(* socket to standard output.  Around it are the program that writes       *)
(* standard input, the one that reads standard output, and the TCP thread  *)
(* at the other end of the socket pair, which shuts the socket down when   *)
(* the connection is over.                                                 *)
(*                                                                         *)
(* The bytes of each stream are numbered from 1.                           *)
(***************************************************************************)
EXTENDS ByteStream, EventLoop

CONSTANTS max_copy_length, \* bytes written at once: 65536 in the code
          buffer_size_max, \* buffer_size, 1048576 in the code
          KernelRoom,      \* bytes a pipe or socket of the kernel holds
          InputLength,     \* bound: bytes of standard input
          PeerLength       \* bound: bytes the peer sends

ASSUME CopyAssumption ==
    /\ {max_copy_length, buffer_size_max, KernelRoom} \subseteq Nat \ {0}
    /\ {InputLength, PeerLength} \subseteq Nat

VARIABLES loop,   \* the event loop
          app,    \* the local variables of bidirectional_stream_copy
          chan,   \* what the kernel holds: input, output, and both ways of the socket
          world   \* the kind of standard input, and whether the connection was reset

vars == <<loop, app, chan, world>>

Rule == 1 .. 4
Fd == <<"input", "socket", "socket", "output">>
Direction == <<"In", "Out", "In", "Out">>
Stream == <<"outbound", "outbound", "inbound", "inbound">>
Channel == <<"input", "toTcp", "toOwner", "output">>

Init ==
    /\ loop = EventLoop(Rule)
    /\ app = [outbound |-> NewByteStream(buffer_size_max),
              inbound |-> NewByteStream(buffer_size_max),
              shutdown |-> [s \in {"outbound", "inbound"} |-> FALSE],
              fd |-> [f \in {"input", "socket", "output"} |-> FileDescriptor]]
    /\ chan = [c \in {"input", "toTcp", "toOwner", "output"} |->
                  [buf |-> <<>>, ended |-> FALSE, broken |-> FALSE, made |-> 0, taken |-> 0]]
    /\ world \in [input : {"pipe", "terminal"}, reset : {FALSE}]
-----------------------------------------------------------------------------
(* The two streams of the application are fields of app under their names.  *)
Into(a, s, b) == IF s = "outbound" THEN [a EXCEPT !.outbound = b] ELSE [a EXCEPT !.inbound = b]
Of(a, s) == IF s = "outbound" THEN a.outbound ELSE a.inbound

interest_shutdownForgotten(a, n) ==                              \* mutant
    LET s == Of(a, Stream[n])
    IN  IF Direction[n] = "In"
        THEN ~a.outbound.error /\ remaining_capacity(s) > 0 /\ ~a.inbound.error
        ELSE ~buffer_empty(s)
interest(a, n) ==
    LET s == Of(a, Stream[n])
    IN  IF Direction[n] = "In"
        THEN ~a.outbound.error /\ remaining_capacity(s) > 0 /\ ~a.inbound.error
        ELSE ~buffer_empty(s) \/ (eof(s) /\ ~a.shutdown[Stream[n]])

(* The four rules cancel alike.                                             *)
cancel(a, n) == Into(a, Stream[n], end_input(Of(a, Stream[n])))

(* What poll(2) finds: a pipe whose writer is gone hangs up, a terminal is  *)
(* readable at its end; a pipe without reader is an error; a socket hangs   *)
(* up when both of its directions are shut down.                            *)
Available(f) ==
    LET In(c, always) == IF chan[c].buf # <<>> \/ (always /\ chan[c].ended) THEN {"In"} ELSE {}
        Out(c) == IF Len(chan[c].buf) < KernelRoom THEN {"Out"} ELSE {}
        If(condition, event) == IF condition THEN {event} ELSE {}
    IN  CASE f = "input" -> In("input", world.input = "terminal")
                              \cup If(chan["input"].ended /\ world.input = "pipe", "HUP")
          [] f = "output" -> Out("output") \cup If(chan["output"].broken, "ERR")
          [] f = "socket" -> In("toOwner", TRUE) \cup Out("toTcp")
                              \cup If(chan["toOwner"].ended /\ chan["toTcp"].ended, "HUP")

(* The first part of wait_next_event: a rule is cancelled or asked.         *)
SetUpRule(x, n) ==
    IF n \notin x.loop.rules THEN x
    ELSE IF Defunct(x.app.fd[Fd[n]], Direction[n])
    THEN [app |-> cancel(x.app, n), loop |-> [x.loop EXCEPT !.rules = @ \ {n}]]
    ELSE [x EXCEPT !.loop.events[n] = IF interest(x.app, n) THEN {Direction[n]} ELSE {}]

Polled(l) ==
    [l EXCEPT !.revents = [n \in Rule |-> Reported(Available(Fd[n]), l.events[n])]]

(* Up to the return of poll, which waits without a timeout.                 *)
Awaited(x, polled) ==
    /\ app' = x.app
    /\ IF SomethingToPoll(x.loop)
       THEN /\ Pending(polled) # {}
            /\ loop' = [polled EXCEPT !.phase = "serve"]
       ELSE loop' = Returned(x.loop, "exit")

wait_next_event ==
    /\ loop.phase = "idle"
    /\ UNCHANGED <<chan, world>>
    /\ \E x1 \in {SetUpRule([app |-> app, loop |-> loop], 1)} :
       \E x2 \in {SetUpRule(x1, 2)} : \E x3 \in {SetUpRule(x2, 3)} :
       \E x4 \in {SetUpRule(x3, 4)} : \E polled \in {Polled(x4.loop)} : Awaited(x4, polled)

(* A result without a callback: an error, a hangup, or a hangup of a handle *)
(* that nothing was asked of.                                               *)
NoCallback(n) ==
    /\ Turn(loop, n)
    /\ poll_error(loop, n) \/ ~poll_ready(loop, n)
    /\ IF poll_error(loop, n) THEN loop' = Thrown(loop) /\ UNCHANGED app
       ELSE IF poll_hup(loop, n) THEN loop' = Erased(loop, n) /\ app' = cancel(app, n)
       ELSE loop' = Served(loop, n) /\ UNCHANGED app
    /\ UNCHANGED chan

Callback(n) == Turn(loop, n) /\ ~poll_error(loop, n) /\ poll_ready(loop, n)

(* The callback left a; its counters start again.                           *)
Return(n, a) ==
    /\ loop' = Checked(loop, n, a.fd[Fd[n]], Direction[n], interest(a, n))
    /\ app' = [a EXCEPT !.fd[Fd[n]].read_count = 0, !.fd[Fd[n]].write_count = 0]

(* A system call that fails throws; EPIPE raises a signal that ends the     *)
(* process.                                                                 *)
Fail(failure) ==
    /\ loop' = [loop EXCEPT !.phase = failure]
    /\ UNCHANGED <<app, chan>>

(* Rules 1 and 3: read k bytes into the stream.                             *)
WithRead(a, n, bytes) ==
    LET fd == FileDescriptor_read(a.fd[Fd[n]], remaining_capacity(Of(a, Stream[n])), bytes)
        s == write(Of(a, Stream[n]), bytes)
    IN  [Into(a, Stream[n], IF fd.eof THEN end_input(s) ELSE s) EXCEPT !.fd[Fd[n]] = fd]

ReadInto(n, k) ==
    /\ Callback(n) /\ Direction[n] = "In"
    /\ LET c == chan[Channel[n]]
           room == Least(Len(c.buf), remaining_capacity(Of(app, Stream[n])))
       IN  IF c.buf = <<>> /\ ~c.ended THEN k = 0 /\ Fail("thrown")
           ELSE /\ k \in (IF room = 0 THEN {0} ELSE 1 .. room)
                /\ Return(n, WithRead(app, n, SubSeq(c.buf, 1, k)))
                /\ chan' = [chan EXCEPT ![Channel[n]].buf = SubSeq(@, k + 1, Len(@)),
                                        ![Channel[n]].taken = @ + k]

(* Rules 2 and 4: write k bytes from the stream; at its end shut down the   *)
(* socket or close standard output.                                         *)
WithWrite_popsAll(a, n, k) ==                                    \* mutant
    [Into(a, Stream[n], pop_output(Of(a, Stream[n]), max_copy_length))
        EXCEPT !.fd[Fd[n]] = register_write(@)]
WithWrite(a, n, k) ==
    [Into(a, Stream[n], pop_output(Of(a, Stream[n]), k)) EXCEPT !.fd[Fd[n]] = register_write(@)]

Ended_unmarked(a, n) ==                                           \* mutant
    [a EXCEPT !.fd[Fd[n]] = IF n = 2 THEN Socket_shutdown(@, "SHUT_WR")
                            ELSE FileDescriptor_close(@)]
Ended(a, n) ==
    [a EXCEPT !.shutdown[Stream[n]] = TRUE,
              !.fd[Fd[n]] = IF n = 2 THEN Socket_shutdown(@, "SHUT_WR")
                            ELSE FileDescriptor_close(@)]

WriteFrom(n, k) ==
    /\ Callback(n) /\ Direction[n] = "Out"
    /\ LET c == chan[Channel[n]]
           s == Of(app, Stream[n])
           bytes_to_write == Least(max_copy_length, buffer_size(s))
           room == Least(bytes_to_write, KernelRoom - Len(c.buf))
           a == WithWrite(app, n, k)
       IN  IF bytes_to_write > 0 /\ c.broken THEN k = 0 /\ Fail("killed")
           ELSE IF bytes_to_write > 0 /\ room = 0 THEN k = 0 /\ Fail("thrown")
           ELSE /\ k \in (IF room = 0 THEN {0} ELSE 1 .. room)
                /\ Return(n, IF eof(Of(a, Stream[n])) THEN Ended(a, n) ELSE a)
                /\ chan' = [chan EXCEPT ![Channel[n]].buf = @ \o peek_output(s, k),
                                        ![Channel[n]].made = @ + k,
                                        ![Channel[n]].ended = @ \/ eof(Of(a, Stream[n]))]

Loop ==
    \/ wait_next_event
    \/ /\ loop.phase = "serve" /\ UNCHANGED world
       /\ \E n \in Rule : \/ NoCallback(n)
                          \/ \E k \in 0 .. max_copy_length : ReadInto(n, k) \/ WriteFrom(n, k)
-----------------------------------------------------------------------------
(* Standard input is written and closed; the TCP thread passes on what the  *)
(* peer sent, and the end of it.                                            *)
Produce(c) ==
    /\ chan[c].made < (IF c = "input" THEN InputLength ELSE PeerLength)
    /\ ~chan[c].ended /\ Len(chan[c].buf) < KernelRoom
    /\ chan' = [chan EXCEPT ![c].buf = Append(@, chan[c].made + 1), ![c].made = @ + 1]
    /\ UNCHANGED <<loop, app, world>>

Finish(c) ==
    /\ ~chan[c].ended
    /\ chan' = [chan EXCEPT ![c].ended = TRUE]
    /\ UNCHANGED <<loop, app, world>>

(* Standard output is read; the TCP thread takes what is to be sent, unless *)
(* the connection was reset.                                                *)
Consume(c) ==
    /\ chan[c].buf # <<>>
    /\ ~chan[c].broken
    /\ c = "toTcp" => ~world.reset
    /\ chan' = [chan EXCEPT ![c].buf = Tail(@), ![c].taken = @ + 1]
    /\ UNCHANGED <<loop, app, world>>

Undisturbed == ~world.reset /\ ~chan["output"].broken

(* The peer resets the connection, or the program that reads standard       *)
(* output goes away; the model has at most one of the two.                  *)
Reset ==
    /\ Undisturbed /\ ~chan["toTcp"].broken
    /\ world' = [world EXCEPT !.reset = TRUE]
    /\ chan' = [chan EXCEPT !["toOwner"].ended = TRUE]
    /\ UNCHANGED <<loop, app>>

(* The TCP thread ends with shutdown(SHUT_RDWR): after a reset, or when     *)
(* both streams are finished.                                               *)
HangUp ==
    /\ ~chan["toTcp"].broken
    /\ \/ world.reset
       \/ chan["toOwner"].ended /\ chan["toTcp"].ended /\ chan["toTcp"].buf = <<>>
    /\ chan' = [chan EXCEPT !["toTcp"].ended = TRUE, !["toTcp"].broken = TRUE,
                            !["toOwner"].ended = TRUE]
    /\ UNCHANGED <<loop, app, world>>

Leave ==
    /\ Undisturbed
    /\ chan' = [chan EXCEPT !["output"].broken = TRUE]
    /\ UNCHANGED <<loop, app, world>>

Next ==
    \/ Loop
    \/ Reset \/ HangUp \/ Leave
    \/ \E c \in {"input", "toOwner"} : Produce(c) \/ Finish(c)
    \/ \E c \in {"toTcp", "output"} : Consume(c)

(* The thread runs its loop; both writers finish some day; what is written  *)
(* is read.                                                                 *)
FairSpec ==
    /\ Init /\ [][Next]_vars
    /\ WF_vars(Loop) /\ WF_vars(HangUp)
    /\ \A c \in {"input", "toOwner"} : WF_vars(Finish(c))
    /\ \A c \in {"toTcp", "output"} : WF_vars(Consume(c))
-----------------------------------------------------------------------------
Numbers(first, last) == [k \in 1 .. last - first |-> first + k]

(* No byte is lost, doubled or put out of order on its way, although reads  *)
(* are short and writes are partial: what the far end has not taken yet of  *)
(* what was put in at this end is in the kernel and in the stream between.  *)
NothingLost ==
    /\ chan["toTcp"].buf \o app.outbound.deq \o chan["input"].buf
            = Numbers(chan["toTcp"].taken, chan["input"].made)
    /\ chan["output"].buf \o app.inbound.deq \o chan["toOwner"].buf
            = Numbers(chan["output"].taken, chan["toOwner"].made)

(* The loop exits only when both copies are complete: both sources ended,   *)
(* nothing is left in the streams, the socket was shut down for writing and *)
(* standard output was closed.                                              *)
ExitMeansCopied ==
    (loop.phase = "exit" /\ Undisturbed) =>
        /\ \A c \in {"input", "toOwner"} : chan[c].ended /\ chan[c].buf = <<>>
        /\ eof(app.outbound) /\ eof(app.inbound)
        /\ chan["toTcp"].ended /\ chan["output"].ended

(* Neither a busy wait nor a failed system call ends the copy, unless the   *)
(* connection was reset or the reader of standard output is gone.           *)
NoSpuriousAbort == loop.phase \in {"thrown", "killed"} => ~Undisturbed

(* The copy comes to its end.                                               *)
CopyEnds == <>(loop.phase = "exit" \/ ~Undisturbed)
=============================================================================
