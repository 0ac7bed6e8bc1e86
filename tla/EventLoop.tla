------------------------------ MODULE EventLoop ------------------------------
(***************************************************************************)
(* The event loop (libsponge/util/eventloop.cc) and the handles it polls   *)
(* (libsponge/util/file_descriptor.cc, the shutdown of socket.cc), as      *)
(* operators for the modules that have one.                                *)
(*                                                                         *)
(* A rule is a number: Fd[n] names its handle and Direction[n] is "In" or  *)
(* "Out".  A loop is a record: the rules left, the events polled for each, *)
(* the results of poll not gone through yet, and a phase.  The counters of *)
(* a handle are only compared before and after a callback, so they count   *)
(* from the last one.                                                      *)
(***************************************************************************)
EXTENDS Integers, FiniteSets, SequencesExt

FileDescriptor == [eof |-> FALSE, closed |-> FALSE, read_count |-> 0, write_count |-> 0]

register_read_forgotten(fd) == fd                                 \* mutant
register_read(fd)  == [fd EXCEPT !.read_count = @ + 1]
register_write(fd) == [fd EXCEPT !.write_count = @ + 1]

(* A read of at most limit bytes that returned some bytes.                  *)
FileDescriptor_read(fd, limit, bytes) ==
    register_read([fd EXCEPT !.eof = @ \/ (limit > 0 /\ bytes = <<>>)])

FileDescriptor_close(fd) == [fd EXCEPT !.eof = TRUE, !.closed = TRUE]

Socket_shutdown(fd, how) ==
    IF how = "SHUT_WR" THEN register_write(fd)
    ELSE IF how = "SHUT_RD" THEN register_read(fd)
    ELSE register_write(register_read(fd))

service_count(fd, direction) == IF direction = "In" THEN fd.read_count ELSE fd.write_count

EventLoop(rules) ==
    [phase |-> "idle", rules |-> rules,
     events |-> [n \in rules |-> {}], revents |-> [n \in rules |-> {}]]

(* A rule whose handle is of no more use.                                   *)
Defunct(fd, direction) == (direction = "In" /\ fd.eof) \/ fd.closed

(* What poll reports of a handle: hangups and errors also when nothing was  *)
(* asked for.                                                               *)
Reported(available, events) == available \cap (events \cup {"HUP", "ERR"})

SomethingToPoll(l) == \E n \in l.rules : l.events[n] # {}

(* The rules whose results were not gone through, and the first of them.    *)
Pending(l) == {n \in l.rules : l.revents[n] # {}}
Turn(l, n) == l.phase = "serve" /\ n \in Pending(l) /\ \A m \in Pending(l) : n <= m

poll_error(l, n) == "ERR" \in l.revents[n]
poll_ready(l, n) == l.revents[n] \cap l.events[n] # {}
poll_hup(l, n)   == "HUP" \in l.revents[n] /\ l.events[n] # {} /\ ~poll_ready(l, n)

(* wait_next_event returns, and the results are gone.                       *)
Returned(l, phase) ==
    [l EXCEPT !.phase = phase, !.events = [n \in DOMAIN @ |-> {}],
              !.revents = [n \in DOMAIN @ |-> {}]]

(* The loop after the result of rule n was dealt with.                      *)
Served(l, n) ==
    IF Pending(l) \subseteq {n} THEN Returned(l, "idle") ELSE [l EXCEPT !.revents[n] = {}]

Erased(l, n) == [Served(l, n) EXCEPT !.rules = @ \ {n}]
Thrown(l) == [l EXCEPT !.phase = "thrown"]

(* After a callback left handle fd as it is now and the rule interested or  *)
(* not: the check for a busy wait.                                          *)
Checked(l, n, fd, direction, interested) ==
    IF service_count(fd, direction) = 0 /\ interested THEN Thrown(l) ELSE Served(l, n)
=============================================================================
