------------------------------- MODULE BytePipe -------------------------------
(***************************************************************************)
(* What one direction of a connection promises its two applications: a     *)
(* queue.  The writer appends bytes, the network moves bytes from the      *)
(* front of what was written to the end of what is ready, the reader takes *)
(* bytes from the front of what is ready.  Nothing else ever happens to a  *)
(* byte.                                                                   *)
(***************************************************************************)
EXTENDS Naturals, Sequences

CONSTANTS Byte,      \* the bytes
          Capacity   \* how many bytes may wait for the reader

VARIABLES sent,      \* accepted from the writer, not yet ready at the reader
          ready      \* waiting for the reader

Init == sent = <<>> /\ ready = <<>>

Put ==
    /\ sent' \in Seq(Byte)
    /\ Len(sent) < Len(sent') /\ SubSeq(sent', 1, Len(sent)) = sent
    /\ UNCHANGED ready

Move ==
    \E n \in 1 .. Len(sent) :
        /\ Len(ready) + n <= Capacity
        /\ ready' = ready \o SubSeq(sent, 1, n)
        /\ sent' = SubSeq(sent, n + 1, Len(sent))

Take ==
    /\ \E n \in 1 .. Len(ready) : ready' = SubSeq(ready, n + 1, Len(ready))
    /\ UNCHANGED sent

Next == Put \/ Move \/ Take

Spec == Init /\ [][Next]_<<sent, ready>>
=============================================================================
