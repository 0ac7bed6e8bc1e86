----------------------------- MODULE SeqnoMachine -----------------------------
(***************************************************************************)
(* The conversions between absolute and wrapped sequence numbers over the  *)
(* life of a connection: an initial sequence number is chosen once, and    *)
(* the checkpoint that unwrap() is given, the number of stream bytes seen, *)
(* moves up from 0.                                                        *)
(***************************************************************************)
EXTENDS WrappingIntegers

CONSTANT MaxCheckpoint   \* bound: the last checkpoint

ASSUME CheckpointAssumption ==
    MaxCheckpoint \in Nat /\ MaxCheckpoint + 2 * U32 < U64

VARIABLES isn, checkpoint

vars == <<isn, checkpoint>>

Init == isn \in Raw /\ checkpoint = 0

Advance ==
    /\ checkpoint < MaxCheckpoint
    /\ checkpoint' = checkpoint + 1
    /\ UNCHANGED isn

(* The next connection chooses its initial sequence number afresh.         *)
Reconnect == isn' \in Raw /\ checkpoint' = 0

Next == Advance \/ Reconnect

Spec == Init /\ [][Next]_vars
-----------------------------------------------------------------------------
Near(a, b) == a - b < U32 \div 2 /\ b - a < U32 \div 2

(* A receiver gets back the absolute number a sender wrapped, as long as   *)
(* the two are less than half a cycle apart: every byte and FIN of the     *)
(* stream lands where it belongs, across any number of wraparounds of      *)
(* either number.  (The absolute number 0 belongs to the SYN alone.)  And  *)
(* unwrap() never invents a number: its result always wraps to n again.    *)
RoundTrip ==
    /\ \A x \in 1 .. checkpoint + U32 :
        Near(x, checkpoint) => unwrap(wrap(x, isn), isn, checkpoint) = x
    /\ \A n \in Raw : wrap(unwrap(n, isn, checkpoint), isn) = n
=============================================================================
