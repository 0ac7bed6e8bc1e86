------------------------- MODULE ReassemblerMachine -------------------------
(***************************************************************************)
(* One StreamReassembler, fed with excerpts of a logical stream, and the   *)
(* application that reads its output.  Byte i of the stream is the number  *)
(* i, so that a byte delivered at the wrong place is visible.              *)
(***************************************************************************)
EXTENDS StreamReassembler

CONSTANTS Capacity,   \* _capacity
          StreamLen,  \* length of the logical stream
          MaxUnass    \* bound: _bytes_unass, which may grow for ever

ASSUME ReassemblerAssumption ==
    /\ Capacity \in Nat \ {0}
    /\ StreamLen \in Nat /\ MaxUnass \in Nat

VARIABLE ra    \* the StreamReassembler

Excerpt(index, len) == [k \in 1 .. len |-> index + k - 1]

Init == ra = NewReassembler(Capacity)

Push(index, len) ==
    /\ ra' = push_substring(ra, Excerpt(index, len), index,
                            index + len = StreamLen)
    /\ ra'.bytes_unass <= MaxUnass

Read(len) ==
    /\ len <= buffer_size(ra.output)
    /\ ra' = [ra EXCEPT !.output = pop_output(@, len)]

(* The copy of an excerpt is not both cut to the window and wrapped around *)
(* the ring, and the end of the stream comes with its last byte, or by     *)
(* itself once all bytes are out.  Segments with fixed boundaries that     *)
(* keep to the window are never cut.                                       *)
Manageable(index, len) ==
    LET first == Greatest(index, ra.start_aux)
        last  == Least(index + len, ra.start_aux + Capacity)
    IN  /\ \/ first = index /\ last = index + len
           \/ last <= first
           \/ (first % Capacity) + (last - first) <= Capacity
        /\ len = 0 => ra.start_aux = StreamLen

Next ==
    \/ \E index \in 0 .. StreamLen : \E len \in 0 .. StreamLen - index :
            Manageable(index, len) /\ Push(index, len)
    \/ \E len \in 1 .. Capacity : Read(len)

Spec == Init /\ [][Next]_ra

(* Any excerpts at all, "possibly out of order, possibly overlapping"      *)
(* (stream_reassembler.hh).                                                *)
NextAny ==
    \/ \E index \in 0 .. StreamLen : \E len \in 0 .. StreamLen - index :
            Push(index, len)
    \/ \E len \in 1 .. Capacity : Read(len)

SpecAny == Init /\ [][NextAny]_ra
-----------------------------------------------------------------------------
Slots == 0 .. Capacity - 1

(* The output is the logical stream from its beginning, in order, with no  *)
(* byte missing, repeated or overwritten on its way through the ring       *)
(* (write_to_aux, write_to_bytestream): what waits for the reader is the   *)
(* stretch between what was read and the first byte still expected.  It is *)
(* ended only when the whole stream has been written: a reader never takes *)
(* a truncated stream for a complete one.                                  *)
InOrderOutput ==
    LET b == ra.output
    IN  /\ b.bytes_wrote = ra.start_aux
        /\ b.bytes_readed + buffer_size(b) = b.bytes_wrote
        /\ \A k \in 1 .. buffer_size(b) : b.deq[k] = b.bytes_readed + k - 1
        /\ input_ended(b) => b.bytes_wrote = StreamLen

(* A filled slot holds the byte of the one stream index of the window that *)
(* maps to it, however the copies of write_to_aux wrapped.                  *)
RingCoherent ==
    \A p \in ra.start_aux .. ra.start_aux + Capacity - 1 :
        ~ra.empty[p % Capacity] => ra.aux[p % Capacity] = p

(* unassembled_bytes() counts every stored byte once                       *)
(* (stream_reassembler.hh:49-52).                                          *)
UnassembledCount ==
    unassembled_bytes(ra) = Cardinality({i \in Slots : ~ra.empty[i]})
=============================================================================
