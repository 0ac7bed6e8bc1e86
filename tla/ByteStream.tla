----------------------------- MODULE ByteStream -----------------------------
(***************************************************************************)
(* The in-memory byte stream of libsponge/byte_stream.cc: a bounded queue  *)
(* with a writer that may end it and a reader.  An object is a record and  *)
(* a method is an operator on it, so that the components that own a        *)
(* ByteStream can call several methods within one of their own steps.      *)
(*                                                                         *)
(* Here and in the other modules a definition marked "mutant" is the one   *)
(* below it with a plausible bug: no definition uses it, and a property    *)
(* that is worth checking fails when it takes the place of the original.   *)
(***************************************************************************)
EXTENDS Integers, Sequences

Least(a, b)    == IF a <= b THEN a ELSE b
Greatest(a, b) == IF a >= b THEN a ELSE b

NewByteStream(capacity) ==
    [cap |-> capacity, deq |-> <<>>, bytes_wrote |-> 0, bytes_readed |-> 0,
     end |-> FALSE, error |-> FALSE]

buffer_size(b)        == Len(b.deq)
buffer_empty(b)       == Len(b.deq) = 0
remaining_capacity(b) == b.cap - Len(b.deq)
input_ended(b)        == b.end
eof_unread(b)         == input_ended(b)                          \* mutant
eof(b)                == buffer_empty(b) /\ input_ended(b)

(* How many bytes of data a write accepts: what fits, whether or not the   *)
(* input was ended.                                                        *)
Accepted(b, data) == Least(Len(data), remaining_capacity(b))

write(b, data) ==
    LET size == Accepted(b, data)
    IN  [b EXCEPT !.bytes_wrote = @ + size,
                  !.deq = @ \o SubSeq(data, 1, size)]

peek_output(b, len) == SubSeq(b.deq, 1, Least(len, Len(b.deq)))

pop_output(b, len) ==
    LET size == Least(len, Len(b.deq))
    IN  [b EXCEPT !.deq = SubSeq(@, size + 1, Len(@)),
                  !.bytes_readed = @ + size]

end_input(b) == [b EXCEPT !.end = TRUE]
set_error(b) == [b EXCEPT !.error = TRUE]
=============================================================================
