-------------------------- MODULE StreamReassembler --------------------------
(***************************************************************************)
(* The reassembler of libsponge/stream_reassembler.cc: a ring of _capacity *)
(* slots (_aux, with _empty telling which slots hold a byte) in front of   *)
(* the output ByteStream.  Slot s holds the byte whose stream index is the *)
(* one congruent to s in _start_aux .. _start_aux + _capacity - 1.         *)
(***************************************************************************)
EXTENDS ByteStream, FiniteSets

Blank == -1    \* the ' ' that fills _aux at construction
NoEnd == -1    \* _end_stream{-1}: no index of a stream is SIZE_MAX

NewReassembler(capacity) ==
    [cap |-> capacity, output |-> NewByteStream(capacity),
     aux |-> [i \in 0 .. capacity - 1 |-> Blank],
     empty |-> [i \in 0 .. capacity - 1 |-> TRUE],
     start_aux |-> 0, bytes_unass |-> 0, end_stream |-> NoEnd]

(* The slots a copy of size bytes starting at slot loc covers.             *)
Covered_offByOne(capacity, loc, size) ==                         \* mutant
    {i \in 0 .. capacity - 1 : loc <= i /\ i <= loc + size}
Covered(capacity, loc, size) ==
    {i \in 0 .. capacity - 1 : \/ loc <= i /\ i < loc + size
                               \/ i < loc + size - capacity}

(* _aux after copying.  Where the copy wraps, the second replace() takes   *)
(* data.substr(size_right, size) - an offset that leaves loc_data out and  *)
(* a length that may exceed size_left - so it inserts what it has beyond   *)
(* size_left and shifts the rest of the string to the right.  The string   *)
(* only ever grows and is never read at or past _capacity: what is shifted *)
(* past it is dropped here.                                                *)
CopyToAux(r, data, loc_aux, loc_data, size) ==
    IF loc_aux + size <= r.cap
    THEN [i \in 0 .. r.cap - 1 |->
            IF loc_aux <= i /\ i < loc_aux + size
            THEN data[loc_data + (i - loc_aux) + 1] ELSE r.aux[i]]
    ELSE LET size_left  == loc_aux + size - r.cap
             size_right == r.cap - loc_aux
             inserted   == Least(size, Len(data) - size_right)
             right      == [i \in 0 .. r.cap - 1 |->
                              IF i >= loc_aux
                              THEN data[loc_data + (i - loc_aux) + 1]
                              ELSE r.aux[i]]
         IN  [i \in 0 .. r.cap - 1 |->
                IF i < inserted THEN data[size_right + i + 1]
                ELSE right[i - inserted + size_left]]

(* data.size() == 0 with eof ends the output there and then, whatever is   *)
(* still missing.                                                          *)
write_to_aux(r, data, start_data, eof_flag) ==
    LET end_aux    == r.start_aux + r.cap
        end_data   == start_data + Len(data)
        start_copy == Greatest(r.start_aux, start_data)
        size       == Least(end_aux, end_data) - start_copy
        loc_data   == start_copy - start_data
        loc_aux    == start_copy % r.cap
        covered    == Covered(r.cap, loc_aux, size)
    IN  IF Len(data) = 0
        THEN [r EXCEPT !.output = IF eof_flag THEN end_input(@) ELSE @]
        ELSE IF start_data > end_aux \/ end_data < r.start_aux
        THEN r
        ELSE [r EXCEPT
                !.aux         = CopyToAux(r, data, loc_aux, loc_data, size),
                !.bytes_unass = @ + Cardinality({i \in covered : r.empty[i]}),
                !.empty       = [i \in 0 .. r.cap - 1 |->
                                    r.empty[i] /\ i \notin covered],
                !.end_stream  = IF eof_flag THEN end_data ELSE @]

(* find(_empty.begin() + a, _empty.begin() + b, true): where the run of    *)
(* filled slots that starts at a stops.                                    *)
RunEnd_overHoles(empty, a, b) == b                               \* mutant
RunEnd(empty, a, b) ==
    CHOOSE e \in a .. b : /\ \A i \in a .. e - 1 : ~empty[i]
                          /\ e = b \/ empty[e]

(* _aux.substr(a, e - a)                                                    *)
Slice(aux, a, e) == [i \in 1 .. e - a |-> aux[a + i - 1]]

(* The run up to the end of the ring, then - when it reaches that end - the *)
(* run from slot 0.  The last fill() empties every slot before start.       *)
write_to_bytestream(r) ==
    LET start  == r.start_aux % r.cap
        e1     == RunEnd(r.empty, start, r.cap)
        out1   == write(r.output, Slice(r.aux, start, e1))
        wrote1 == Accepted(r.output, Slice(r.aux, start, e1))
        e2     == RunEnd(r.empty, 0, start)
        out2   == write(out1, Slice(r.aux, 0, e2))
        wrote2 == Accepted(out1, Slice(r.aux, 0, e2))
        first  == [r EXCEPT
                     !.output      = out1,
                     !.empty       = [i \in 0 .. r.cap - 1 |->
                                        \/ r.empty[i]
                                        \/ start <= i /\ i < start + wrote1],
                     !.start_aux   = @ + wrote1,
                     !.bytes_unass = @ - wrote1]
    IN  IF e1 < r.cap
        THEN first
        ELSE [first EXCEPT
                !.output      = out2,
                !.empty       = [i \in 0 .. r.cap - 1 |->
                                    first.empty[i] \/ i < start],
                !.start_aux   = @ + wrote2,
                !.bytes_unass = @ - wrote2]

push_substring(r, data, index, eof_flag) ==
    LET pushed == write_to_bytestream(write_to_aux(r, data, index, eof_flag))
    IN  [pushed EXCEPT !.output = IF pushed.start_aux = pushed.end_stream
                                  THEN end_input(@) ELSE @]

unassembled_bytes(r) == r.bytes_unass
=============================================================================
