-------------------------- MODULE WrappingIntegers --------------------------
(***************************************************************************)
(* 32-bit sequence numbers and their 64-bit absolute counterparts          *)
(* (libsponge/wrapping_integers.cc).  The two moduli are constants, so that *)
(* the model checker can go through every value of a narrow machine while  *)
(* the theorems speak of 2^32 and 2^64 among all other widths.             *)
(***************************************************************************)
EXTENDS Integers

CONSTANTS U32,  \* number of values of a uint32_t: 2^32 in the code
          U64   \* number of values of a uint64_t: 2^64 in the code

ASSUME WidthAssumption ==
    /\ U32 \in Nat /\ U64 \in Nat
    /\ U32 >= 4 /\ U32 % 2 = 0
    /\ U64 % U32 = 0 /\ U64 >= 4 * U32

Raw == 0 .. U32 - 1
Abs == 0 .. U64 - 1

(* Sum and difference of two uint64_t.                                     *)
Add64(a, b) == IF a + b < U64 THEN a + b ELSE a + b - U64
Sub64(a, b) == IF a >= b THEN a - b ELSE a - b + U64

(* WrappingInt32{raw} +/- a small integer.                                  *)
RawMinus(raw, k) == (raw - k) % U32

wrap(n, isn) == (n + isn) % U32

(* The search of the code: the candidate in the 2^32-cycle of the          *)
(* checkpoint, moved one cycle down or up when it is more than half a      *)
(* cycle away.  Its inner names are the local variables of the code.       *)
unwrap_sameCycle(n, isn, checkpoint) ==                          \* mutant
    Sub64(Add64(n, (Add64(checkpoint, isn) \div U32) * U32), isn)
unwrap(n, isn, checkpoint) ==
    LET e31  == U32 \div 2
        mid  == Add64(checkpoint, isn)
        low  == IF e31 >= mid THEN 0 ELSE mid - e31 - 1
        high == IF e31 >= mid THEN U32 - 2 ELSE Add64(mid, e31 - 1)
        cand == Add64(n, (mid \div U32) * U32)
    IN  IF cand > low
        THEN IF cand > Add64(high, 1)
             THEN Sub64(Sub64(cand, U32), isn)
             ELSE IF isn > cand
                  THEN Sub64(Add64(cand, U32), isn)
                  ELSE Sub64(cand, isn)
        ELSE Sub64(Add64(cand, U32), isn)
=============================================================================
