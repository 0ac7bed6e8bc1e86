----------------------------- MODULE SeqnoProofs -----------------------------
(***************************************************************************)
(* unwrap() is the inverse of wrap() near the checkpoint, for every width  *)
(* of the two integers, in particular for 2^32 and 2^64.                   *)
(*                                                                         *)
(* Both divide by the smaller modulus.  The products of the quotients are  *)
(* kept as numbers of their own, Q and S, about which Apart says the only  *)
(* thing needed: they are equal or at least a cycle apart.  What remains   *)
(* is linear arithmetic over the branches of the code.                     *)
(***************************************************************************)
EXTENDS SeqnoMachine, TLAPS

LEMMA Division ==
    ASSUME NEW a \in Nat
    PROVE  /\ a \div U32 \in Nat /\ a % U32 \in Raw
           /\ a = (a \div U32) * U32 + (a % U32)
BY WidthAssumption DEF Raw

LEMMA Apart ==
    ASSUME NEW p \in Nat, NEW q \in Nat, p < q
    PROVE  p * U32 + U32 <= q * U32
<1>1. (q - p - 1) * U32 >= 0
  BY WidthAssumption
<1>2. (q - p - 1) * U32 = q * U32 - p * U32 - U32
  BY WidthAssumption
<1>3. q * U32 \in Nat /\ p * U32 \in Nat
  BY WidthAssumption
<1> QED BY <1>1, <1>2, <1>3, WidthAssumption

LEMMA Remainder ==
    ASSUME NEW k \in Nat, NEW n \in Raw
    PROVE  (k * U32 + n) % U32 = n /\ (k * U32 + n) \div U32 = k
<1> DEFINE a == k * U32 + n
           p == a \div U32
           r == a % U32
<1>1. a \in Nat
  BY WidthAssumption DEF Raw
<1>2. p \in Nat /\ r \in Raw /\ a = p * U32 + r
  BY <1>1, Division
<1>3. a = k * U32 + n
  OBVIOUS
<1>4. k * U32 \in Nat /\ p * U32 \in Nat
  BY <1>2, WidthAssumption
<1> HIDE DEF a, p, r
<1>5. ~(p < k)
  BY <1>2, <1>3, <1>4, Apart, WidthAssumption DEF Raw
<1>6. ~(k < p)
  BY <1>2, <1>3, <1>4, Apart, WidthAssumption DEF Raw
<1>7. p = k
  BY <1>2, <1>5, <1>6
<1>8. r = n
  BY <1>2, <1>3, <1>4, <1>7, WidthAssumption DEF Raw
<1> QED BY <1>7, <1>8 DEF a, p, r

LEMMA Cycle ==
    ASSUME NEW k \in Nat
    PROVE  k * U32 \in Nat /\ (k + 1) * U32 = k * U32 + U32
BY WidthAssumption

LEMMA HalfCycle == U32 \div 2 \in Nat /\ U32 = (U32 \div 2) + (U32 \div 2) /\ U32 \div 2 >= 2
BY WidthAssumption
-----------------------------------------------------------------------------
(* Where the checkpoint is far from the end of the 64-bit numbers.         *)
InRange(c) == c \in Nat /\ c + 2 * U32 < U64

(* The locals of unwrap() where no sum wraps, and its branches in terms of *)
(* them: only a subtraction may wrap.                                      *)
Cycles(i, c) == ((c + i) \div U32) * U32
Low(i, c) == IF U32 \div 2 >= c + i THEN 0 ELSE (c + i) - (U32 \div 2) - 1
High(i, c) == IF U32 \div 2 >= c + i THEN U32 - 1 ELSE c + i + (U32 \div 2)

Branches(n, i, c, Q, low, high) ==
    /\ n + Q > low /\ n + Q > high => unwrap(n, i, c) = Sub64(Sub64(n + Q, U32), i)
    /\ n + Q > low /\ n + Q <= high /\ i > n + Q => unwrap(n, i, c) = Sub64(n + Q + U32, i)
    /\ n + Q > low /\ n + Q <= high /\ i <= n + Q => unwrap(n, i, c) = n + Q - i
    /\ n + Q <= low => unwrap(n, i, c) = Sub64(n + Q + U32, i)

LEMMA UnwrapBranches ==
    ASSUME NEW n \in Raw, NEW i \in Raw, NEW c, InRange(c)
    PROVE  Branches(n, i, c, Cycles(i, c), Low(i, c), High(i, c))
<1> DEFINE e == U32 \div 2
           Q == Cycles(i, c)
           r == (c + i) % U32
           low == Low(i, c)
           high == High(i, c)
<1>a. i \in Nat /\ c \in Nat /\ c + i \in Nat
  BY WidthAssumption DEF Raw, InRange
<1>b. Q \in Nat /\ r \in Raw /\ c + i = Q + r /\ Q = ((c + i) \div U32) * U32
  BY <1>a, Division, Cycle DEF Cycles
<1>c. e \in Nat /\ e = U32 \div 2 /\ e + e = U32
  BY HalfCycle
<1>d. /\ low = (IF e >= c + i THEN 0 ELSE (c + i) - e - 1)
      /\ high = (IF e >= c + i THEN U32 - 1 ELSE c + i + e)
  BY DEF Low, High
<1>e. low \in Int /\ high \in Int
  BY <1>a, <1>c, <1>d, WidthAssumption
<1> HIDE DEF e, Q, r, low, high
<1> DEFINE mid == c + i
           cand == n + Q
<1>1. /\ n \in Nat /\ i \in Nat /\ c \in Nat /\ U32 \in Nat /\ U64 \in Nat /\ r \in Nat
      /\ n < U32 /\ i < U32 /\ r < U32 /\ c + 2 * U32 < U64 /\ U64 >= 4 * U32 /\ U32 >= 4
      /\ e + e = U32 /\ e \in Nat
  BY <1>a, <1>b, <1>c, WidthAssumption DEF Raw, InRange
<1>2. Add64(c, i) = mid /\ Add64(n, Q) = cand
  BY <1>1, <1>b DEF Add64
<1>3. cand <= mid \/ i > cand => Add64(cand, U32) = cand + U32
  BY <1>1, <1>b DEF Add64
<1>4. i <= cand => Sub64(cand, i) = cand - i
  BY <1>1, <1>b DEF Sub64
<1>5. Add64(IF e >= mid THEN U32 - 2 ELSE Add64(mid, e - 1), 1) = high
  <2>1. CASE e >= mid
    BY <1>1, <1>d, <2>1 DEF Add64
  <2>2. CASE ~(e >= mid)
    <3>1. Add64(mid, e - 1) = mid + e - 1
      BY <1>1, <1>b DEF Add64
    <3> QED BY <1>1, <1>d, <2>2, <3>1 DEF Add64
  <2> QED BY <2>1, <2>2
<1>6. low <= mid
  BY <1>1, <1>d
<1>7. mid \in Int /\ cand \in Int
  BY <1>1, <1>b
<1> DEFINE Body(K, lo, hi) ==
               IF K > lo
               THEN IF K > Add64(hi, 1)
                    THEN Sub64(Sub64(K, U32), i)
                    ELSE IF i > K THEN Sub64(Add64(K, U32), i) ELSE Sub64(K, i)
               ELSE Sub64(Add64(K, U32), i)
<1>8. unwrap(n, i, c) =
        Body(Add64(n, (Add64(c, i) \div U32) * U32),
             IF U32 \div 2 >= Add64(c, i) THEN 0 ELSE Add64(c, i) - (U32 \div 2) - 1,
             IF U32 \div 2 >= Add64(c, i) THEN U32 - 2
                                          ELSE Add64(Add64(c, i), (U32 \div 2) - 1))
  BY Zenon DEF unwrap
<1>9. unwrap(n, i, c) =
        Body(cand, low, IF e >= mid THEN U32 - 2 ELSE Add64(mid, e - 1))
  <2>1. Add64(n, (Add64(c, i) \div U32) * U32) = cand
    BY <1>2, <1>b, <1>c, <1>d
  <2>2. (IF U32 \div 2 >= Add64(c, i) THEN 0 ELSE Add64(c, i) - (U32 \div 2) - 1) = low
    BY <1>2, <1>b, <1>c, <1>d
  <2>3. (IF U32 \div 2 >= Add64(c, i) THEN U32 - 2
                                      ELSE Add64(Add64(c, i), (U32 \div 2) - 1))
          = IF e >= mid THEN U32 - 2 ELSE Add64(mid, e - 1)
    BY <1>2, <1>b, <1>c, <1>d
  <2> HIDE DEF Body, mid, cand
  <2> QED BY <1>8, <2>1, <2>2, <2>3
<1> HIDE DEF mid, cand
<1>10. Branches(n, i, c, Q, low, high)
  BY <1>1, <1>3, <1>4, <1>5, <1>6, <1>7, <1>9, <1>b, <1>e DEF cand, Branches
<1> QED BY <1>10 DEF Q, low, high

LEMMA UnwrapNear ==
    ASSUME NEW i \in Raw, NEW c, InRange(c), NEW x \in Nat, x >= 1, Near(x, c)
    PROVE  unwrap(wrap(x, i), i, c) = x
<1> DEFINE e == U32 \div 2
           mid == c + i
           q == mid \div U32
           r == mid % U32
           Q == q * U32
           s == (x + i) \div U32
           n == (x + i) % U32
           S == s * U32
           low == Low(i, c)
           high == High(i, c)
<1>1. /\ i \in Nat /\ c \in Nat /\ U32 \in Nat /\ U64 \in Nat
      /\ i < U32 /\ c + 2 * U32 < U64 /\ U64 >= 4 * U32 /\ U32 >= 4
      /\ e \in Nat /\ e + e = U32
  BY WidthAssumption, HalfCycle DEF Raw, InRange
<1>2. q \in Nat /\ r \in Raw /\ c + i = Q + r
  BY <1>1, Division
<1>3. s \in Nat /\ n \in Raw /\ x + i = S + n
  <2>1. x + i \in Nat
    BY <1>1
  <2> QED BY <2>1, Division
<1>4. wrap(x, i) = n
  BY DEF wrap
<1>5. Q \in Nat /\ S \in Nat /\ r \in Nat /\ n \in Nat /\ r < U32 /\ n < U32
  BY <1>1, <1>2, <1>3, Cycle DEF Raw
<1>6. x - c < e /\ c - x < e
  BY DEF Near
<1>7. /\ low = (IF e >= c + i THEN 0 ELSE (c + i) - e - 1)
      /\ high = (IF e >= c + i THEN U32 - 1 ELSE c + i + e)
  BY DEF Low, High
<1>8. low \in Int /\ high \in Int
  BY <1>1, <1>7
<1>9. S = Q \/ S = Q + U32 \/ S + U32 = Q
  <2>1. CASE s = q
    BY <2>1
  <2>2. CASE s < q
    <3>1. ~(s + 1 < q)
      <4> SUFFICES ASSUME s + 1 < q PROVE FALSE
        OBVIOUS
      <4>1. (s + 1) * U32 + U32 <= Q
        BY <1>2, <1>3, Apart
      <4>2. (s + 1) * U32 = S + U32
        BY <1>3, Cycle
      <4> HIDE DEF S, Q, s, q, n, r, e, mid
      <4> QED BY <1>1, <1>2, <1>3, <1>5, <1>6, <4>1, <4>2
    <3>2. q = s + 1
      BY <1>2, <1>3, <2>2, <3>1
    <3> QED BY <1>3, <3>2, Cycle
  <2>3. CASE q < s
    <3>1. ~(q + 1 < s)
      <4> SUFFICES ASSUME q + 1 < s PROVE FALSE
        OBVIOUS
      <4>1. (q + 1) * U32 + U32 <= S
        BY <1>2, <1>3, Apart
      <4>2. (q + 1) * U32 = Q + U32
        BY <1>2, Cycle
      <4> HIDE DEF S, Q, s, q, n, r, e, mid
      <4> QED BY <1>1, <1>2, <1>3, <1>5, <1>6, <4>1, <4>2
    <3>2. s = q + 1
      BY <1>2, <1>3, <2>3, <3>1
    <3> QED BY <1>2, <3>2, Cycle
  <2> QED BY <1>2, <1>3, <2>1, <2>2, <2>3
<1>10. e >= c + i => Q = 0
  <2>1. CASE q = 0
    BY <1>1, <2>1
  <2>2. CASE 0 < q
    <3>1. 0 * U32 + U32 <= Q
      BY <1>2, <2>2, Apart
    <3> HIDE DEF S, Q, s, q, n, r, e, mid
    <3> QED BY <1>1, <1>2, <1>5, <3>1
  <2>3. q = 0 \/ 0 < q
    BY <1>2
  <2> QED BY <2>1, <2>2, <2>3
<1>11. Branches(n, i, c, Q, low, high)
  BY <1>3, UnwrapBranches DEF Cycles
<1> HIDE DEF e, mid, q, r, Q, s, n, S, low, high
<1>12. CASE S = Q
  <2>1. n + Q > low /\ n + Q <= high /\ i <= n + Q
    BY <1>1, <1>2, <1>3, <1>5, <1>6, <1>7, <1>8, <1>10, <1>12
  <2> QED BY <1>1, <1>3, <1>4, <1>5, <1>11, <1>12, <2>1 DEF Branches
<1>13. CASE S = Q + U32
  <2>1. n + Q <= low \/ (n + Q > low /\ n + Q <= high /\ i > n + Q)
    BY <1>1, <1>2, <1>3, <1>5, <1>6, <1>7, <1>8, <1>10, <1>13
  <2>2. Sub64(n + Q + U32, i) = x
    BY <1>1, <1>3, <1>5, <1>13 DEF Sub64
  <2> QED BY <1>4, <1>11, <2>1, <2>2 DEF Branches
<1>14. CASE S + U32 = Q
  <2>1. n + Q > low /\ n + Q > high
    BY <1>1, <1>2, <1>3, <1>5, <1>6, <1>7, <1>8, <1>10, <1>14
  <2>2. Sub64(Sub64(n + Q, U32), i) = x
    BY <1>1, <1>3, <1>5, <1>14 DEF Sub64
  <2> QED BY <1>4, <1>11, <2>1, <2>2 DEF Branches
<1> QED BY <1>9, <1>12, <1>13, <1>14

(* A number of the class of n, in any cycle and after a wraparound of the  *)
(* 64-bit subtraction, wraps to n again.                                   *)
LEMMA WrapsTo ==
    ASSUME NEW i \in Raw, NEW n \in Raw, NEW k \in Nat, NEW y \in Int,
           y = k * U32 + n \/ y = k * U32 + n + U64
    PROVE  wrap(y - i, i) = n
<1>1. (y - i) + i = y
  BY WidthAssumption DEF Raw
<1>2. wrap(y - i, i) = y % U32
  BY <1>1 DEF wrap
<1>3. CASE y = k * U32 + n
  BY <1>2, <1>3, Remainder
<1>4. CASE y = k * U32 + n + U64
  <2> DEFINE u == U64 \div U32
  <2>1. u \in Nat /\ U64 = u * U32
    BY WidthAssumption, Division
  <2> HIDE DEF u
  <2>2. (k + u) * U32 = k * U32 + u * U32
    BY <2>1, WidthAssumption
  <2>3. y = (k + u) * U32 + n
    <3>1. k * U32 \in Nat /\ u * U32 \in Nat /\ n \in Nat
      BY <2>1, Cycle, WidthAssumption DEF Raw
    <3> QED BY <1>4, <2>1, <2>2, <3>1
  <2>4. k + u \in Nat
    BY <2>1
  <2>5. ((k + u) * U32 + n) % U32 = n
    BY <2>4, Remainder
  <2> QED BY <1>2, <2>3, <2>5
<1> QED BY <1>3, <1>4

LEMMA UnwrapClass ==
    ASSUME NEW i \in Raw, NEW c, InRange(c), NEW n \in Raw
    PROVE  wrap(unwrap(n, i, c), i) = n
<1> DEFINE q == (c + i) \div U32
           Q == q * U32
           low == Low(i, c)
           high == High(i, c)
<1>1. /\ i \in Nat /\ c \in Nat /\ n \in Nat /\ U32 \in Nat /\ U64 \in Nat
      /\ i < U32 /\ n < U32 /\ U64 >= 4 * U32 /\ U32 >= 4 /\ c + i \in Nat
  BY WidthAssumption DEF Raw, InRange
<1>2. q \in Nat /\ Q \in Nat /\ (q + 1) * U32 = Q + U32
  BY <1>1, Division, Cycle
<1>3. Branches(n, i, c, Q, low, high)
  BY UnwrapBranches DEF Cycles
<1>4. high \in Int /\ low \in Int /\ high >= U32 - 1
  BY <1>1, HalfCycle DEF High, Low
<1> HIDE DEF q, Q, low, high
<1>5. CASE n + Q <= low \/ (n + Q > low /\ n + Q <= high /\ i > n + Q)
  <2>1. unwrap(n, i, c) = (Q + U32 + n) - i
    BY <1>1, <1>2, <1>3, <1>5 DEF Branches, Sub64
  <2>2. Q + U32 + n = (q + 1) * U32 + n /\ q + 1 \in Nat /\ Q + U32 + n \in Int
    BY <1>1, <1>2
  <2> QED BY <2>1, <2>2, WrapsTo
<1>6. CASE n + Q > low /\ n + Q <= high /\ i <= n + Q
  <2>1. unwrap(n, i, c) = (Q + n) - i
    BY <1>1, <1>2, <1>3, <1>6 DEF Branches
  <2>2. Q + n = q * U32 + n /\ Q + n \in Int
    BY <1>1, <1>2 DEF Q
  <2> QED BY <1>2, <2>1, <2>2, WrapsTo
<1>7. CASE n + Q > low /\ n + Q > high
  <2>1. q # 0
    <3>1. q = 0 => Q = 0
      BY <1>1 DEF Q
    <3> QED BY <1>1, <1>2, <1>4, <1>7, <3>1
  <2>2. q - 1 \in Nat /\ (q - 1) * U32 + U32 = Q /\ (q - 1) * U32 \in Nat
    <3>1. q - 1 \in Nat /\ (q - 1) + 1 = q
      BY <1>2, <2>1
    <3> HIDE DEF Q
    <3>2. (q - 1) * U32 \in Nat /\ ((q - 1) + 1) * U32 = (q - 1) * U32 + U32
      BY <3>1, Cycle
    <3> QED BY <3>1, <3>2 DEF Q
  <2> DEFINE P == (q - 1) * U32
  <2>3. P \in Nat /\ P + U32 = Q
    BY <2>2
  <2> HIDE DEF P
  <2>4. Sub64(n + Q, U32) = P + n
    BY <1>1, <1>2, <2>3 DEF Sub64
  <2>5. unwrap(n, i, c) = Sub64(P + n, i)
    BY <1>3, <1>7, <2>4 DEF Branches
  <2>6. unwrap(n, i, c) = (P + n) - i \/ unwrap(n, i, c) = (P + n + U64) - i
    BY <1>1, <2>3, <2>5 DEF Sub64
  <2>7. P + n \in Int /\ P + n + U64 \in Int
    BY <1>1, <2>3
  <2>8. wrap((P + n) - i, i) = n /\ wrap((P + n + U64) - i, i) = n
    BY <2>2, <2>7, WrapsTo DEF P
  <2> QED BY <2>6, <2>8
<1>8. i > n + Q \/ i <= n + Q
  BY <1>1, <1>2
<1>9. n + Q > low \/ n + Q <= low
  BY <1>1, <1>2, <1>4
<1>10. n + Q > high \/ n + Q <= high
  BY <1>1, <1>2, <1>4
<1> QED BY <1>5, <1>6, <1>7, <1>8, <1>9, <1>10
-----------------------------------------------------------------------------
SeqnoInv == isn \in Raw /\ checkpoint \in 0 .. MaxCheckpoint

(* Sequence numbers survive their conversion for every initial sequence    *)
(* number, checkpoint and width of the integers: unwrap() is the inverse   *)
(* of wrap() within half a cycle of the checkpoint, and a right inverse    *)
(* everywhere.                                                             *)
THEOREM NumbersSurvive == Spec => []RoundTrip
<1>1. Init => SeqnoInv
  BY CheckpointAssumption, WidthAssumption DEF Init, SeqnoInv
<1>2. SeqnoInv /\ [Next]_vars => SeqnoInv'
  BY CheckpointAssumption, WidthAssumption
     DEF SeqnoInv, Next, Advance, Reconnect, vars
<1>3. SeqnoInv => RoundTrip
  <2> SUFFICES ASSUME SeqnoInv PROVE RoundTrip
    OBVIOUS
  <2>1. isn \in Raw /\ InRange(checkpoint)
    BY CheckpointAssumption, WidthAssumption DEF SeqnoInv, InRange
  <2>2. \A x \in 1 .. checkpoint + U32 : x \in Nat /\ x >= 1
    BY <2>1, WidthAssumption DEF InRange
  <2>3. \A x \in 1 .. checkpoint + U32 :
            Near(x, checkpoint) => unwrap(wrap(x, isn), isn, checkpoint) = x
    BY <2>1, <2>2, UnwrapNear
  <2>4. \A n \in Raw : wrap(unwrap(n, isn, checkpoint), isn) = n
    BY <2>1, UnwrapClass
  <2> QED BY <2>3, <2>4 DEF RoundTrip
<1> QED BY <1>1, <1>2, <1>3, PTL DEF Spec
=============================================================================
