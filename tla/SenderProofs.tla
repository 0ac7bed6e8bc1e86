---------------------------- MODULE SenderProofs ----------------------------
(***************************************************************************)
(* Proofs about the TCPSender of SenderMachine, for every capacity, window,*)
(* segment size, initial sequence number and width of the integers.        *)
(*                                                                         *)
(* The invariant is stated as predicates of a sender record s, because a   *)
(* handler goes through several intermediate senders: ack_received pops    *)
(* what is acknowledged and then calls fill_window, and only the sender    *)
(* that fill_window returns has nothing stranded.                          *)
(***************************************************************************)
EXTENDS SenderMachine, SequenceTheorems, WellFoundedInduction, TLAPS

Outstanding == [seg : Segment, end : Nat]

Senders ==
    [isn : {ISN}, initial_RTO : {RTO}, curr_RTO : Nat, stream : Stream,
     next_seqno : Nat, outstanding : Seq(Outstanding),
     bytes_flying : Nat, window_size : Nat, timer : Nat,
     consec_retrans : 0 .. MaxRetx + 1, ack_abs : Nat,
     fin_sent : BOOLEAN, segments_out : Seq(Segment)]

(* The bytes of the stream are 0, 1, 2, ..., and the buffer holds those    *)
(* between what was read and what was written.                             *)
StreamBytes(b) ==
    /\ Len(b.deq) <= Capacity
    /\ b.bytes_wrote = b.bytes_readed + Len(b.deq) /\ b.bytes_wrote <= MaxBytes
    /\ \A k \in 1 .. Len(b.deq) : b.deq[k] = b.bytes_readed + k - 1

(* The sequence numbers used, before the SYN too; a FIN comes last.        *)
Counted(s) ==
    /\ s.next_seqno > 0 =>
          s.next_seqno = 1 + s.stream.bytes_readed + One(s.fin_sent)
    /\ s.next_seqno = 0 => s.stream.bytes_readed = 0 /\ ~s.fin_sent
    /\ s.fin_sent => s.stream.end /\ Len(s.stream.deq) = 0

(* A queue of outstanding segments that covers first .. next - 1, the       *)
(* first of them from wherever it starts.                                  *)
Covers(q, first, next) ==
    /\ \A i \in 1 .. Len(q) - 1 : Start(q[i + 1]) = q[i].end
    /\ Len(q) > 0 => /\ Start(q[1]) <= first /\ first < q[1].end
                     /\ q[Len(q)].end = next
    /\ Len(q) = 0 => first = next

RightBytes(o) ==
    /\ o.seg.seqno = wrap(Start(o), ISN)
    /\ \A k \in 1 .. Len(o.seg.payload) : o.seg.payload[k] = Start(o) + k - 2

Flight(s) ==
    /\ s.bytes_flying = s.next_seqno - s.ack_abs
    /\ Covers(s.outstanding, s.ack_abs, s.next_seqno)
    /\ \A i \in 1 .. Len(s.outstanding) : RightBytes(s.outstanding[i])

(* What every sender satisfies, in the middle of a handler too.            *)
Sound(s) == s \in Senders /\ StreamBytes(s.stream) /\ Counted(s) /\ Flight(s)

(* ... and what it satisfies between two handlers.                         *)
Settled(s) ==
    (s.next_seqno > 0 /\ s.bytes_flying = 0) =>
        /\ Len(s.stream.deq) = 0
        /\ s.stream.end => s.fin_sent

IInv == Sound(snd) /\ Settled(snd)
-----------------------------------------------------------------------------
(* Arithmetic.                                                             *)
LEMMA ModInRaw ==
    ASSUME NEW a \in Int
    PROVE  a % U32 \in Raw
  BY WidthAssumption DEF Raw

LEMMA WrapInRaw ==
    ASSUME NEW n \in Int
    PROVE  wrap(n, ISN) \in Raw
  <1>1. ISN \in Int
    BY SenderAssumption, WidthAssumption DEF Raw
  <1>2. n + ISN \in Int
    BY <1>1
  <1> QED
    BY <1>2, ModInRaw DEF wrap

LEMMA WrapZero == wrap(0, ISN) = ISN
  BY SenderAssumption, WidthAssumption DEF wrap, Raw

LEMMA DivInt ==
    ASSUME NEW a \in Int
    PROVE  a \div U32 \in Int /\ (a \div U32) * U32 \in Int
  BY WidthAssumption

(* unwrap() returns an integer; that ack_received compares it with what    *)
(* was sent before it uses it makes its exact value irrelevant here.       *)
LEMMA UnwrapInt ==
    ASSUME NEW n \in Raw, NEW c \in Nat
    PROVE  unwrap(n, ISN, c) \in Int
  <1>1. n \in Int /\ ISN \in Int /\ U64 \in Int /\ U32 \in Int
    BY SenderAssumption, WidthAssumption DEF Raw
  <1> DEFINE mid  == Add64(c, ISN)
             cand == Add64(n, (mid \div U32) * U32)
  <1>2. mid \in Int
    BY <1>1 DEF Add64
  <1>3. (mid \div U32) * U32 \in Int
    BY <1>2, DivInt
  <1>4. cand \in Int
    BY <1>1, <1>3 DEF Add64
  <1>5. unwrap(n, ISN, c) \in
            {Sub64(Sub64(cand, U32), ISN), Sub64(Add64(cand, U32), ISN), Sub64(cand, ISN)}
    BY DEF unwrap
  <1> HIDE DEF cand
  <1>6. /\ Sub64(Sub64(cand, U32), ISN) \in Int
        /\ Sub64(Add64(cand, U32), ISN) \in Int
        /\ Sub64(cand, ISN) \in Int
    BY <1>1, <1>4 DEF Add64, Sub64
  <1> QED
    BY <1>5, <1>6

(* How n segments of at most m bytes share total bytes.                    *)
LEMMA Chunks ==
    ASSUME NEW m \in Nat \ {0}, NEW total \in Nat \ {0}, NEW n,
           n = (total + m - 1) \div m
    PROVE  /\ n \in Nat \ {0} /\ total <= n * m
           /\ \A k \in 0 .. n - 1 : k * m \in Nat /\ k * m < total
  <1>1. n \in Nat /\ n * m <= total + m - 1 /\ total + m - 1 < n * m + m
    OBVIOUS
  <1>2. n # 0
    BY <1>1
  <1>3. ASSUME NEW k \in 0 .. n - 1
        PROVE  k * m \in Nat /\ k * m < total
    <2>1. k * m <= (n - 1) * m /\ (n - 1) * m = n * m - m /\ k * m \in Nat
      BY <1>1
    <2> QED
      BY <1>1, <2>1
  <1> QED
    BY <1>1, <1>2, <1>3
-----------------------------------------------------------------------------
(* The segments popped by an acknowledgment are a prefix of the queue, the *)
(* longest that ends at or before it.                                      *)
LEMMA PopsPrefix ==
    ASSUME NEW q \in Seq(Outstanding), NEW a \in Int
    PROVE  \E k \in 0 .. Len(q) :
              /\ \A i \in 1 .. k : q[i].end <= a
              /\ k = Len(q) \/ q[k + 1].end > a
              /\ Unacknowledged(q, a) = SubSeq(q, k + 1, Len(q))
  <1> DEFINE T == {k \in 0 .. Len(q) : k = Len(q) \/ q[k + 1].end > a}
             P(k) == /\ \A i \in 1 .. k : q[i].end <= a
                     /\ k = Len(q) \/ q[k + 1].end > a
  <1>0. Len(q) \in Nat /\ \A i \in 1 .. Len(q) : q[i].end \in Nat
    <2>1. Len(q) \in Nat /\ \A i \in 1 .. Len(q) : q[i] \in Outstanding
      OBVIOUS
    <2> QED
      BY <2>1 DEF Outstanding
  <1>1. T \subseteq Nat /\ Len(q) \in T
    BY <1>0
  <1>2. PICK x \in T : \A y \in T : ~ (<<y, x>> \in OpToRel(<, Nat))
    BY <1>1, WFMin, NatLessThanWellFounded
  <1>3. \A y \in T : ~ (y < x)
    BY <1>1, <1>2, Zenon DEF OpToRel
  <1>4. \A i \in 1 .. x : q[i].end <= a
    <2> SUFFICES ASSUME NEW i \in 1 .. x PROVE q[i].end <= a
      OBVIOUS
    <2>1. x \in Nat /\ x <= Len(q)
      BY <1>0
    <2>2. i - 1 \in 0 .. Len(q) /\ i - 1 < x /\ (i - 1) + 1 = i /\ i - 1 # Len(q)
      BY <1>0, <2>1
    <2>3. ~ (q[(i - 1) + 1].end > a)
      BY <1>3, <2>2, Zenon
    <2>4. q[i].end \in Nat
      BY <1>0, <2>1
    <2> QED
      BY <2>2, <2>3, <2>4
  <1>5. x \in 0 .. Len(q) /\ P(x)
    BY <1>4
  <1> HIDE DEF T
  <1> DEFINE acked == CHOOSE k \in 0 .. Len(q) : P(k)
  <1>6. acked \in 0 .. Len(q) /\ P(acked)
    BY <1>5
  <1>7. Unacknowledged(q, a) = SubSeq(q, acked + 1, Len(q))
    BY DEF Unacknowledged
  <1> HIDE DEF acked
  <1> QED
    BY <1>6, <1>7, Zenon

LEMMA LengthInNat ==
    ASSUME NEW seg \in Segment
    PROVE  length_in_sequence_space(seg) \in Nat /\ Len(seg.payload) \in Nat
  <1>1. seg.payload \in Seq(Nat)
    BY DEF Segment
  <1>2. Len(seg.payload) \in Nat /\ One(seg.syn) \in Nat /\ One(seg.fin) \in Nat
    BY <1>1 DEF One
  <1> QED
    BY <1>2 DEF length_in_sequence_space

LEMMA QueueTypes ==
    ASSUME NEW q \in Seq(Outstanding), NEW i \in 1 .. Len(q)
    PROVE  /\ q[i].end \in Nat /\ q[i].seg \in Segment
           /\ length_in_sequence_space(q[i].seg) \in Nat /\ Start(q[i]) \in Int
  <1>1. q[i] \in Outstanding
    OBVIOUS
  <1>2. q[i].end \in Nat /\ q[i].seg \in Segment
    BY <1>1 DEF Outstanding
  <1>4. length_in_sequence_space(q[i].seg) \in Nat
    BY <1>2, LengthInNat
  <1> QED
    BY <1>2, <1>4 DEF Start

(* What is left after an acknowledgment of numbers that were sent still    *)
(* covers what is not acknowledged.                                        *)
LEMMA CoversSuffix ==
    ASSUME NEW q \in Seq(Outstanding), NEW first \in Nat, NEW next \in Nat, NEW a \in Int,
           Covers(q, first, next), first < a, a <= next,
           NEW r, r = Unacknowledged(q, a)
    PROVE  /\ r \in Seq(Outstanding) /\ Covers(r, a, next)
           /\ \A i \in 1 .. Len(r) : \E j \in 1 .. Len(q) : r[i] = q[j]
  <1>1. PICK k \in 0 .. Len(q) :
              /\ \A i \in 1 .. k : q[i].end <= a
              /\ k = Len(q) \/ q[k + 1].end > a
              /\ r = SubSeq(q, k + 1, Len(q))
    BY PopsPrefix, Zenon
  <1>2. /\ r \in Seq(Outstanding) /\ Len(r) = Len(q) - k
        /\ \A i \in 1 .. Len(r) : r[i] = q[k + i] /\ k + i \in 1 .. Len(q)
    <2> DEFINE l == Len(q)
    <2>1. l \in Nat /\ \A i \in 1 .. l : q[i] \in Outstanding
      OBVIOUS
    <2>2. r = SubSeq(q, k + 1, l) /\ k \in 0 .. l
      BY <1>1
    <2> HIDE DEF l
    <2>3. \A i \in k + 1 .. l : q[i] \in Outstanding
      BY <2>1, <2>2
    <2>4. k + 1 \in Int /\ l \in Int
      BY <2>1, <2>2
    <2>5. /\ SubSeq(q, k + 1, l) \in Seq(Outstanding)
          /\ Len(SubSeq(q, k + 1, l)) = IF k + 1 <= l THEN l - (k + 1) + 1 ELSE 0
          /\ \A i \in 1 .. l - (k + 1) + 1 : SubSeq(q, k + 1, l)[i] = q[(k + 1) + i - 1]
      BY <2>3, <2>4, SubSeqProperties
    <2>6. /\ (IF k + 1 <= l THEN l - (k + 1) + 1 ELSE 0) = l - k
          /\ l - (k + 1) + 1 = l - k
          /\ \A i \in 1 .. l - k : (k + 1) + i - 1 = k + i /\ k + i \in 1 .. l
      BY <2>1, <2>2
    <2>7. r \in Seq(Outstanding) /\ Len(r) = l - k
      BY <2>2, <2>5, <2>6
    <2>8. \A i \in 1 .. l - k : r[i] = q[k + i]
      BY <2>2, <2>5, <2>6
    <2> QED
      BY <2>6, <2>7, <2>8 DEF l
  <1>3. Len(q) > 0
    BY DEF Covers
  <1>4. \A i \in 1 .. Len(r) - 1 : Start(r[i + 1]) = r[i].end
    <2> SUFFICES ASSUME NEW i \in 1 .. Len(r) - 1
                 PROVE  Start(r[i + 1]) = r[i].end
      OBVIOUS
    <2>1. k + i \in 1 .. Len(q) - 1 /\ r[i] = q[k + i] /\ r[i + 1] = q[(k + i) + 1]
      BY <1>2
    <2> QED
      BY <2>1 DEF Covers
  <1>5. CASE k = Len(q)
    <2>1. q[Len(q)].end <= a /\ q[Len(q)].end = next
      BY <1>1, <1>3, <1>5 DEF Covers
    <2>2. a = next /\ Len(r) = 0
      BY <1>2, <1>5, <2>1
    <2> QED
      BY <1>2, <1>4, <2>2 DEF Covers
  <1>6. CASE k < Len(q)
    <2>1. Len(r) > 0 /\ r[1] = q[k + 1] /\ r[Len(r)] = q[Len(q)]
      <3>1. Len(r) > 0 /\ 1 \in 1 .. Len(r) /\ Len(r) \in 1 .. Len(r) /\ k + Len(r) = Len(q)
        BY <1>2, <1>6
      <3> QED
        BY <1>2, <3>1
    <2>2. a < r[1].end /\ r[Len(r)].end = next
      <3>1. q[k + 1].end \in Nat /\ q[k + 1].end > a
        BY <1>1, <1>6, QueueTypes
      <3>2. q[Len(q)].end = next
        BY <1>3 DEF Covers
      <3> QED
        BY <2>1, <3>1, <3>2
    <2>3. Start(r[1]) <= a
      <3>1. CASE k = 0
        <4>1. Start(q[1]) \in Int /\ Start(q[1]) <= first
          BY <1>3, QueueTypes DEF Covers
        <4> QED
          BY <2>1, <3>1, <4>1
      <3>2. CASE k > 0
        <4>1. Start(q[k + 1]) = q[k].end
          BY <1>6, <3>2 DEF Covers
        <4> QED
          BY <1>1, <2>1, <3>2, <4>1
      <3> QED
        BY <3>1, <3>2
    <2>4. Covers(r, a, next)
      BY <1>4, <2>1, <2>2, <2>3 DEF Covers
    <2> QED
      BY <1>2, <2>4
  <1> QED
    BY <1>1, <1>5, <1>6, SMTT(30)

(* New segments that start where the others end extend the cover.  (Join   *)
(* is concatenation under a name, which the provers then take as a whole.) *)
Join(q, r) == q \o r

LEMMA CoversAppend ==
    ASSUME NEW q \in Seq(Outstanding), NEW r \in Seq(Outstanding),
           NEW first \in Nat, NEW next \in Nat, Covers(q, first, next),
           Len(r) > 0, Start(r[1]) = next, next < r[1].end,
           \A i \in 1 .. Len(r) - 1 : Start(r[i + 1]) = r[i].end
    PROVE  /\ Join(q, r) \in Seq(Outstanding)
           /\ Covers(Join(q, r), first, r[Len(r)].end)
           /\ \A i \in 1 .. Len(Join(q, r)) :
                 \/ \E j \in 1 .. Len(q) : Join(q, r)[i] = q[j]
                 \/ \E j \in 1 .. Len(r) : Join(q, r)[i] = r[j]
  <1> DEFINE t == Join(q, r)
  <1>1. /\ t \in Seq(Outstanding) /\ Len(t) = Len(q) + Len(r)
        /\ Len(q) \in Nat /\ Len(r) \in Nat
        /\ \A i \in 1 .. Len(q) : t[i] = q[i]
        /\ \A i \in 1 .. Len(r) : t[Len(q) + i] = r[i]
    BY DEF Join
  <1> HIDE DEF t
  <1>2. \A i \in 1 .. Len(t) - 1 : Start(t[i + 1]) = t[i].end
    <2> SUFFICES ASSUME NEW i \in 1 .. Len(t) - 1
                 PROVE  Start(t[i + 1]) = t[i].end
      OBVIOUS
    <2>1. CASE i < Len(q)
      <3>1. i \in 1 .. Len(q) - 1 /\ i \in 1 .. Len(q) /\ i + 1 \in 1 .. Len(q)
        BY <1>1, <2>1
      <3>2. t[i] = q[i] /\ t[i + 1] = q[i + 1]
        BY <1>1, <3>1
      <3> QED
        BY <3>1, <3>2 DEF Covers
    <2>2. CASE i = Len(q)
      <3>1. t[i] = q[Len(q)] /\ t[i + 1] = r[1] /\ Len(q) > 0
        BY <1>1, <2>2
      <3> QED
        BY <3>1 DEF Covers
    <2>3. CASE i > Len(q)
      <3>1. PICK j \in 1 .. Len(r) - 1 : i = Len(q) + j
        <4>1. i - Len(q) \in 1 .. Len(r) - 1 /\ i = Len(q) + (i - Len(q))
          BY <1>1, <2>3
        <4> QED
          BY <4>1, Zenon
      <3>2. t[i] = r[j] /\ t[i + 1] = r[j + 1]
        <4>1. i + 1 = Len(q) + (j + 1) /\ j + 1 \in 1 .. Len(r) /\ j \in 1 .. Len(r)
          BY <1>1, <3>1
        <4> QED
          BY <1>1, <3>1, <4>1
      <3> QED
        BY <3>2
    <2> QED
      BY <1>1, <2>1, <2>2, <2>3
  <1>3. Start(t[1]) <= first /\ first < t[1].end
    <2>1. CASE Len(q) > 0
      BY <1>1, <2>1 DEF Covers
    <2>2. CASE Len(q) = 0
      <3>1. t[1] = r[1] /\ first = next
        BY <1>1, <2>2 DEF Covers
      <3>2. Start(r[1]) \in Int
        BY <1>1, QueueTypes
      <3> QED
        BY <3>1, <3>2
    <2> QED
      BY <1>1, <2>1, <2>2
  <1>4. Len(t) > 0 /\ t[Len(t)] = r[Len(r)]
    BY <1>1
  <1>5. Covers(t, first, r[Len(r)].end)
    BY <1>2, <1>3, <1>4 DEF Covers
  <1>6. ASSUME NEW i \in 1 .. Len(t)
        PROVE  \/ \E j \in 1 .. Len(q) : t[i] = q[j]
               \/ \E j \in 1 .. Len(r) : t[i] = r[j]
    <2>1. CASE i <= Len(q)
      <3>1. i \in 1 .. Len(q)
        BY <1>1, <2>1
      <3> QED
        BY <1>1, <3>1
    <2>2. CASE i > Len(q)
      <3>1. i - Len(q) \in 1 .. Len(r) /\ Len(q) + (i - Len(q)) = i
        BY <1>1, <2>2
      <3>2. t[i] = r[i - Len(q)]
        BY <1>1, <3>1
      <3> QED
        BY <3>1, <3>2
    <2> QED
      BY <1>1, <2>1, <2>2
  <1> QED
    BY <1>1, <1>5, <1>6 DEF t
-----------------------------------------------------------------------------
(* Queueing new segments, each of which starts where the one before ends,  *)
(* extends the flight to the end of the last one.                          *)
Follows(next, r) ==
    \A k \in 1 .. Len(r) :
        /\ Start(r[k]) = (IF k = 1 THEN next ELSE r[k - 1].end)
        /\ RightBytes(r[k])

(* What sending up to the sequence number last makes of s.                 *)
SentUpTo(s, t, last) ==
    /\ t \in Senders /\ Flight(t) /\ t.next_seqno = last
    /\ t.stream = s.stream /\ t.fin_sent = s.fin_sent /\ t.ack_abs = s.ack_abs
    /\ t.window_size = s.window_size /\ t.consec_retrans = s.consec_retrans

Zip(segs, ends) == [k \in 1 .. Len(segs) |-> [seg |-> segs[k], end |-> ends[k]]]

LEMMA TransmitFlight ==
    ASSUME NEW s \in Senders, Flight(s),
           NEW segs \in Seq(Segment), NEW ends \in Seq(Nat), Len(ends) = Len(segs),
           NEW r, r = Zip(segs, ends),
           Len(segs) > 0, Follows(s.next_seqno, r),
           NEW last, last = ends[Len(ends)],
           s.next_seqno < ends[1], s.next_seqno <= last, last < U64,
           NEW t, t = Transmit(s, segs, ends)
    PROVE  SentUpTo(s, t, last)
  <1> DEFINE n  == Len(segs)
             tm == IF s.outstanding = <<>> THEN 0 ELSE s.timer
  <1>1. n \in Nat /\ last \in Nat /\ U64 \in Nat
    BY WidthAssumption
  <1>2. r \in Seq(Outstanding) /\ Len(r) = n
    <2>1. \A k \in 1 .. n : segs[k] \in Segment /\ ends[k] \in Nat
      OBVIOUS
    <2> QED
      BY <1>1, <2>1 DEF Outstanding, Zip
  <1>3. \A k \in 1 .. n : r[k].end = ends[k]
    BY DEF Zip
  <1>4. /\ s.bytes_flying \in Nat /\ s.next_seqno \in Nat /\ s.ack_abs \in Nat
        /\ s.outstanding \in Seq(Outstanding) /\ s.segments_out \in Seq(Segment)
        /\ s.timer \in Nat
    BY DEF Senders
  <1>5. s.bytes_flying = s.next_seqno - s.ack_abs
    BY DEF Flight
  <1>6. Add64(s.bytes_flying, last - s.next_seqno) = last - s.ack_abs
    <2>1. /\ s.bytes_flying + (last - s.next_seqno) = last - s.ack_abs
          /\ last - s.ack_abs < U64
      BY <1>1, <1>4, <1>5
    <2> QED
      BY <2>1 DEF Add64
  <1>7. t = [s EXCEPT !.segments_out = s.segments_out \o segs,
                      !.outstanding  = Join(s.outstanding, r),
                      !.timer        = tm,
                      !.bytes_flying = last - s.ack_abs,
                      !.next_seqno   = last]
    BY <1>6, Zenon DEF Transmit, Senders, Zip, Join
  <1>8. /\ t.outstanding = Join(s.outstanding, r) /\ t.bytes_flying = last - s.ack_abs
        /\ t.next_seqno = last /\ t.ack_abs = s.ack_abs
        /\ t.stream = s.stream /\ t.fin_sent = s.fin_sent
        /\ t.window_size = s.window_size /\ t.consec_retrans = s.consec_retrans
    BY <1>7 DEF Senders
  <1> DEFINE q == Join(s.outstanding, r)
  <1>9. /\ q \in Seq(Outstanding) /\ Covers(q, s.ack_abs, r[Len(r)].end)
        /\ \A i \in 1 .. Len(q) : \/ \E j \in 1 .. Len(s.outstanding) : q[i] = s.outstanding[j]
                                  \/ \E j \in 1 .. Len(r) : q[i] = r[j]
    <2>0. 1 \in 1 .. Len(r)
      BY <1>1, <1>2
    <2>1. Start(r[1]) = s.next_seqno
      BY <2>0 DEF Follows
    <2>2. s.next_seqno < r[1].end
      BY <1>2, <1>3, <2>0
    <2>3. Len(r) > 0 /\ \A k \in 1 .. Len(r) - 1 : Start(r[k + 1]) = r[k].end
      BY <1>1, <1>2 DEF Follows
    <2>4. Covers(s.outstanding, s.ack_abs, s.next_seqno)
      BY DEF Flight
    <2> QED
      BY <1>2, <1>4, <2>1, <2>2, <2>3, <2>4, CoversAppend, Zenon
  <1>10. r[Len(r)].end = last
    <2>1. n \in 1 .. n
      BY <1>1
    <2> QED
      BY <1>2, <1>3, <2>1
  <1>11. \A i \in 1 .. Len(t.outstanding) : RightBytes(t.outstanding[i])
    BY <1>8, <1>9 DEF Flight, Follows
  <1>12. Flight(t)
    BY <1>8, <1>9, <1>10, <1>11 DEF Flight
  <1>13. t \in Senders
    <2>1. last - s.ack_abs \in Nat
      BY <1>1, <1>4, <1>5
    <2>2. s.segments_out \o segs \in Seq(Segment) /\ tm \in Nat
      BY <1>4
    <2> HIDE DEF tm
    <2> QED
      BY <1>1, <1>7, <1>9, <2>1, <2>2, Zenon DEF Senders
  <1> QED
    BY <1>8, <1>12, <1>13 DEF SentUpTo
-----------------------------------------------------------------------------
(* The streams and segments that fill_window handles.                      *)
LEMMA NewSegmentTyped ==
    ASSUME NEW seqno \in Raw, NEW syn \in BOOLEAN, NEW fin \in BOOLEAN,
           NEW payload \in Seq(Nat)
    PROVE  /\ NewSegment(seqno, syn, fin, payload) \in Segment
           /\ NewSegment(seqno, syn, fin, payload).seqno = seqno
           /\ NewSegment(seqno, syn, fin, payload).payload = payload
           /\ length_in_sequence_space(NewSegment(seqno, syn, fin, payload))
                = Len(payload) + One(syn) + One(fin)
  <1> DEFINE seg == NewSegment(seqno, syn, fin, payload)
  <1>1. 0 \in Raw
    BY WidthAssumption DEF Raw
  <1>2. seg \in Segment
    BY <1>1 DEF NewSegment, Segment
  <1>3. seg.seqno = seqno /\ seg.payload = payload /\ seg.syn = syn /\ seg.fin = fin
    BY DEF NewSegment
  <1> HIDE DEF seg
  <1>4. length_in_sequence_space(seg) = Len(payload) + One(syn) + One(fin)
    BY <1>3 DEF length_in_sequence_space
  <1> QED
    BY <1>2, <1>3, <1>4 DEF seg

LEMMA PopOutput ==
    ASSUME NEW b \in Stream, StreamBytes(b), NEW n \in 0 .. Len(b.deq),
           NEW c, c = pop_output(b, n)
    PROVE  /\ c \in Stream /\ StreamBytes(c)
           /\ c.bytes_readed = b.bytes_readed + n
           /\ Len(c.deq) = Len(b.deq) - n /\ c.end = b.end
  <1>1. /\ b.deq \in Seq(Nat) /\ b.bytes_readed \in Nat /\ b.bytes_wrote \in Nat
        /\ Len(b.deq) \in Nat /\ n \in Nat /\ n <= Len(b.deq)
    BY DEF Stream
  <1>2. Least(n, Len(b.deq)) = n
    BY <1>1 DEF Least
  <1> DEFINE d == SubSeq(b.deq, n + 1, Len(b.deq))
  <1>3. c = [b EXCEPT !.deq = d, !.bytes_readed = b.bytes_readed + n]
    BY <1>2 DEF pop_output, Stream
  <1>4. /\ d \in Seq(Nat) /\ Len(d) = Len(b.deq) - n
        /\ \A k \in 1 .. Len(d) : d[k] = b.deq[n + k] /\ n + k \in 1 .. Len(b.deq)
    BY <1>1
  <1> HIDE DEF d
  <1>5. /\ c.deq = d /\ c.bytes_readed = b.bytes_readed + n
        /\ c.bytes_wrote = b.bytes_wrote /\ c.end = b.end
    BY <1>3 DEF Stream
  <1>6. c \in Stream
    <2>1. b.bytes_readed + n \in Nat
      BY <1>1
    <2> QED
      BY <1>3, <1>4, <2>1, Zenon DEF Stream
  <1>7. \A k \in 1 .. Len(d) : d[k] = c.bytes_readed + k - 1
    <2> SUFFICES ASSUME NEW k \in 1 .. Len(d) PROVE d[k] = c.bytes_readed + k - 1
      OBVIOUS
    <2>1. d[k] = b.bytes_readed + (n + k) - 1
      BY <1>4 DEF StreamBytes
    <2> QED
      BY <1>1, <1>4, <1>5, <2>1
  <1>8. StreamBytes(c)
    <2>1. /\ Len(b.deq) <= Capacity /\ b.bytes_wrote <= MaxBytes
          /\ b.bytes_wrote = b.bytes_readed + Len(b.deq)
      BY DEF StreamBytes
    <2>2. Capacity \in Nat
      BY SenderAssumption
    <2>3. Len(d) <= Capacity /\ b.bytes_wrote = (b.bytes_readed + n) + Len(d)
      BY <1>1, <1>4, <2>1, <2>2
    <2> QED
      BY <1>5, <1>7, <2>1, <2>3 DEF StreamBytes
  <1> QED
    BY <1>4, <1>5, <1>6, <1>8

LEMMA SendOneFlight ==
    ASSUME NEW s \in Senders, Flight(s), NEW seg \in Segment,
           length_in_sequence_space(seg) > 0,
           seg.seqno = wrap(s.next_seqno, ISN),
           \A k \in 1 .. Len(seg.payload) : seg.payload[k] = s.next_seqno + k - 2,
           NEW last, last = s.next_seqno + length_in_sequence_space(seg), last < U64,
           NEW t, t = SendOne(s, seg)
    PROVE  SentUpTo(s, t, last)
  <1> DEFINE segs == <<seg>>
             ends == <<last>>
             r == Zip(segs, ends)
  <1>1. s.next_seqno \in Nat /\ length_in_sequence_space(seg) \in Nat
    BY LengthInNat DEF Senders
  <1>2. last \in Nat /\ s.next_seqno < last
    BY <1>1
  <1>3. /\ segs \in Seq(Segment) /\ ends \in Seq(Nat)
        /\ Len(segs) = 1 /\ Len(ends) = 1 /\ ends[1] = last
    BY <1>2
  <1>4. Len(r) = 1 /\ r[1].seg = seg /\ r[1].end = last
    BY DEF Zip
  <1>5. Start(r[1]) = s.next_seqno
    BY <1>1, <1>4 DEF Start
  <1> HIDE DEF r
  <1>6. RightBytes(r[1])
    BY <1>4, <1>5 DEF RightBytes
  <1>7. Follows(s.next_seqno, r)
    BY <1>4, <1>5, <1>6 DEF Follows
  <1>8. t = Transmit(s, segs, ends)
    BY DEF SendOne
  <1> HIDE DEF segs, ends
  <1>9. r = Zip(segs, ends)
    BY DEF r
  <1>10. /\ Len(ends) = Len(segs) /\ Len(segs) > 0 /\ last = ends[Len(ends)]
         /\ s.next_seqno < ends[1] /\ s.next_seqno <= last
    BY <1>1, <1>2, <1>3
  <1> QED
    BY <1>3, <1>7, <1>8, <1>9, <1>10, TransmitFlight, SMTT(30)
-----------------------------------------------------------------------------
(* What fill_window guarantees of the sender t that it makes of s.         *)
Filled(s, t) ==
    /\ Sound(t) /\ Settled(t)
    /\ t.ack_abs = s.ack_abs /\ t.window_size = s.window_size
    /\ t.consec_retrans = s.consec_retrans /\ t.next_seqno >= s.next_seqno
    /\ t.next_seqno > s.next_seqno =>
          t.next_seqno <= t.ack_abs + Greatest(t.window_size, 1)

LEMMA SenderFacts ==
    ASSUME NEW s \in Senders
    PROVE  /\ s.isn = ISN /\ s.stream \in Stream /\ s.next_seqno \in Nat
           /\ s.bytes_flying \in Nat /\ s.window_size \in Nat /\ s.ack_abs \in Nat
           /\ s.fin_sent \in BOOLEAN /\ s.consec_retrans \in Nat
           /\ s.stream.deq \in Seq(Nat) /\ Len(s.stream.deq) \in Nat
           /\ s.stream.bytes_readed \in Nat /\ s.stream.end \in BOOLEAN
  <1>1. /\ s.isn = ISN /\ s.stream \in Stream /\ s.next_seqno \in Nat
        /\ s.bytes_flying \in Nat /\ s.window_size \in Nat /\ s.ack_abs \in Nat
        /\ s.fin_sent \in BOOLEAN /\ s.consec_retrans \in Nat
    BY SenderAssumption DEF Senders
  <1>2. /\ s.stream.deq \in Seq(Nat) /\ s.stream.bytes_readed \in Nat
        /\ s.stream.end \in BOOLEAN
    BY <1>1 DEF Stream
  <1> QED
    BY <1>1, <1>2

LEMMA SoundFacts ==
    ASSUME NEW s, Sound(s)
    PROVE  /\ s \in Senders /\ Flight(s) /\ StreamBytes(s.stream) /\ Counted(s)
           /\ s.bytes_flying = s.next_seqno - s.ack_abs
           /\ s.stream.bytes_readed + Len(s.stream.deq) + 2 < U64
           /\ s.next_seqno <= s.stream.bytes_readed + 2
           /\ U64 \in Nat
  <1>1. s \in Senders /\ Flight(s) /\ StreamBytes(s.stream) /\ Counted(s)
    BY DEF Sound
  <1>2. s.bytes_flying = s.next_seqno - s.ack_abs
    BY <1>1 DEF Flight
  <1>3. s.stream.bytes_readed + Len(s.stream.deq) <= MaxBytes
    BY <1>1 DEF StreamBytes
  <1>4. s.next_seqno <= s.stream.bytes_readed + 2
    BY <1>1, SenderFacts DEF Counted, One
  <1>5. MaxBytes \in Nat /\ MaxBytes + 2 < U64 /\ U64 \in Nat
    BY SenderAssumption, WidthAssumption
  <1>6. s.stream.bytes_readed \in Nat /\ Len(s.stream.deq) \in Nat
    BY <1>1, SenderFacts
  <1>7. s.stream.bytes_readed + Len(s.stream.deq) + 2 < U64
    BY <1>3, <1>5, <1>6
  <1> QED
    BY <1>1, <1>2, <1>4, <1>5, <1>7

LEMMA FlightSame ==
    ASSUME NEW s, NEW t, Flight(s), t.outstanding = s.outstanding,
           t.next_seqno = s.next_seqno, t.ack_abs = s.ack_abs,
           t.bytes_flying = s.bytes_flying
    PROVE  Flight(t)
  BY DEF Flight

(* A handler that has sent something within the window is done.            *)
LEMMA SentIsFilled ==
    ASSUME NEW s, Sound(s), NEW t \in Senders, Flight(t),
           StreamBytes(t.stream), Counted(t),
           t.ack_abs = s.ack_abs, t.window_size = s.window_size,
           t.consec_retrans = s.consec_retrans, s.next_seqno < t.next_seqno,
           t.next_seqno <= s.ack_abs + Greatest(s.window_size, 1)
    PROVE  Filled(s, t)
  <1>1. Sound(t)
    BY DEF Sound
  <1>2. /\ t.bytes_flying = t.next_seqno - t.ack_abs
        /\ s.bytes_flying = s.next_seqno - s.ack_abs
    BY <1>1, SoundFacts
  <1>3. /\ s.bytes_flying \in Nat /\ s.next_seqno \in Nat /\ s.ack_abs \in Nat
        /\ t.next_seqno \in Nat
    BY SoundFacts, SenderFacts
  <1>4. t.bytes_flying # 0 /\ t.next_seqno >= s.next_seqno
    BY <1>2, <1>3
  <1>5. Settled(t)
    BY <1>4 DEF Settled
  <1> QED
    BY <1>1, <1>4, <1>5 DEF Filled

(* There is room for one more sequence number.                             *)
LEMMA RoomForOne ==
    ASSUME NEW s, Sound(s), WindowOpen(s) \/ Probing(s)
    PROVE  s.next_seqno + 1 <= s.ack_abs + Greatest(s.window_size, 1)
  <1>1. /\ s.bytes_flying = s.next_seqno - s.ack_abs
        /\ s.next_seqno \in Nat /\ s.ack_abs \in Nat /\ s.window_size \in Nat
    BY SoundFacts, SenderFacts
  <1> QED
    BY <1>1 DEF WindowOpen, Probing, Greatest

SynSent(s) == SendOne(s, NewSegment(s.isn, TRUE, FALSE, <<>>))

LEMMA FillSyn ==
    ASSUME NEW s, Sound(s), s.next_seqno = 0
    PROVE  Filled(s, SynSent(s))
  <1> DEFINE seg  == NewSegment(ISN, TRUE, FALSE, <<>>)
             t    == SynSent(s)
             last == s.next_seqno + 1
  <1>1. /\ s \in Senders /\ Flight(s) /\ s.isn = ISN /\ s.ack_abs \in Nat
        /\ s.bytes_flying \in Nat /\ s.bytes_flying = s.next_seqno - s.ack_abs
        /\ s.window_size \in Nat /\ StreamBytes(s.stream) /\ Counted(s)
        /\ s.fin_sent \in BOOLEAN
    BY SoundFacts, SenderFacts
  <1>2. t = SendOne(s, seg)
    BY <1>1 DEF SynSent
  <1> HIDE DEF t
  <1>3. <<>> \in Seq(Nat) /\ Len(<<>>) = 0 /\ ISN \in Raw
    BY SenderAssumption
  <1>4. /\ seg \in Segment /\ seg.seqno = ISN /\ seg.payload = <<>>
        /\ length_in_sequence_space(seg) = 0 + One(TRUE) + One(FALSE)
    BY <1>3, NewSegmentTyped, Zenon
  <1> HIDE DEF seg
  <1>5. /\ length_in_sequence_space(seg) = 1 /\ Len(seg.payload) = 0
        /\ seg.seqno = wrap(s.next_seqno, ISN)
    BY <1>4, WrapZero DEF One
  <1>6. /\ length_in_sequence_space(seg) > 0 /\ last < U64
        /\ last = s.next_seqno + length_in_sequence_space(seg)
        /\ \A k \in 1 .. Len(seg.payload) : seg.payload[k] = s.next_seqno + k - 2
    BY <1>5, WidthAssumption
  <1> HIDE DEF last
  <1>7. /\ t \in Senders /\ Flight(t) /\ t.next_seqno = last
        /\ t.stream = s.stream /\ t.fin_sent = s.fin_sent /\ t.ack_abs = s.ack_abs
        /\ t.window_size = s.window_size /\ t.consec_retrans = s.consec_retrans
    <2>1. SentUpTo(s, t, last)
      BY <1>1, <1>2, <1>4, <1>5, <1>6, SendOneFlight
    <2> QED
      BY <2>1 DEF SentUpTo
  <1>8. t.next_seqno = 1
    BY <1>7 DEF last
  <1>9. Counted(t)
    BY <1>1, <1>7, <1>8 DEF Counted, One
  <1>10. s.next_seqno < t.next_seqno /\ t.next_seqno <= s.ack_abs + Greatest(s.window_size, 1)
    BY <1>1, <1>8 DEF Greatest
  <1> QED
    BY <1>1, <1>7, <1>9, <1>10, SentIsFilled DEF t

FinOnly(s) == NewSegment(wrap(s.next_seqno, ISN), FALSE, TRUE, <<>>)
FinSent(s) == [SendOne(s, NewSegment(next_seqno(s), FALSE, TRUE, <<>>))
                 EXCEPT !.fin_sent = TRUE]

LEMMA FinOnlyTyped ==
    ASSUME NEW s \in Senders
    PROVE  /\ FinOnly(s) \in Segment /\ FinOnly(s).seqno = wrap(s.next_seqno, ISN)
           /\ Len(FinOnly(s).payload) = 0 /\ length_in_sequence_space(FinOnly(s)) = 1
  <1> DEFINE sq  == wrap(s.next_seqno, ISN)
             seg == FinOnly(s)
  <1>1. sq \in Raw /\ 0 \in Raw
    BY SenderFacts, WrapInRaw, WidthAssumption DEF Raw
  <1> HIDE DEF sq
  <1>2. seg \in Segment
    BY <1>1 DEF FinOnly, NewSegment, Segment, sq
  <1>3. seg.seqno = sq /\ seg.payload = <<>> /\ seg.syn = FALSE /\ seg.fin = TRUE
    BY DEF FinOnly, NewSegment, sq
  <1> HIDE DEF seg
  <1>4. length_in_sequence_space(seg) = 1 /\ Len(seg.payload) = 0
    BY <1>3 DEF length_in_sequence_space, One
  <1> QED
    BY <1>2, <1>3, <1>4 DEF seg, sq

LEMMA FinFlight ==
    ASSUME NEW s \in Senders, Flight(s), NEW last, last = s.next_seqno + 1, last < U64,
           NEW u, u = SendOne(s, FinOnly(s))
    PROVE  SentUpTo(s, u, last)
  <1> DEFINE seg == FinOnly(s)
  <1>1. /\ seg \in Segment /\ seg.seqno = wrap(s.next_seqno, ISN)
        /\ Len(seg.payload) = 0 /\ length_in_sequence_space(seg) = 1
    BY FinOnlyTyped
  <1> HIDE DEF seg
  <1>2. /\ length_in_sequence_space(seg) > 0
        /\ last = s.next_seqno + length_in_sequence_space(seg)
        /\ \A k \in 1 .. Len(seg.payload) : seg.payload[k] = s.next_seqno + k - 2
    BY <1>1
  <1>3. u = SendOne(s, seg)
    BY DEF seg
  <1> QED
    BY <1>1, <1>2, <1>3, SendOneFlight

LEMMA FillFin ==
    ASSUME NEW s, Sound(s), s.next_seqno # 0, eof(s.stream), ~s.fin_sent,
           WindowOpen(s) \/ Probing(s)
    PROVE  Filled(s, FinSent(s))
  <1> DEFINE u    == SendOne(s, FinOnly(s))
             t    == FinSent(s)
             last == s.next_seqno + 1
  <1>1. /\ s \in Senders /\ Flight(s) /\ s.isn = ISN /\ s.next_seqno \in Nat
        /\ s.next_seqno <= s.stream.bytes_readed + 2
        /\ StreamBytes(s.stream) /\ Counted(s) /\ s.stream.bytes_readed \in Nat
        /\ s.stream.bytes_readed + Len(s.stream.deq) + 2 < U64 /\ U64 \in Nat
    BY SoundFacts, SenderFacts
  <1>2. t = [u EXCEPT !.fin_sent = TRUE]
    BY <1>1 DEF next_seqno, FinSent, FinOnly
  <1> HIDE DEF t
  <1>3. s.stream.end /\ Len(s.stream.deq) = 0 /\ s.next_seqno = 1 + s.stream.bytes_readed
    BY <1>1 DEF eof, buffer_empty, input_ended, Counted, One
  <1>4. last < U64
    BY <1>1, <1>3
  <1>5. u = SendOne(s, FinOnly(s)) /\ last = s.next_seqno + 1
    OBVIOUS
  <1> HIDE DEF last, u
  <1>6. /\ u \in Senders /\ Flight(u) /\ u.next_seqno = last
        /\ u.stream = s.stream /\ u.fin_sent = s.fin_sent /\ u.ack_abs = s.ack_abs
        /\ u.window_size = s.window_size /\ u.consec_retrans = s.consec_retrans
    <2>1. SentUpTo(s, u, last)
      BY <1>1, <1>4, <1>5, FinFlight
    <2> QED
      BY <2>1 DEF SentUpTo
  <1>7. /\ t \in Senders /\ t.fin_sent = TRUE
        /\ t.outstanding = u.outstanding /\ t.next_seqno = u.next_seqno
        /\ t.ack_abs = u.ack_abs /\ t.bytes_flying = u.bytes_flying
        /\ t.stream = u.stream /\ t.window_size = u.window_size
        /\ t.consec_retrans = u.consec_retrans
    BY <1>2, <1>6, Zenon DEF Senders
  <1>8. Flight(t)
    BY <1>6, <1>7, FlightSame
  <1>9. t.next_seqno = s.next_seqno + 1
    BY <1>5, <1>6, <1>7
  <1>10. Counted(t)
    BY <1>1, <1>3, <1>6, <1>7, <1>9 DEF Counted, One
  <1>11. t.next_seqno <= s.ack_abs + Greatest(s.window_size, 1) /\ s.next_seqno < t.next_seqno
    BY <1>1, <1>9, RoomForOne
  <1> QED
    BY <1>1, <1>6, <1>7, <1>8, <1>10, <1>11, SentIsFilled, SMTT(30) DEF t

(* The byte that probes a window of 0.                                     *)
Probe(s) == NewSegment(wrap(s.next_seqno, ISN), FALSE, FALSE, peek_output(s.stream, 1))
ProbeSent(s) == [SendOne(s, NewSegment(next_seqno(s), FALSE, FALSE, peek_output(s.stream, 1)))
                   EXCEPT !.stream = pop_output(@, 1)]

Pending(s) == Len(s.stream.deq) > 0

(* A sender with bytes to send has sent no FIN.                            *)
LEMMA BytesToSend ==
    ASSUME NEW s, Sound(s), s.next_seqno # 0, Pending(s)
    PROVE  /\ s.fin_sent = FALSE /\ s.next_seqno = 1 + s.stream.bytes_readed
           /\ \A k \in 1 .. Len(s.stream.deq) : s.stream.deq[k] = s.next_seqno + k - 2
  <1>1. /\ s \in Senders /\ Counted(s) /\ s.stream.bytes_readed \in Nat
        /\ StreamBytes(s.stream) /\ s.fin_sent \in BOOLEAN /\ s.next_seqno \in Nat
        /\ Len(s.stream.deq) \in Nat
    BY SoundFacts, SenderFacts
  <1>2. s.fin_sent = FALSE
    BY <1>1 DEF Counted, Pending
  <1>3. s.next_seqno = 1 + s.stream.bytes_readed
    BY <1>1, <1>2 DEF Counted, One
  <1>4. \A k \in 1 .. Len(s.stream.deq) : s.stream.deq[k] = s.stream.bytes_readed + k - 1
    BY <1>1 DEF StreamBytes
  <1>5. ASSUME NEW k \in 1 .. Len(s.stream.deq)
        PROVE  s.stream.deq[k] = s.next_seqno + k - 2
    <2>1. s.stream.deq[k] = s.stream.bytes_readed + k - 1 /\ k \in Int
      BY <1>1, <1>4
    <2> QED
      BY <1>1, <1>3, <2>1
  <1> QED
    BY <1>2, <1>3, <1>5

LEMMA HeadOf ==
    ASSUME NEW d \in Seq(Nat), Len(d) >= 1
    PROVE  SubSeq(d, 1, 1) \in Seq(Nat) /\ Len(SubSeq(d, 1, 1)) = 1 /\ SubSeq(d, 1, 1)[1] = d[1]
  OBVIOUS

LEMMA ProbeTyped ==
    ASSUME NEW s \in Senders, Pending(s)
    PROVE  /\ Probe(s) \in Segment /\ Probe(s).seqno = wrap(s.next_seqno, ISN)
           /\ Len(Probe(s).payload) = 1 /\ Probe(s).payload[1] = s.stream.deq[1]
           /\ length_in_sequence_space(Probe(s)) = 1
  <1> DEFINE sq   == wrap(s.next_seqno, ISN)
             data == peek_output(s.stream, 1)
             seg  == Probe(s)
  <1>1. sq \in Raw /\ 0 \in Raw
    BY SenderFacts, WrapInRaw, WidthAssumption DEF Raw
  <1>2. s.stream.deq \in Seq(Nat) /\ Len(s.stream.deq) \in Nat
    BY SenderFacts
  <1>3. data = SubSeq(s.stream.deq, 1, 1) /\ Len(s.stream.deq) >= 1
    BY <1>2 DEF peek_output, Least, Pending
  <1>4. data \in Seq(Nat) /\ Len(data) = 1 /\ data[1] = s.stream.deq[1]
    <2> DEFINE d == s.stream.deq
    <2>1. d \in Seq(Nat) /\ Len(d) >= 1
      BY <1>2, <1>3
    <2> HIDE DEF d
    <2>2. SubSeq(d, 1, 1) \in Seq(Nat) /\ Len(SubSeq(d, 1, 1)) = 1 /\ SubSeq(d, 1, 1)[1] = d[1]
      BY <2>1, HeadOf
    <2> QED
      BY <1>3, <2>2, Zenon DEF d
  <1> HIDE DEF sq, data
  <1>5. seg \in Segment
    BY <1>1, <1>4 DEF Probe, NewSegment, Segment, sq, data
  <1>6. seg.seqno = sq /\ seg.payload = data /\ seg.syn = FALSE /\ seg.fin = FALSE
    BY DEF Probe, NewSegment, sq, data
  <1> HIDE DEF seg
  <1>7. length_in_sequence_space(seg) = 1
    <2>1. Len(seg.payload) = 1
      BY <1>4, <1>6
    <2> QED
      BY <1>6, <2>1 DEF length_in_sequence_space, One
  <1> QED
    BY <1>4, <1>5, <1>6, <1>7 DEF seg, sq

LEMMA ProbeFlight ==
    ASSUME NEW s \in Senders, Flight(s), Pending(s),
           s.stream.deq[1] = s.next_seqno - 1,
           NEW last, last = s.next_seqno + 1, last < U64,
           NEW u, u = SendOne(s, Probe(s))
    PROVE  SentUpTo(s, u, last)
  <1> DEFINE seg == Probe(s)
  <1>1. /\ seg \in Segment /\ seg.seqno = wrap(s.next_seqno, ISN)
        /\ Len(seg.payload) = 1 /\ seg.payload[1] = s.stream.deq[1]
        /\ length_in_sequence_space(seg) = 1 /\ s.next_seqno \in Nat
    BY ProbeTyped, SenderFacts
  <1> HIDE DEF seg
  <1>2. /\ length_in_sequence_space(seg) > 0
        /\ last = s.next_seqno + length_in_sequence_space(seg)
    BY <1>1
  <1>3. \A k \in 1 .. Len(seg.payload) : seg.payload[k] = s.next_seqno + k - 2
    BY <1>1
  <1>4. u = SendOne(s, seg)
    BY DEF seg
  <1> QED
    BY <1>1, <1>2, <1>3, <1>4, SendOneFlight, SMTT(30)

LEMMA FillProbe ==
    ASSUME NEW s, Sound(s), s.next_seqno # 0, Pending(s), Probing(s)
    PROVE  Filled(s, ProbeSent(s))
  <1> DEFINE u    == SendOne(s, Probe(s))
             b    == pop_output(s.stream, 1)
             t    == ProbeSent(s)
             last == s.next_seqno + 1
  <1>1. /\ s \in Senders /\ Flight(s) /\ s.isn = ISN /\ s.next_seqno \in Nat
        /\ StreamBytes(s.stream) /\ s.stream \in Stream /\ s.stream.bytes_readed \in Nat
        /\ s.stream.bytes_readed + Len(s.stream.deq) + 2 < U64 /\ U64 \in Nat
        /\ Len(s.stream.deq) \in Nat
    BY SoundFacts, SenderFacts
  <1>2. /\ s.fin_sent = FALSE /\ s.next_seqno = 1 + s.stream.bytes_readed
        /\ s.stream.deq[1] = s.next_seqno - 1
    <2>1. 1 \in 1 .. Len(s.stream.deq)
      BY <1>1 DEF Pending
    <2>2. s.stream.deq[1] = s.next_seqno + 1 - 2
      BY <2>1, BytesToSend, Zenon
    <2>3. s.fin_sent = FALSE /\ s.next_seqno = 1 + s.stream.bytes_readed
      BY BytesToSend, Zenon
    <2> QED
      BY <1>1, <2>2, <2>3
  <1>3. last < U64
    BY <1>1, <1>2, SMTT(30) DEF Pending
  <1>4. u = SendOne(s, Probe(s)) /\ last = s.next_seqno + 1 /\ b = pop_output(s.stream, 1)
    OBVIOUS
  <1> HIDE DEF last, u, b
  <1>5. /\ u \in Senders /\ Flight(u) /\ u.next_seqno = last
        /\ u.stream = s.stream /\ u.fin_sent = s.fin_sent /\ u.ack_abs = s.ack_abs
        /\ u.window_size = s.window_size /\ u.consec_retrans = s.consec_retrans
    <2>1. SentUpTo(s, u, last)
      BY <1>1, <1>2, <1>3, <1>4, ProbeFlight, SMTT(30)
    <2> QED
      BY <2>1 DEF SentUpTo
  <1>6. t = [u EXCEPT !.stream = b]
    <2>1. t = [SendOne(s, Probe(s)) EXCEPT !.stream = pop_output(u.stream, 1)]
      BY <1>1, <1>4 DEF next_seqno, ProbeSent, Probe
    <2> QED
      BY <1>4, <1>5, <2>1
  <1> HIDE DEF t
  <1>7. 1 \in 0 .. Len(s.stream.deq)
    BY <1>1 DEF Pending
  <1>8. /\ b \in Stream /\ StreamBytes(b) /\ b.bytes_readed = s.stream.bytes_readed + 1
        /\ b.end = s.stream.end
    BY <1>1, <1>4, <1>7, PopOutput
  <1>9. /\ t \in Senders /\ t.fin_sent = u.fin_sent
        /\ t.outstanding = u.outstanding /\ t.next_seqno = u.next_seqno
        /\ t.ack_abs = u.ack_abs /\ t.bytes_flying = u.bytes_flying
        /\ t.stream = b /\ t.window_size = u.window_size
        /\ t.consec_retrans = u.consec_retrans
    BY <1>5, <1>6, <1>8 DEF Senders
  <1>10. Flight(t)
    BY <1>5, <1>9, FlightSame
  <1>11. t.next_seqno = s.next_seqno + 1 /\ t.fin_sent = FALSE
    BY <1>2, <1>4, <1>5, <1>9
  <1>12. Counted(t)
    <2>0. t.stream.bytes_readed = s.stream.bytes_readed + 1
      BY <1>8, <1>9
    <2>1. /\ t.next_seqno = 1 + t.stream.bytes_readed /\ t.next_seqno # 0
          /\ t.stream.bytes_readed \in Nat
      BY <1>1, <1>2, <1>11, <2>0, SMTT(30)
    <2>2. One(t.fin_sent) = 0 /\ ~t.fin_sent
      BY <1>11 DEF One
    <2>3. t.next_seqno = 1 + t.stream.bytes_readed + One(t.fin_sent)
      BY <2>1, <2>2
    <2> QED
      BY <2>1, <2>2, <2>3 DEF Counted
  <1>13. t.next_seqno <= s.ack_abs + Greatest(s.window_size, 1) /\ s.next_seqno < t.next_seqno
    BY <1>1, <1>11, RoomForOne
  <1> QED
    BY <1>5, <1>8, <1>9, <1>10, <1>12, <1>13, SentIsFilled DEF t
-----------------------------------------------------------------------------
(* The segments of SendData, as functions of the buffered bytes d, the     *)
(* next sequence number, the number of bytes to send and the FIN flag.     *)
Parts(total) == (total + MAX_PAYLOAD_SIZE - 1) \div MAX_PAYLOAD_SIZE
Upto(total, k) == Least(k * MAX_PAYLOAD_SIZE, total)
Part(d, next, a, b, f) ==
    NewSegment(wrap(next + a, ISN), FALSE, f, SubSeq(d, a + 1, b))
DataSegs(d, next, total, fin) ==
    [k \in 1 .. Parts(total) |->
        Part(d, next, Upto(total, k - 1), Upto(total, k), fin /\ k = Parts(total))]
DataEnds(next, total, fin) ==
    [k \in 1 .. Parts(total) |-> next + Upto(total, k) + One(fin /\ k = Parts(total))]

LEMMA UptoFacts ==
    ASSUME NEW total \in Nat \ {0}
    PROVE  /\ Parts(total) \in Nat \ {0}
           /\ Upto(total, 0) = 0 /\ Upto(total, Parts(total)) = total
           /\ \A k \in 0 .. Parts(total) : Upto(total, k) \in 0 .. total
           /\ \A k \in 1 .. Parts(total) : Upto(total, k - 1) < Upto(total, k)
  <1> DEFINE m == MAX_PAYLOAD_SIZE
             n == Parts(total)
  <1>1. m \in Nat \ {0}
    BY PayloadAssumption
  <1>2. n = (total + m - 1) \div m
    BY DEF Parts
  <1> HIDE DEF m, n
  <1>3. /\ n \in Nat \ {0} /\ total <= n * m
        /\ \A k \in 0 .. n - 1 : k * m \in Nat /\ k * m < total
    BY <1>1, <1>2, Chunks
  <1>4. \A k : Upto(total, k) = IF k * m <= total THEN k * m ELSE total
    BY DEF Upto, Least, m
  <1>5. Upto(total, 0) = 0
    BY <1>1, <1>4
  <1>6. Upto(total, n) = total
    <2>1. n * m \in Nat
      BY <1>1, <1>3
    <2> QED
      BY <1>3, <1>4, <2>1
  <1>7. ASSUME NEW k \in 0 .. n
        PROVE  Upto(total, k) \in 0 .. total
    <2>1. k * m \in Nat
      BY <1>1, <1>3
    <2> QED
      BY <1>4, <2>1
  <1>8. ASSUME NEW k \in 1 .. n
        PROVE  Upto(total, k - 1) < Upto(total, k)
    <2>1. k - 1 \in 0 .. n - 1
      BY <1>3
    <2>2. (k - 1) * m \in Nat /\ (k - 1) * m < total
      BY <1>3, <2>1
    <2>3. k * m = (k - 1) * m + m /\ k * m \in Nat
      BY <1>1, <1>3
    <2> QED
      BY <1>1, <1>4, <2>2, <2>3
  <1> QED
    BY <1>3, <1>5, <1>6, <1>7, <1>8 DEF n

(* Segment seg carries the bytes after the a-th up to the b-th.            *)
PartOf(seg, d, next, a, b, f) ==
    /\ seg \in Segment /\ seg.seqno = wrap(next + a, ISN)
    /\ Len(seg.payload) = b - a
    /\ \A j \in 1 .. b - a : seg.payload[j] = d[a + j]
    /\ length_in_sequence_space(seg) = (b - a) + One(f)

LEMMA PartTyped ==
    ASSUME NEW d \in Seq(Nat), NEW next \in Nat, NEW a \in Nat, NEW b \in Nat,
           NEW f \in BOOLEAN, a < b, b <= Len(d)
    PROVE  PartOf(Part(d, next, a, b, f), d, next, a, b, f)
  <1> DEFINE sq   == wrap(next + a, ISN)
             data == SubSeq(d, a + 1, b)
             seg  == Part(d, next, a, b, f)
  <1>1. sq \in Raw /\ 0 \in Raw
    <2>1. next + a \in Int
      OBVIOUS
    <2>2. sq \in Raw
      BY <2>1, WrapInRaw
    <2> QED
      BY <2>2, WidthAssumption DEF Raw
  <1>2. /\ data \in Seq(Nat) /\ Len(data) = b - a
        /\ \A j \in 1 .. b - a : data[j] = d[a + j]
    <2>1. Len(d) \in Nat /\ \A i \in 1 .. Len(d) : d[i] \in Nat
      OBVIOUS
    <2>2. \A i \in a + 1 .. b : d[i] \in Nat
      BY <2>1
    <2>3. a + 1 \in Int /\ b \in Int /\ a + 1 <= b
      OBVIOUS
    <2>4. /\ data \in Seq(Nat) /\ Len(data) = IF a + 1 <= b THEN b - (a + 1) + 1 ELSE 0
          /\ \A j \in 1 .. b - (a + 1) + 1 : data[j] = d[(a + 1) + j - 1]
      BY <2>2, <2>3, SubSeqProperties
    <2>5. /\ b - (a + 1) + 1 = b - a
          /\ \A j \in 1 .. b - a : (a + 1) + j - 1 = a + j
      OBVIOUS
    <2> HIDE DEF data
    <2>6. Len(data) = b - a
      BY <2>3, <2>4, <2>5
    <2> QED
      BY <2>4, <2>5, <2>6
  <1> HIDE DEF sq, data
  <1>3. seg \in Segment
    BY <1>1, <1>2 DEF Part, NewSegment, Segment, sq, data
  <1>4. seg.seqno = sq /\ seg.payload = data /\ seg.syn = FALSE /\ seg.fin = f
    BY DEF Part, NewSegment, sq, data
  <1> HIDE DEF seg
  <1>5. length_in_sequence_space(seg) = (b - a) + One(f)
    <2>1. Len(seg.payload) = b - a /\ One(f) \in Nat
      BY <1>2, <1>4 DEF One
    <2> QED
      BY <1>4, <2>1 DEF length_in_sequence_space, One
  <1>6. PartOf(seg, d, next, a, b, f)
    BY <1>2, <1>3, <1>4, <1>5 DEF PartOf, sq
  <1> QED
    BY <1>6 DEF seg

Consecutive(d, next) == \A k \in 1 .. Len(d) : d[k] = next + k - 2

(* The k-th part, and that the parts follow one another from next on.      *)
LEMMA DataFollows ==
    ASSUME NEW d \in Seq(Nat), NEW next \in Nat, NEW total \in Nat \ {0},
           NEW fin \in BOOLEAN, total <= Len(d),
           Consecutive(d, next),
           NEW segs, segs = DataSegs(d, next, total, fin),
           NEW ends, ends = DataEnds(next, total, fin)
    PROVE  /\ segs \in Seq(Segment) /\ ends \in Seq(Nat)
           /\ Len(segs) = Parts(total) /\ Len(ends) = Parts(total)
           /\ ends[Len(ends)] = next + total + One(fin) /\ next < ends[1]
           /\ Follows(next, Zip(segs, ends))
  <1> DEFINE n    == Parts(total)
             u(k) == Upto(total, k)
             f(k) == fin /\ k = n
             r    == Zip(segs, ends)
  <1>1. n \in Nat \ {0} /\ u(0) = 0 /\ u(n) = total
    BY UptoFacts
  <1>2. ASSUME NEW k \in 1 .. n
        PROVE  /\ k - 1 \in 0 .. n /\ u(k - 1) \in Nat /\ u(k) \in Nat
               /\ u(k - 1) < u(k) /\ u(k) <= Len(d)
    <2>1. k \in 0 .. n /\ k - 1 \in 0 .. n /\ Len(d) \in Nat
      BY <1>1
    <2>2. u(k - 1) \in 0 .. total /\ u(k) \in 0 .. total /\ u(k - 1) < u(k)
      BY <2>1, UptoFacts
    <2> HIDE DEF u
    <2> QED
      BY <2>1, <2>2
  <1>3. \A k \in 1 .. n : f(k) \in BOOLEAN /\ One(f(k)) \in Nat
    BY DEF One
  <1>4. /\ segs = [k \in 1 .. n |-> Part(d, next, u(k - 1), u(k), f(k))]
        /\ ends = [k \in 1 .. n |-> next + u(k) + One(f(k))]
    BY DEF DataSegs, DataEnds
  <1> HIDE DEF n, u, f
  <1>5. ASSUME NEW k \in 1 .. n
        PROVE  /\ segs[k] = Part(d, next, u(k - 1), u(k), f(k))
               /\ ends[k] = next + u(k) + One(f(k)) /\ ends[k] \in Nat
               /\ segs[k] \in Segment /\ segs[k].seqno = wrap(next + u(k - 1), ISN)
               /\ Len(segs[k].payload) = u(k) - u(k - 1)
               /\ \A j \in 1 .. u(k) - u(k - 1) : segs[k].payload[j] = d[u(k - 1) + j]
               /\ length_in_sequence_space(segs[k]) = (u(k) - u(k - 1)) + One(f(k))
    <2>1. segs[k] = Part(d, next, u(k - 1), u(k), f(k))
      BY <1>4
    <2>2. ends[k] = next + u(k) + One(f(k))
      BY <1>4
    <2> DEFINE a == u(k - 1)
               b == u(k)
               g == f(k)
               p == segs[k]
    <2>3. a \in Nat /\ b \in Nat /\ a < b /\ b <= Len(d) /\ g \in BOOLEAN /\ One(g) \in Nat
      BY <1>2, <1>3
    <2>4. p = Part(d, next, a, b, g) /\ ends[k] = next + b + One(g)
      BY <2>1, <2>2
    <2> HIDE DEF a, b, g, p
    <2>5. next + b + One(g) \in Nat
      BY <2>3
    <2>6. /\ p \in Segment /\ p.seqno = wrap(next + a, ISN)
          /\ Len(p.payload) = b - a
          /\ \A j \in 1 .. b - a : p.payload[j] = d[a + j]
          /\ length_in_sequence_space(p) = (b - a) + One(g)
      <3>1. PartOf(Part(d, next, a, b, g), d, next, a, b, g)
        BY <2>3, PartTyped
      <3>2. PartOf(p, d, next, a, b, g)
        BY <2>4, <3>1
      <3> QED
        BY <3>2 DEF PartOf
    <2> QED
      BY <2>1, <2>2, <2>4, <2>5, <2>6 DEF a, b, g, p
  <1>6. segs \in Seq(Segment) /\ ends \in Seq(Nat) /\ Len(segs) = n /\ Len(ends) = n
    <2>1. segs \in [1 .. n -> Segment] /\ ends \in [1 .. n -> Nat]
      BY <1>4, <1>5
    <2> QED
      BY <1>1, <2>1
  <1>7. ends[Len(ends)] = next + total + One(fin)
    <2>1. f(n) = fin /\ n \in 1 .. n
      BY <1>1 DEF f
    <2> QED
      BY <1>1, <1>5, <1>6, <2>1, Zenon
  <1>8. next < ends[1]
    <2>1. 1 \in 1 .. n
      BY <1>1
    <2>2. ends[1] = next + u(1) + One(f(1)) /\ u(1) \in Nat /\ u(1 - 1) \in Nat
          /\ u(1 - 1) < u(1) /\ One(f(1)) \in Nat
      BY <1>2, <1>3, <1>5, <2>1
    <2> QED
      BY <2>2
  <1>9. Len(r) = n /\ \A k \in 1 .. n : r[k].seg = segs[k] /\ r[k].end = ends[k]
    BY <1>1, <1>6 DEF Zip
  <1> HIDE DEF r
  <1>10. ASSUME NEW k \in 1 .. n
         PROVE  Start(r[k]) = next + u(k - 1)
    <2>1. Start(r[k]) = ends[k] - length_in_sequence_space(segs[k])
      BY <1>9 DEF Start
    <2>2. ends[k] = next + u(k) + One(f(k))
          /\ length_in_sequence_space(segs[k]) = (u(k) - u(k - 1)) + One(f(k))
      BY <1>5
    <2>3. u(k) \in Nat /\ u(k - 1) \in Nat /\ One(f(k)) \in Nat
      BY <1>2, <1>3
    <2> QED
      BY <2>1, <2>2, <2>3
  <1>11. ASSUME NEW k \in 1 .. n
         PROVE  Start(r[k]) = IF k = 1 THEN next ELSE r[k - 1].end
    <2>1. CASE k = 1
      <3>1. u(k - 1) = 0
        BY <1>1, <2>1
      <3> QED
        BY <1>10, <2>1, <3>1
    <2>2. CASE k # 1
      <3>1. k - 1 \in 1 .. n /\ k - 1 # n
        BY <1>1, <2>2
      <3>2. One(f(k - 1)) = 0
        BY <3>1 DEF f, One
      <3>3. r[k - 1].end = next + u(k - 1) + One(f(k - 1)) /\ u(k - 1) \in Nat
        BY <1>2, <1>5, <1>9, <3>1
      <3> QED
        BY <1>10, <2>2, <3>2, <3>3
    <2> QED
      BY <2>1, <2>2
  <1>12. ASSUME NEW k \in 1 .. n
         PROVE  RightBytes(r[k])
    <2>1. r[k].seg.seqno = wrap(Start(r[k]), ISN)
      BY <1>5, <1>9, <1>10, SMTT(30)
    <2>2. ASSUME NEW j \in 1 .. Len(r[k].seg.payload)
          PROVE  r[k].seg.payload[j] = Start(r[k]) + j - 2
      <3>1. /\ u(k) \in Nat /\ u(k - 1) \in Nat /\ u(k - 1) < u(k) /\ u(k) <= Len(d)
            /\ Len(d) \in Nat
        BY <1>2
      <3>2. j \in 1 .. u(k) - u(k - 1)
        BY <1>5, <1>9
      <3>3. r[k].seg.payload[j] = d[u(k - 1) + j]
        BY <1>5, <1>9, <3>2, SMTT(30)
      <3> DEFINE a == u(k - 1)
                 b == u(k)
      <3>4. /\ a \in Nat /\ b \in Nat /\ a < b /\ b <= Len(d) /\ j \in 1 .. b - a
            /\ r[k].seg.payload[j] = d[a + j] /\ Start(r[k]) = next + a
        BY <1>10, <3>1, <3>2, <3>3, SMTT(30)
      <3> HIDE DEF a, b
      <3>5. a + j \in 1 .. Len(d) /\ next + (a + j) - 2 = (next + a) + j - 2
        BY <3>1, <3>4
      <3>6. d[a + j] = next + (a + j) - 2
        BY <3>5 DEF Consecutive
      <3> QED
        BY <3>4, <3>5, <3>6
    <2> QED
      BY <2>1, <2>2, SMTT(30) DEF RightBytes
  <1>13. Follows(next, r)
    BY <1>9, <1>11, <1>12 DEF Follows
  <1> QED
    BY <1>6, <1>7, <1>8, <1>13 DEF n, r

LEMMA DataFlight ==
    ASSUME NEW s \in Senders, Flight(s), NEW total \in Nat \ {0}, NEW fin \in BOOLEAN,
           total <= Len(s.stream.deq), Consecutive(s.stream.deq, s.next_seqno),
           NEW last, last = s.next_seqno + total + One(fin), last < U64,
           NEW u, u = Transmit(s, DataSegs(s.stream.deq, s.next_seqno, total, fin),
                                  DataEnds(s.next_seqno, total, fin))
    PROVE  SentUpTo(s, u, last)
  <1> DEFINE d    == s.stream.deq
             next == s.next_seqno
             segs == DataSegs(d, next, total, fin)
             ends == DataEnds(next, total, fin)
             r    == Zip(segs, ends)
  <1>1. d \in Seq(Nat) /\ next \in Nat /\ Consecutive(d, next) /\ total <= Len(d)
    BY SenderFacts
  <1>2. u = Transmit(s, segs, ends) /\ r = Zip(segs, ends)
    OBVIOUS
  <1>3. segs = DataSegs(d, next, total, fin) /\ ends = DataEnds(next, total, fin)
    OBVIOUS
  <1>4. s.next_seqno = next /\ last = next + total + One(fin)
    OBVIOUS
  <1> HIDE DEF d, next, segs, ends, r
  <1>5. /\ segs \in Seq(Segment) /\ ends \in Seq(Nat)
        /\ Len(segs) = Parts(total) /\ Len(ends) = Parts(total)
        /\ ends[Len(ends)] = next + total + One(fin) /\ next < ends[1]
        /\ Follows(next, Zip(segs, ends))
    BY <1>1, <1>3, DataFollows
  <1>6. Parts(total) \in Nat \ {0}
    BY UptoFacts
  <1>7. One(fin) \in Nat /\ next <= last
    BY <1>1, <1>4 DEF One
  <1>8. /\ Len(ends) = Len(segs) /\ Len(segs) > 0 /\ last = ends[Len(ends)]
        /\ s.next_seqno < ends[1] /\ s.next_seqno <= last
        /\ Follows(s.next_seqno, r)
    BY <1>2, <1>4, <1>5, <1>6, <1>7
  <1> QED
    BY <1>2, <1>5, <1>8, TransmitFlight

Total(s) == Least(Len(s.stream.deq), s.window_size - s.bytes_flying)
FinNow(s) == /\ s.stream.end /\ Total(s) = Len(s.stream.deq)
             /\ ~s.fin_sent /\ s.window_size - s.bytes_flying > Total(s)

LEMMA SendDataIs ==
    ASSUME NEW s, s.isn = ISN
    PROVE  SendData(s) =
             [Transmit(s, DataSegs(s.stream.deq, s.next_seqno, Total(s), FinNow(s)),
                          DataEnds(s.next_seqno, Total(s), FinNow(s)))
                EXCEPT !.stream = pop_output(@, Total(s)), !.fin_sent = @ \/ FinNow(s)]
  BY DEF SendData, DataSegs, DataEnds, Part, Parts, Upto, Total, FinNow, buffer_size

(* What is sent fits in the window, the FIN too.                           *)
LEMMA TotalFacts ==
    ASSUME NEW s, Sound(s), Pending(s), WindowOpen(s)
    PROVE  /\ Total(s) \in Nat \ {0} /\ Total(s) <= Len(s.stream.deq)
           /\ FinNow(s) \in BOOLEAN /\ One(FinNow(s)) \in 0 .. 1
           /\ s.next_seqno + Total(s) + One(FinNow(s)) <= s.ack_abs + s.window_size
           /\ FinNow(s) => s.stream.end /\ Total(s) = Len(s.stream.deq)
  <1> DEFINE len  == Len(s.stream.deq)
             room == s.window_size - s.bytes_flying
  <1>1. /\ s.bytes_flying = s.next_seqno - s.ack_abs /\ s.window_size \in Nat
        /\ s.next_seqno \in Nat /\ s.ack_abs \in Nat /\ len \in Nat
    BY SoundFacts, SenderFacts
  <1>2. room \in Nat \ {0} /\ len > 0 /\ s.next_seqno + room = s.ack_abs + s.window_size
    BY <1>1 DEF WindowOpen, Pending
  <1>3. Total(s) = IF len <= room THEN len ELSE room
    BY DEF Total, Least
  <1>4. /\ FinNow(s) \in BOOLEAN
        /\ FinNow(s) => s.stream.end /\ Total(s) = len /\ room > Total(s)
    BY DEF FinNow
  <1> HIDE DEF len, room
  <1>5. Total(s) \in Nat \ {0} /\ Total(s) <= len /\ Total(s) <= room
    BY <1>1, <1>2, <1>3
  <1>6. One(FinNow(s)) \in 0 .. 1 /\ (One(FinNow(s)) = 1 => room > Total(s))
    BY <1>4 DEF One
  <1>7. s.next_seqno + Total(s) + One(FinNow(s)) <= s.ack_abs + s.window_size
    <2>1. Total(s) + One(FinNow(s)) <= room
      BY <1>2, <1>5, <1>6, SMTT(30)
    <2> QED
      BY <1>1, <1>2, <1>5, <1>6, <2>1
  <1> QED
    BY <1>4, <1>5, <1>6, <1>7 DEF len

LEMMA FillData ==
    ASSUME NEW s, Sound(s), s.next_seqno # 0, Pending(s), WindowOpen(s)
    PROVE  Filled(s, SendData(s))
  <1> DEFINE total == Total(s)
             fin   == FinNow(s)
             u     == Transmit(s, DataSegs(s.stream.deq, s.next_seqno, total, fin),
                                  DataEnds(s.next_seqno, total, fin))
             b     == pop_output(s.stream, total)
             t     == SendData(s)
             last  == s.next_seqno + total + One(fin)
  <1>1. /\ s \in Senders /\ Flight(s) /\ s.isn = ISN /\ s.next_seqno \in Nat
        /\ StreamBytes(s.stream) /\ s.stream \in Stream /\ s.stream.bytes_readed \in Nat
        /\ s.stream.bytes_readed + Len(s.stream.deq) + 2 < U64 /\ U64 \in Nat
        /\ Len(s.stream.deq) \in Nat /\ s.window_size \in Nat /\ s.ack_abs \in Nat
    BY SoundFacts, SenderFacts
  <1>2. s.fin_sent = FALSE /\ s.next_seqno = 1 + s.stream.bytes_readed
    BY BytesToSend
  <1>3. Consecutive(s.stream.deq, s.next_seqno)
    BY BytesToSend, Zenon DEF Consecutive
  <1>4. /\ total \in Nat \ {0} /\ total <= Len(s.stream.deq)
        /\ fin \in BOOLEAN /\ One(fin) \in 0 .. 1 /\ last <= s.ack_abs + s.window_size
        /\ fin => s.stream.end /\ total = Len(s.stream.deq)
    BY TotalFacts
  <1>5. t = [u EXCEPT !.stream = pop_output(u.stream, total), !.fin_sent = u.fin_sent \/ fin]
    BY <1>1, SendDataIs, Zenon
  <1>6. /\ b = pop_output(s.stream, total) /\ last = s.next_seqno + total + One(fin)
        /\ u = Transmit(s, DataSegs(s.stream.deq, s.next_seqno, total, fin),
                           DataEnds(s.next_seqno, total, fin))
    OBVIOUS
  <1> HIDE DEF total, fin, last, u, b, t
  <1>7. last < U64 /\ s.next_seqno < last
    <2> DEFINE o == One(fin)
               x == s.stream.bytes_readed
               l == Len(s.stream.deq)
    <2>1. /\ o \in 0 .. 1 /\ x \in Nat /\ l \in Nat /\ x + l + 2 < U64 /\ total <= l
          /\ s.next_seqno = 1 + x /\ last = s.next_seqno + total + o
      BY <1>1, <1>2, <1>4, <1>6, SMTT(30)
    <2> HIDE DEF o, x, l
    <2> QED
      BY <1>1, <1>4, <2>1
  <1>8. /\ u \in Senders /\ Flight(u) /\ u.next_seqno = last
        /\ u.stream = s.stream /\ u.fin_sent = s.fin_sent /\ u.ack_abs = s.ack_abs
        /\ u.window_size = s.window_size /\ u.consec_retrans = s.consec_retrans
    <2>1. SentUpTo(s, u, last)
      BY <1>1, <1>3, <1>4, <1>6, <1>7, DataFlight
    <2> QED
      BY <2>1 DEF SentUpTo
  <1>9. t = [u EXCEPT !.stream = b, !.fin_sent = fin]
    <2>1. (u.fin_sent \/ fin) = fin
      BY <1>2, <1>4, <1>8
    <2> QED
      BY <1>5, <1>6, <1>8, <2>1, Zenon
  <1>10. total \in 0 .. Len(s.stream.deq)
    BY <1>1, <1>4
  <1>11. /\ b \in Stream /\ StreamBytes(b) /\ b.bytes_readed = s.stream.bytes_readed + total
         /\ Len(b.deq) = Len(s.stream.deq) - total /\ b.end = s.stream.end
    BY <1>1, <1>6, <1>10, PopOutput, Zenon
  <1>12. /\ t \in Senders /\ t.fin_sent = fin
         /\ t.outstanding = u.outstanding /\ t.next_seqno = u.next_seqno
         /\ t.ack_abs = u.ack_abs /\ t.bytes_flying = u.bytes_flying
         /\ t.stream = b /\ t.window_size = u.window_size
         /\ t.consec_retrans = u.consec_retrans
    BY <1>4, <1>8, <1>9, <1>11, Zenon DEF Senders
  <1>13. Flight(t)
    BY <1>8, <1>12, FlightSame
  <1>14. Counted(t)
    <2>1. t.next_seqno = last /\ t.stream.bytes_readed = s.stream.bytes_readed + total
      BY <1>8, <1>11, <1>12
    <2>2. /\ t.next_seqno = 1 + t.stream.bytes_readed + One(t.fin_sent)
          /\ t.next_seqno # 0
      <3> DEFINE o == One(fin)
                 x == s.stream.bytes_readed
                 y == t.stream.bytes_readed
      <3>1. /\ o \in 0 .. 1 /\ x \in Nat /\ y = x + total /\ One(t.fin_sent) = o
            /\ s.next_seqno = 1 + x /\ t.next_seqno = s.next_seqno + total + o
        BY <1>1, <1>2, <1>4, <1>6, <1>12, <2>1
      <3> HIDE DEF o, x, y
      <3>2. t.next_seqno = 1 + y + o /\ t.next_seqno # 0
        BY <1>4, <3>1
      <3> QED
        BY <3>1, <3>2, SMTT(30) DEF y
    <2>3. t.fin_sent => t.stream.end /\ Len(t.stream.deq) = 0
      BY <1>1, <1>4, <1>11, <1>12
    <2> QED
      BY <2>2, <2>3 DEF Counted
  <1>15. t.next_seqno <= s.ack_abs + Greatest(s.window_size, 1)
    <2>1. t.next_seqno = last /\ last \in Nat
      BY <1>1, <1>4, <1>6, <1>8, <1>12, SMTT(30)
    <2> QED
      BY <1>1, <1>4, <2>1 DEF Greatest
  <1> QED
    BY <1>7, <1>8, <1>11, <1>12, <1>13, <1>14, <1>15, SentIsFilled DEF t
-----------------------------------------------------------------------------
LEMMA FillNothing ==
    ASSUME NEW s, Sound(s), s.next_seqno # 0,
           ~ (eof(s.stream) /\ ~s.fin_sent /\ (WindowOpen(s) \/ Probing(s))),
           ~ (Pending(s) /\ Probing(s)), ~ (Pending(s) /\ WindowOpen(s))
    PROVE  Filled(s, s)
  <1>1. /\ s \in Senders /\ s.next_seqno \in Nat /\ s.window_size \in Nat
        /\ s.bytes_flying \in Nat /\ Len(s.stream.deq) \in Nat
    BY SoundFacts, SenderFacts
  <1>2. ASSUME s.bytes_flying = 0
        PROVE  WindowOpen(s) \/ Probing(s)
    BY <1>1, <1>2 DEF WindowOpen, Probing
  <1>3. ASSUME s.bytes_flying = 0
        PROVE  Len(s.stream.deq) = 0 /\ (s.stream.end => s.fin_sent)
    <2>1. ~Pending(s)
      BY <1>2, <1>3
    <2>2. Len(s.stream.deq) = 0
      BY <1>1, <2>1 DEF Pending
    <2>3. s.stream.end => eof(s.stream)
      BY <2>2 DEF eof, buffer_empty, input_ended
    <2> QED
      BY <1>2, <1>3, <2>2, <2>3
  <1>4. Settled(s)
    BY <1>3 DEF Settled
  <1>5. s.next_seqno >= s.next_seqno /\ ~ (s.next_seqno > s.next_seqno)
    BY <1>1
  <1> QED
    BY <1>4, <1>5 DEF Filled

LEMMA FillWindow ==
    ASSUME NEW s, Sound(s)
    PROVE  Filled(s, fill_window(s))
  <1> DEFINE t == fill_window(s)
  <1>1. t = IF s.next_seqno = 0 THEN SynSent(s)
            ELSE IF eof(s.stream) /\ ~s.fin_sent /\ (WindowOpen(s) \/ Probing(s)) THEN FinSent(s)
            ELSE IF Pending(s) /\ Probing(s) THEN ProbeSent(s)
            ELSE IF Pending(s) /\ WindowOpen(s) THEN SendData(s)
            ELSE s
    BY DEF fill_window, SynSent, FinSent, ProbeSent, Pending, buffer_size
  <1> HIDE DEF t
  <1>2. CASE s.next_seqno = 0
    BY <1>1, <1>2, FillSyn DEF t
  <1>3. CASE s.next_seqno # 0 /\ eof(s.stream) /\ ~s.fin_sent /\ (WindowOpen(s) \/ Probing(s))
    BY <1>1, <1>3, FillFin DEF t
  <1>4. CASE /\ s.next_seqno # 0
             /\ ~ (eof(s.stream) /\ ~s.fin_sent /\ (WindowOpen(s) \/ Probing(s)))
             /\ Pending(s) /\ Probing(s)
    BY <1>1, <1>4, FillProbe DEF t
  <1>5. CASE /\ s.next_seqno # 0
             /\ ~ (eof(s.stream) /\ ~s.fin_sent /\ (WindowOpen(s) \/ Probing(s)))
             /\ ~ (Pending(s) /\ Probing(s)) /\ Pending(s) /\ WindowOpen(s)
    BY <1>1, <1>5, FillData DEF t
  <1>6. CASE /\ s.next_seqno # 0
             /\ ~ (eof(s.stream) /\ ~s.fin_sent /\ (WindowOpen(s) \/ Probing(s)))
             /\ ~ (Pending(s) /\ Probing(s)) /\ ~ (Pending(s) /\ WindowOpen(s))
    BY <1>1, <1>6, FillNothing DEF t
  <1> QED
    BY <1>2, <1>3, <1>4, <1>5, <1>6
-----------------------------------------------------------------------------
(* What a step that makes t of s guarantees.                               *)
Stepped(s, t) ==
    /\ Sound(t) /\ Settled(t)
    /\ s.ack_abs <= t.ack_abs /\ t.ack_abs <= t.next_seqno
    /\ t.consec_retrans < s.consec_retrans => s.ack_abs < t.ack_abs
    /\ t.next_seqno > s.next_seqno =>
          t.next_seqno <= t.ack_abs + Greatest(t.window_size, 1)

(* The fields that say what was sent and acknowledged.                     *)
SameData(s, t) ==
    /\ t.stream = s.stream /\ t.fin_sent = s.fin_sent
    /\ t.next_seqno = s.next_seqno /\ t.ack_abs = s.ack_abs
    /\ t.bytes_flying = s.bytes_flying /\ t.outstanding = s.outstanding

LEMMA SoundSame ==
    ASSUME NEW s, Sound(s), NEW t \in Senders, SameData(s, t)
    PROVE  Sound(t) /\ (Settled(s) => Settled(t))
  <1>1. Flight(s) /\ StreamBytes(s.stream) /\ Counted(s)
    BY DEF Sound
  <1>2. Flight(t)
    BY <1>1, FlightSame DEF SameData
  <1>3. StreamBytes(t.stream)
    BY <1>1 DEF SameData
  <1>4. Counted(t)
    BY <1>1 DEF Counted, SameData
  <1>5. Settled(s) => Settled(t)
    BY DEF Settled, SameData
  <1> QED
    BY <1>2, <1>3, <1>4, <1>5 DEF Sound

LEMMA AckWithinSent ==
    ASSUME NEW t, Sound(t)
    PROVE  t.ack_abs <= t.next_seqno
  <1>1. /\ t.bytes_flying = t.next_seqno - t.ack_abs /\ t.bytes_flying \in Nat
        /\ t.next_seqno \in Nat /\ t.ack_abs \in Nat
    BY SoundFacts, SenderFacts
  <1> QED
    BY <1>1

LEMMA SameStepped ==
    ASSUME NEW s, Sound(s), Settled(s), NEW t \in Senders, SameData(s, t),
           t.consec_retrans >= s.consec_retrans
    PROVE  Stepped(s, t)
  <1>1. Sound(t) /\ Settled(t) /\ t.ack_abs <= t.next_seqno
    BY SoundSame, AckWithinSent
  <1>2. /\ s.next_seqno \in Nat /\ s.ack_abs \in Nat /\ s.consec_retrans \in Nat
        /\ t.consec_retrans \in Nat
    BY SoundFacts, SenderFacts
  <1>3. /\ s.ack_abs <= t.ack_abs /\ ~ (t.next_seqno > s.next_seqno)
        /\ ~ (t.consec_retrans < s.consec_retrans)
    BY <1>2 DEF SameData
  <1> QED
    BY <1>1, <1>3 DEF Stepped

(* A handler that ends with fill_window(w).                                *)
LEMMA FilledStepped ==
    ASSUME NEW s, Sound(s), NEW w, Sound(w), w.next_seqno = s.next_seqno,
           s.ack_abs <= w.ack_abs,
           w.consec_retrans < s.consec_retrans => s.ack_abs < w.ack_abs,
           NEW t, t = fill_window(w)
    PROVE  Stepped(s, t)
  <1>1. Filled(w, t)
    BY FillWindow
  <1>2. Sound(t) /\ Settled(t) /\ t.ack_abs = w.ack_abs /\ t.consec_retrans = w.consec_retrans
    BY <1>1 DEF Filled
  <1>3. t.next_seqno > s.next_seqno => t.next_seqno <= t.ack_abs + Greatest(t.window_size, 1)
    BY <1>1 DEF Filled
  <1>4. t.ack_abs <= t.next_seqno
    BY <1>2, AckWithinSent
  <1> QED
    BY <1>2, <1>3, <1>4 DEF Stepped

Emptied(s) == [s EXCEPT !.segments_out = <<>>]

LEMMA EmptiedSound ==
    ASSUME NEW s, Sound(s)
    PROVE  /\ Emptied(s) \in Senders /\ Sound(Emptied(s)) /\ SameData(s, Emptied(s))
           /\ Settled(s) => Settled(Emptied(s))
           /\ Emptied(s).consec_retrans = s.consec_retrans
  <1> DEFINE d == Emptied(s)
  <1>1. s \in Senders
    BY SoundFacts
  <1>2. /\ d \in Senders /\ d.consec_retrans = s.consec_retrans
        /\ d.stream = s.stream /\ d.fin_sent = s.fin_sent
        /\ d.next_seqno = s.next_seqno /\ d.ack_abs = s.ack_abs
        /\ d.bytes_flying = s.bytes_flying /\ d.outstanding = s.outstanding
    <2> DEFINE none == <<>>
    <2>1. none \in Seq(Segment) /\ d = [s EXCEPT !.segments_out = none]
      BY DEF Emptied
    <2> HIDE DEF none, d
    <2> QED
      BY <1>1, <2>1, Zenon DEF Senders
  <1> HIDE DEF d
  <1>3. SameData(s, d)
    BY <1>2 DEF SameData
  <1> QED
    BY <1>2, <1>3, SoundSame DEF d

LEMMA ConnectStep ==
    ASSUME NEW s, Sound(s), NEW t, t = fill_window(Emptied(s))
    PROVE  Stepped(s, t)
  <1> DEFINE w == Emptied(s)
  <1>1. Sound(w) /\ SameData(s, w) /\ w.consec_retrans = s.consec_retrans /\ t = fill_window(w)
    BY EmptiedSound
  <1> HIDE DEF w
  <1>2. s.ack_abs \in Nat /\ s.consec_retrans \in Nat
    BY SoundFacts, SenderFacts
  <1>3. /\ w.next_seqno = s.next_seqno /\ s.ack_abs <= w.ack_abs
        /\ ~ (w.consec_retrans < s.consec_retrans)
    BY <1>1, <1>2 DEF SameData
  <1> QED
    BY <1>1, <1>3, FilledStepped

LEMMA StreamChanged ==
    ASSUME NEW s, Sound(s), ~s.stream.end, NEW b \in Stream, StreamBytes(b),
           b.bytes_readed = s.stream.bytes_readed,
           NEW w, w = [s EXCEPT !.stream = b]
    PROVE  /\ Sound(w) /\ w.next_seqno = s.next_seqno /\ w.ack_abs = s.ack_abs
           /\ w.consec_retrans = s.consec_retrans
  <1>1. /\ s \in Senders /\ Flight(s) /\ Counted(s) /\ s.fin_sent \in BOOLEAN
        /\ s.next_seqno \in Nat
    BY SoundFacts, SenderFacts
  <1>2. /\ w \in Senders /\ w.consec_retrans = s.consec_retrans
        /\ w.stream = b /\ w.fin_sent = s.fin_sent
        /\ w.next_seqno = s.next_seqno /\ w.ack_abs = s.ack_abs
        /\ w.bytes_flying = s.bytes_flying /\ w.outstanding = s.outstanding
    BY <1>1 DEF Senders
  <1>3. ~s.fin_sent
    BY <1>1 DEF Counted
  <1>4. Flight(w)
    BY <1>1, <1>2, FlightSame, Zenon
  <1>5. Counted(w)
    BY <1>1, <1>2, <1>3 DEF Counted
  <1> QED
    BY <1>2, <1>4, <1>5 DEF Sound

Fresh(first, len) == [k \in 1 .. len |-> first + k - 1]

LEMMA JoinFacts ==
    ASSUME NEW q \in Seq(Nat), NEW r \in Seq(Nat)
    PROVE  /\ Join(q, r) \in Seq(Nat) /\ Len(Join(q, r)) = Len(q) + Len(r)
           /\ \A k \in 1 .. Len(q) : Join(q, r)[k] = q[k]
           /\ \A k \in 1 .. Len(r) : Join(q, r)[Len(q) + k] = r[k]
  BY DEF Join

LEMMA WriteStream ==
    ASSUME NEW b \in Stream, StreamBytes(b), NEW len \in Nat,
           b.bytes_wrote + len <= MaxBytes, len <= remaining_capacity(b),
           NEW c, c = write(b, Fresh(b.bytes_wrote, len))
    PROVE  c \in Stream /\ StreamBytes(c) /\ c.bytes_readed = b.bytes_readed
  <1> DEFINE data == Fresh(b.bytes_wrote, len)
             all  == Join(b.deq, data)
  <1>1. /\ b.deq \in Seq(Nat) /\ b.bytes_readed \in Nat /\ b.bytes_wrote \in Nat
        /\ Len(b.deq) \in Nat /\ b.cap = Capacity
    BY DEF Stream
  <1>2. /\ b.bytes_wrote = b.bytes_readed + Len(b.deq)
        /\ \A k \in 1 .. Len(b.deq) : b.deq[k] = b.bytes_readed + k - 1
    BY DEF StreamBytes
  <1>3. /\ data \in Seq(Nat) /\ Len(data) = len
        /\ \A k \in 1 .. len : data[k] = b.bytes_wrote + k - 1
    <2>1. \A k \in 1 .. len : b.bytes_wrote + k - 1 \in Nat
      BY <1>1
    <2> QED
      BY <2>1 DEF Fresh
  <1> HIDE DEF data
  <1>4. Accepted(b, data) = len /\ SubSeq(data, 1, len) = data
    <2>1. Accepted(b, data) = len
      BY <1>3 DEF Accepted, Least
    <2>2. SubSeq(data, 1, len) = data
      BY <1>3, SubSeqFull
    <2> QED
      BY <2>1, <2>2
  <1>5. c = [b EXCEPT !.bytes_wrote = b.bytes_wrote + len, !.deq = all]
    BY <1>4, Zenon DEF write, Stream, Join, data
  <1>6. /\ all \in Seq(Nat) /\ Len(all) = Len(b.deq) + len
        /\ \A k \in 1 .. Len(b.deq) : all[k] = b.deq[k]
        /\ \A k \in 1 .. len : all[Len(b.deq) + k] = data[k]
    <2> DEFINE d == b.deq
    <2>1. d \in Seq(Nat)
      BY <1>1
    <2> HIDE DEF d
    <2>2. /\ Join(d, data) \in Seq(Nat) /\ Len(Join(d, data)) = Len(d) + Len(data)
          /\ \A k \in 1 .. Len(d) : Join(d, data)[k] = d[k]
          /\ \A k \in 1 .. Len(data) : Join(d, data)[Len(d) + k] = data[k]
      BY <1>3, <2>1, JoinFacts, Zenon
    <2> QED
      BY <1>3, <2>2 DEF d
  <1> HIDE DEF all
  <1>7. b.bytes_wrote + len \in Nat
    BY <1>1
  <1>8. /\ c \in Stream /\ c.bytes_readed = b.bytes_readed /\ c.deq = all
        /\ c.bytes_wrote = b.bytes_wrote + len
    BY <1>5, <1>6, <1>7, Zenon DEF Stream
  <1>9. \A k \in 1 .. Len(all) : all[k] = b.bytes_readed + k - 1
    <2> SUFFICES ASSUME NEW k \in 1 .. Len(all) PROVE all[k] = b.bytes_readed + k - 1
      OBVIOUS
    <2>1. CASE k \in 1 .. Len(b.deq)
      BY <1>2, <1>6, <2>1
    <2>2. CASE k \notin 1 .. Len(b.deq)
      <3>1. /\ k - Len(b.deq) \in 1 .. len /\ Len(b.deq) + (k - Len(b.deq)) = k
            /\ b.bytes_wrote + (k - Len(b.deq)) - 1 = b.bytes_readed + k - 1
        <4> DEFINE l == Len(b.deq)
                   x == b.bytes_readed
                   y == b.bytes_wrote
        <4>1. /\ l \in Nat /\ x \in Nat /\ y = x + l /\ k \in 1 .. l + len
              /\ k \notin 1 .. l
          BY <1>1, <1>2, <1>6, <2>2
        <4> HIDE DEF l, x, y
        <4>2. k - l \in 1 .. len /\ l + (k - l) = k /\ y + (k - l) - 1 = x + k - 1
          BY <4>1
        <4> QED
          BY <4>2 DEF l, x, y
      <3> QED
        BY <1>3, <1>6, <3>1, Zenon
    <2> QED
      BY <2>1, <2>2
  <1>10. /\ Len(all) <= Capacity /\ b.bytes_wrote + len = b.bytes_readed + Len(all)
    <2>1. len <= Capacity - Len(b.deq) /\ Capacity \in Nat
      BY <1>1, SenderAssumption DEF remaining_capacity
    <2> QED
      BY <1>1, <1>2, <1>6, <2>1
  <1>11. StreamBytes(c)
    BY <1>8, <1>9, <1>10 DEF StreamBytes
  <1> QED
    BY <1>8, <1>11

LEMMA EndStream ==
    ASSUME NEW b \in Stream, StreamBytes(b), NEW c, c = end_input(b)
    PROVE  c \in Stream /\ StreamBytes(c) /\ c.bytes_readed = b.bytes_readed
  <1>1. /\ c \in Stream /\ c.bytes_readed = b.bytes_readed /\ c.deq = b.deq
        /\ c.bytes_wrote = b.bytes_wrote
    BY Zenon DEF end_input, Stream
  <1>2. StreamBytes(c)
    BY <1>1 DEF StreamBytes
  <1> QED
    BY <1>1, <1>2

(* write() and end_input_stream() change the stream and fill the window.   *)
LEMMA StreamStep ==
    ASSUME NEW s, Sound(s), ~s.stream.end, NEW b \in Stream, StreamBytes(b),
           b.bytes_readed = s.stream.bytes_readed,
           NEW t, t = fill_window([Emptied(s) EXCEPT !.stream = b])
    PROVE  Stepped(s, t)
  <1> DEFINE e == Emptied(s)
             w == [e EXCEPT !.stream = b]
  <1>1. Sound(e) /\ SameData(s, e) /\ e.consec_retrans = s.consec_retrans
    BY EmptiedSound
  <1>2. t = fill_window(w) /\ w = [e EXCEPT !.stream = b]
    OBVIOUS
  <1> HIDE DEF e, w
  <1>3. e.stream = s.stream /\ e.next_seqno = s.next_seqno /\ e.ack_abs = s.ack_abs
    BY <1>1 DEF SameData
  <1>4. ~e.stream.end /\ b.bytes_readed = e.stream.bytes_readed
    BY <1>3
  <1>5. /\ Sound(w) /\ w.next_seqno = e.next_seqno /\ w.ack_abs = e.ack_abs
        /\ w.consec_retrans = e.consec_retrans
    BY <1>1, <1>2, <1>4, StreamChanged
  <1>6. s.ack_abs \in Nat /\ s.consec_retrans \in Nat
    BY SoundFacts, SenderFacts
  <1>7. /\ w.next_seqno = s.next_seqno /\ s.ack_abs <= w.ack_abs
        /\ ~ (w.consec_retrans < s.consec_retrans)
    BY <1>1, <1>3, <1>5, <1>6
  <1> QED
    BY <1>2, <1>5, <1>7, FilledStepped, Zenon
-----------------------------------------------------------------------------
Windowed(s, win) == [s EXCEPT !.window_size = win]
Acked(s, win, a) ==
    [s EXCEPT !.window_size    = win,
              !.curr_RTO       = s.initial_RTO,
              !.bytes_flying   = Sub64(s.bytes_flying, a - s.ack_abs),
              !.ack_abs        = a,
              !.timer          = 0,
              !.consec_retrans = 0,
              !.outstanding    = Unacknowledged(s.outstanding, a)]

LEMMA AckReceivedIs ==
    ASSUME NEW s \in Senders, NEW raw, NEW win, NEW a,
           a = unwrap(raw, ISN, s.stream.bytes_readed)
    PROVE  ack_received(s, raw, win) =
              IF ~UsefulAck(s, a) THEN Windowed(s, win)
              ELSE IF /\ WindowOpen(Acked(s, win, a)) \/ Probing(Acked(s, win, a))
                      /\ ~s.fin_sent
              THEN fill_window(Acked(s, win, a))
              ELSE Acked(s, win, a)
  <1>1. s.isn = ISN
    BY SenderFacts
  <1>2. [Windowed(s, win) EXCEPT
           !.curr_RTO       = s.initial_RTO,
           !.bytes_flying   = Sub64(@, a - s.ack_abs),
           !.ack_abs        = a,
           !.timer          = 0,
           !.consec_retrans = 0,
           !.outstanding    = Unacknowledged(@, a)] = Acked(s, win, a)
    BY DEF Windowed, Acked, Senders
  <1> QED
    BY <1>1, <1>2 DEF ack_received, Windowed

(* A useful acknowledgment acknowledges something that was sent.           *)
LEMMA UsefulIsSent ==
    ASSUME NEW s, Sound(s), s.next_seqno > 0, NEW a \in Int, UsefulAck(s, a)
    PROVE  s.ack_abs < a /\ a <= s.next_seqno /\ a \in Nat
  <1>1. /\ s.next_seqno \in Nat /\ s.ack_abs \in Nat /\ s.fin_sent \in BOOLEAN
        /\ Counted(s) /\ s.stream.bytes_readed \in Nat
    BY SoundFacts, SenderFacts
  <1>2. s.next_seqno = 1 + s.stream.bytes_readed + One(s.fin_sent)
    BY <1>1 DEF Counted
  <1>3. s.ack_abs < a /\ a <= s.stream.bytes_readed + (IF s.fin_sent THEN 2 ELSE 1)
    BY <1>1 DEF UsefulAck
  <1>4. a <= s.next_seqno
    BY <1>1, <1>2, <1>3 DEF One
  <1> QED
    BY <1>1, <1>3, <1>4

LEMMA AckedSound ==
    ASSUME NEW s, Sound(s), NEW win \in Nat, NEW a \in Nat,
           s.ack_abs < a, a <= s.next_seqno, NEW t, t = Acked(s, win, a)
    PROVE  /\ Sound(t) /\ t.next_seqno = s.next_seqno /\ t.ack_abs = a
           /\ t.stream = s.stream /\ t.fin_sent = s.fin_sent
           /\ t.consec_retrans = 0
  <1> DEFINE rest == Unacknowledged(s.outstanding, a)
             fly  == s.next_seqno - a
  <1>1. /\ s \in Senders /\ Flight(s) /\ Counted(s) /\ StreamBytes(s.stream)
        /\ s.bytes_flying = s.next_seqno - s.ack_abs
        /\ s.next_seqno \in Nat /\ s.ack_abs \in Nat
    BY SoundFacts, SenderFacts
  <1>2. s.outstanding \in Seq(Outstanding) /\ s.initial_RTO \in Nat /\ 0 \in 0 .. MaxRetx + 1
    BY <1>1, SenderAssumption DEF Senders
  <1>3. Sub64(s.bytes_flying, a - s.ack_abs) = fly /\ fly \in Nat
    BY <1>1 DEF Sub64
  <1>4. /\ Covers(s.outstanding, s.ack_abs, s.next_seqno)
        /\ \A i \in 1 .. Len(s.outstanding) : RightBytes(s.outstanding[i])
    BY <1>1 DEF Flight
  <1>5. t = [s EXCEPT !.window_size = win, !.curr_RTO = s.initial_RTO, !.bytes_flying = fly,
                      !.ack_abs = a, !.timer = 0, !.consec_retrans = 0, !.outstanding = rest]
    BY <1>3, Zenon DEF Acked
  <1>6. fly = s.next_seqno - a /\ rest = Unacknowledged(s.outstanding, a)
    OBVIOUS
  <1> HIDE DEF rest, fly
  <1>7. /\ rest \in Seq(Outstanding) /\ Covers(rest, a, s.next_seqno)
        /\ \A i \in 1 .. Len(rest) : \E j \in 1 .. Len(s.outstanding) : rest[i] = s.outstanding[j]
    <2> DEFINE q    == s.outstanding
               first == s.ack_abs
               next == s.next_seqno
    <2>1. /\ q \in Seq(Outstanding) /\ first \in Nat /\ next \in Nat /\ a \in Int
          /\ Covers(q, first, next) /\ first < a /\ a <= next /\ rest = Unacknowledged(q, a)
      BY <1>1, <1>2, <1>4, <1>6
    <2> HIDE DEF q, first, next
    <2>2. /\ rest \in Seq(Outstanding) /\ Covers(rest, a, next)
          /\ \A i \in 1 .. Len(rest) : \E j \in 1 .. Len(q) : rest[i] = q[j]
      BY <2>1, CoversSuffix
    <2> QED
      BY <2>2 DEF q, next
  <1>8. \A i \in 1 .. Len(rest) : RightBytes(rest[i])
    BY <1>4, <1>7
  <1>9. /\ t.stream = s.stream /\ t.fin_sent = s.fin_sent /\ t.consec_retrans = 0
        /\ t.next_seqno = s.next_seqno /\ t.ack_abs = a
        /\ t.bytes_flying = fly /\ t.outstanding = rest
    BY <1>1, <1>5 DEF Senders
  <1>10. t \in Senders
    <2> DEFINE rto  == s.initial_RTO
               zero == 0
    <2>1. rto \in Nat /\ zero \in Nat /\ zero \in 0 .. MaxRetx + 1
      BY <1>2
    <2>2. t = [s EXCEPT !.window_size = win, !.curr_RTO = rto, !.bytes_flying = fly,
                        !.ack_abs = a, !.timer = zero, !.consec_retrans = zero,
                        !.outstanding = rest]
      BY <1>5
    <2> HIDE DEF rto, zero
    <2> QED
      BY <1>1, <1>3, <1>7, <2>1, <2>2, ZenonT(60) DEF Senders
  <1>11. Flight(t)
    BY <1>6, <1>7, <1>8, <1>9 DEF Flight
  <1>12. Counted(t)
    BY <1>1, <1>9 DEF Counted
  <1> QED
    BY <1>1, <1>9, <1>10, <1>11, <1>12 DEF Sound

(* A sender that does not call fill_window has already sent its FIN, or    *)
(* has something in flight.                                                *)
LEMMA AckedSettled ==
    ASSUME NEW t, Sound(t), ~ (WindowOpen(t) \/ Probing(t)) \/ t.fin_sent
    PROVE  Settled(t)
  <1>1. t.bytes_flying \in Nat /\ t.window_size \in Nat /\ Counted(t)
    BY SoundFacts, SenderFacts
  <1>2. CASE ~ (WindowOpen(t) \/ Probing(t))
    <2>1. t.bytes_flying # 0
      BY <1>1, <1>2 DEF WindowOpen, Probing
    <2> QED
      BY <2>1 DEF Settled
  <1>3. CASE t.fin_sent
    BY <1>1, <1>3 DEF Settled, Counted
  <1> QED
    BY <1>2, <1>3

LEMMA AckStep ==
    ASSUME NEW s, Sound(s), Settled(s), s.next_seqno > 0, NEW raw \in Raw, NEW win \in Nat,
           NEW t, t = ack_received(s, raw, win)
    PROVE  Stepped(s, t)
  <1> DEFINE a == unwrap(raw, ISN, s.stream.bytes_readed)
             w == Acked(s, win, a)
  <1>1. /\ s \in Senders /\ s.stream.bytes_readed \in Nat /\ s.consec_retrans \in Nat
        /\ s.ack_abs \in Nat /\ s.next_seqno \in Nat /\ s.fin_sent \in BOOLEAN
    BY SoundFacts, SenderFacts
  <1>2. a \in Int
    BY <1>1, UnwrapInt, SMTT(30)
  <1>3. t = IF ~UsefulAck(s, a) THEN Windowed(s, win)
            ELSE IF (WindowOpen(w) \/ Probing(w)) /\ ~s.fin_sent THEN fill_window(w)
            ELSE w
    BY <1>1, AckReceivedIs
  <1>4. w = Acked(s, win, a)
    BY Zenon
  <1> HIDE DEF a, w
  <1>5. CASE ~UsefulAck(s, a)
    <2>1. t = [s EXCEPT !.window_size = win]
      BY <1>3, <1>5 DEF Windowed
    <2>2. /\ t \in Senders /\ t.consec_retrans = s.consec_retrans
          /\ t.stream = s.stream /\ t.fin_sent = s.fin_sent
          /\ t.next_seqno = s.next_seqno /\ t.ack_abs = s.ack_abs
          /\ t.bytes_flying = s.bytes_flying /\ t.outstanding = s.outstanding
      BY <1>1, <2>1, SMTT(30) DEF Senders
    <2>3. SameData(s, t) /\ t.consec_retrans >= s.consec_retrans
      BY <1>1, <2>2 DEF SameData
    <2> QED
      BY <2>2, <2>3, SameStepped
  <1>6. CASE UsefulAck(s, a)
    <2>1. s.ack_abs < a /\ a <= s.next_seqno /\ a \in Nat
      BY <1>2, <1>6, UsefulIsSent
    <2>2. /\ Sound(w) /\ w.next_seqno = s.next_seqno /\ w.ack_abs = a
          /\ w.stream = s.stream /\ w.fin_sent = s.fin_sent /\ w.consec_retrans = 0
      BY <1>4, <2>1, AckedSound
    <2>3. s.ack_abs <= w.ack_abs /\ s.ack_abs < w.ack_abs
      BY <1>1, <2>1, <2>2
    <2>4. CASE (WindowOpen(w) \/ Probing(w)) /\ ~s.fin_sent
      <3>1. t = fill_window(w)
        BY <1>3, <1>6, <2>4
      <3> QED
        BY <2>2, <2>3, <3>1, FilledStepped
    <2>5. CASE ~ ((WindowOpen(w) \/ Probing(w)) /\ ~s.fin_sent)
      <3>1. t = w
        BY <1>3, <1>6, <2>5
      <3>2. Settled(w) /\ w.ack_abs <= w.next_seqno
        BY <2>2, <2>5, AckedSettled, AckWithinSent
      <3>3. ~ (w.next_seqno > s.next_seqno)
        BY <1>1, <2>2
      <3> QED
        BY <2>2, <2>3, <3>1, <3>2, <3>3 DEF Stepped
    <2> QED
      BY <2>4, <2>5
  <1> QED
    BY <1>5, <1>6

LEMMA TickStep ==
    ASSUME NEW s, Sound(s), Settled(s), s.consec_retrans <= MaxRetx, NEW ms \in Nat,
           NEW t, t = TCPSender_tick(s, ms)
    PROVE  Stepped(s, t)
  <1>1. /\ s \in Senders /\ s.consec_retrans \in Nat /\ MaxRetx \in Nat
        /\ s.next_seqno \in Nat /\ s.ack_abs \in Nat
    BY SoundFacts, SenderFacts, SenderAssumption
  <1>2. /\ s.outstanding \in Seq(Outstanding) /\ s.segments_out \in Seq(Segment)
        /\ s.timer \in Nat /\ s.curr_RTO \in Nat /\ s.consec_retrans \in 0 .. MaxRetx + 1
    BY <1>1 DEF Senders
  <1>3. CASE s.outstanding = <<>>
    <2>1. t = s
      BY <1>3 DEF TCPSender_tick
    <2>2. SameData(s, s) /\ s.consec_retrans >= s.consec_retrans
      BY <1>1 DEF SameData
    <2> QED
      BY <1>1, <2>1, <2>2, SameStepped
  <1>4. CASE s.outstanding # <<>> /\ ~Due(s, ms)
    <2> DEFINE timer == s.timer + ms
    <2>1. timer \in Nat
      BY <1>2
    <2>2. t = [s EXCEPT !.timer = timer]
      BY <1>1, <1>4 DEF TCPSender_tick
    <2> HIDE DEF timer
    <2>3. t \in Senders /\ t.consec_retrans = s.consec_retrans /\ SameData(s, t)
      BY <1>1, <2>1, <2>2, Zenon DEF Senders, SameData
    <2> QED
      BY <1>1, <2>3, SameStepped
  <1>5. CASE s.outstanding # <<>> /\ Due(s, ms)
    <2> DEFINE counted == s.window_size # 0
               out     == Append(s.segments_out, s.outstanding[1].seg)
               count   == s.consec_retrans + One(counted)
               rto     == IF counted THEN 2 * s.curr_RTO ELSE s.curr_RTO
               zero    == 0
    <2>1. 1 \in 1 .. Len(s.outstanding)
      BY <1>2, <1>5
    <2>2. s.outstanding[1].seg \in Segment
      BY <1>2, <2>1, QueueTypes
    <2>3. out \in Seq(Segment) /\ zero \in Nat
      BY <1>2, <2>2
    <2>4. count \in 0 .. MaxRetx + 1 /\ count >= s.consec_retrans /\ rto \in Nat
      BY <1>1, <1>2 DEF One
    <2>5. t = [s EXCEPT !.segments_out = out, !.timer = zero,
                        !.consec_retrans = count, !.curr_RTO = rto]
      BY <1>1, <1>5 DEF TCPSender_tick
    <2> HIDE DEF out, count, rto, zero
    <2>6. t \in Senders
      BY <1>1, <2>3, <2>4, <2>5, Zenon DEF Senders
    <2>7. t.consec_retrans = count /\ SameData(s, t)
      BY <1>1, <2>5 DEF Senders, SameData
    <2> QED
      BY <2>4, <2>6, <2>7, SameStepped
  <1> QED
    BY <1>3, <1>4, <1>5

(* What a step guarantees of the emptied sender, it guarantees of s.       *)
LEMMA SteppedFrom ==
    ASSUME NEW s, NEW e, SameData(s, e), e.consec_retrans = s.consec_retrans,
           NEW t, Stepped(e, t)
    PROVE  Stepped(s, t)
  BY DEF SameData, Stepped
-----------------------------------------------------------------------------
LEMMA InitSound == Init => IInv
  <1> SUFFICES ASSUME Init PROVE Sound(snd) /\ Settled(snd)
    BY DEF IInv
  <1> DEFINE none == <<>>
             b    == NewByteStream(Capacity)
  <1>1. /\ none \in Seq(Outstanding) /\ none \in Seq(Segment) /\ none \in Seq(Nat)
        /\ Len(none) = 0 /\ none = <<>>
    OBVIOUS
  <1>2. /\ RTO \in Nat /\ ISN \in Raw /\ MaxRetx \in Nat /\ MaxBytes \in Nat
        /\ Capacity \in Nat
    BY SenderAssumption
  <1>3. /\ b \in Stream /\ Len(b.deq) = 0 /\ b.bytes_wrote = 0 /\ b.bytes_readed = 0
        /\ b.end = FALSE
    BY DEF NewByteStream, Stream
  <1>4. StreamBytes(b)
    BY <1>2, <1>3 DEF StreamBytes
  <1> HIDE DEF b, none
  <1>5. snd = [isn |-> ISN, initial_RTO |-> RTO, curr_RTO |-> RTO,
               stream |-> b, next_seqno |-> 0,
               outstanding |-> none, bytes_flying |-> 0, window_size |-> 1,
               timer |-> 0, consec_retrans |-> 0, ack_abs |-> 0, fin_sent |-> FALSE,
               segments_out |-> none]
    BY DEF Init, NewSender, b, none
  <1>6. snd \in Senders
    BY <1>1, <1>2, <1>3, <1>5 DEF Senders
  <1>7. /\ snd.stream = b /\ snd.next_seqno = 0 /\ snd.outstanding = none
        /\ snd.bytes_flying = 0 /\ snd.ack_abs = 0 /\ snd.fin_sent = FALSE
    BY <1>5
  <1>8. Flight(snd)
    BY <1>1, <1>7 DEF Flight, Covers
  <1>9. Counted(snd)
    BY <1>3, <1>7 DEF Counted
  <1>10. Settled(snd)
    BY <1>7 DEF Settled
  <1> QED
    BY <1>4, <1>6, <1>7, <1>8, <1>9, <1>10 DEF Sound

(* Every action of the machine is one of the steps above.                  *)
LEMMA NextStepped == IInv /\ Next => Stepped(snd, snd')
  <1> SUFFICES ASSUME Sound(snd), Settled(snd), Next PROVE Stepped(snd, snd')
    BY DEF IInv
  <1> DEFINE e == Emptied(snd)
  <1>1. /\ e \in Senders /\ Sound(e) /\ SameData(snd, e) /\ Settled(e)
        /\ e.consec_retrans = snd.consec_retrans
    BY EmptiedSound
  <1>2. Drained = e
    BY DEF Drained, Emptied
  <1>3. snd.stream \in Stream /\ StreamBytes(snd.stream)
    BY SoundFacts, SenderFacts
  <1> HIDE DEF e
  <1>4. e.stream = snd.stream /\ e.next_seqno = snd.next_seqno
    BY <1>1 DEF SameData
  <1>5. CASE Connect
    <2>1. snd' = fill_window(Emptied(snd))
      BY <1>2, <1>5 DEF Connect, e
    <2> QED
      BY <2>1, ConnectStep
  <1>6. ASSUME NEW len \in 1 .. Capacity, Write(len)
        PROVE  Stepped(snd, snd')
    <2> DEFINE b == write(snd.stream, Fresh(snd.stream.bytes_wrote, len))
    <2>1. /\ ~snd.stream.end /\ len \in Nat
          /\ snd.stream.bytes_wrote + len <= MaxBytes
          /\ len <= remaining_capacity(snd.stream)
      BY <1>6, SenderAssumption DEF Write
    <2>2. snd' = fill_window([e EXCEPT !.stream = write(e.stream, Fresh(snd.stream.bytes_wrote, len))])
      BY <1>2, <1>6 DEF Write, Fresh
    <2>3. snd' = fill_window([Emptied(snd) EXCEPT !.stream = b])
      BY <1>4, <2>2 DEF e
    <2>4. b \in Stream /\ StreamBytes(b) /\ b.bytes_readed = snd.stream.bytes_readed
      BY <1>3, <2>1, WriteStream
    <2> HIDE DEF b
    <2> QED
      BY <2>1, <2>3, <2>4, StreamStep
  <1>7. CASE EndInputStream
    <2> DEFINE b == end_input(snd.stream)
    <2>1. ~snd.stream.end
      BY <1>7 DEF EndInputStream
    <2>2. snd' = fill_window([e EXCEPT !.stream = end_input(e.stream)])
      BY <1>2, <1>7 DEF EndInputStream
    <2>3. snd' = fill_window([Emptied(snd) EXCEPT !.stream = b])
      BY <1>4, <2>2 DEF e
    <2>4. b \in Stream /\ StreamBytes(b) /\ b.bytes_readed = snd.stream.bytes_readed
      BY <1>3, EndStream
    <2> HIDE DEF b
    <2> QED
      BY <2>1, <2>3, <2>4, StreamStep
  <1>8. ASSUME NEW raw \in Raw, NEW win \in Windows, snd.next_seqno > 0, AckReceived(raw, win)
        PROVE  Stepped(snd, snd')
    <2>1. win \in Nat
      BY SenderAssumption
    <2>2. snd' = ack_received(e, raw, win) /\ e.next_seqno > 0
      BY <1>2, <1>4, <1>8 DEF AckReceived
    <2>3. Stepped(e, snd')
      BY <1>1, <2>1, <2>2, AckStep
    <2> QED
      BY <1>1, <2>3, SteppedFrom
  <1>9. CASE Tick(1)
    <2>1. snd' = TCPSender_tick(e, 1) /\ e.consec_retrans <= MaxRetx
      BY <1>1, <1>2, <1>9 DEF Tick
    <2>2. Stepped(e, snd')
      BY <1>1, <2>1, TickStep
    <2> QED
      BY <1>1, <2>2, SteppedFrom
  <1> QED
    BY <1>5, <1>6, <1>7, <1>8, <1>9 DEF Next
-----------------------------------------------------------------------------
(* The inductive invariant: whatever the application, the peer and the     *)
(* clock do, a TCPSender is Sound, and between two handlers it is Settled. *)
THEOREM Invariance == Spec => []IInv
  <1>1. IInv /\ [Next]_snd => IInv'
    <2> SUFFICES ASSUME IInv, [Next]_snd PROVE IInv'
      OBVIOUS
    <2>1. CASE Next
      <3>1. Sound(snd') /\ Settled(snd')
        BY <2>1, NextStepped DEF Stepped
      <3> QED
        BY <3>1 DEF IInv
    <2>2. CASE UNCHANGED snd
      BY <2>2 DEF IInv
    <2> QED
      BY <2>1, <2>2
  <1> QED
    BY InitSound, <1>1, PTL DEF Spec

(* The fields of a TCPSender stay in their types, none of the unsigned     *)
(* counters goes below 0, and the outgoing stream keeps to its capacity.   *)
THEOREM TypeCorrect == Spec => []TypeOK
  <1>1. IInv => TypeOK
    BY DEF IInv, Sound, Senders, Outstanding, StreamBytes, TypeOK
  <1> QED
    BY <1>1, Invariance, PTL

(* bytes_in_flight() counts what is sent and not acknowledged, and the     *)
(* segments kept for retransmission cover it with no gap.                  *)
THEOREM FlightIsCovered == Spec => []FlightCovered
  <1>1. IInv => FlightCovered
    <2> SUFFICES ASSUME Sound(snd) PROVE FlightCovered
      BY DEF IInv
    <2> DEFINE q == snd.outstanding
    <2>1. /\ snd.bytes_flying = snd.next_seqno - snd.ack_abs
          /\ Covers(q, snd.ack_abs, snd.next_seqno) /\ q \in Seq(Outstanding)
      BY DEF Sound, Flight, Senders
    <2>2. (q = <<>>) <=> (Len(q) = 0)
      BY <2>1
    <2>3. Len(q) \in Nat
      BY <2>1
    <2> HIDE DEF q
    <2>4. q # <<>> => Len(q) > 0
      BY <2>2, <2>3
    <2> QED
      BY <2>1, <2>2, <2>4 DEF Covers, FlightCovered, q
  <1> QED
    BY <1>1, Invariance, PTL

(* The sequence numbers used are the SYN, the bytes taken from the stream  *)
(* and the FIN, each once.                                                 *)
THEOREM NumbersAccounted == Spec => []SeqnoAccounting
  <1>1. IInv => SeqnoAccounting
    BY DEF IInv, Sound, Counted, SeqnoAccounting
  <1> QED
    BY <1>1, Invariance, PTL

(* A retransmission carries the bytes its sequence numbers stand for.      *)
THEOREM RightBytesKept == Spec => []OutstandingBytes
  <1>1. IInv => OutstandingBytes
    BY DEF IInv, Sound, Flight, RightBytes, OutstandingBytes
  <1> QED
    BY <1>1, Invariance, PTL

(* fill_window is called wherever it has to be: with nothing in flight,    *)
(* nothing is left to send.                                                *)
THEOREM NoLostWakeup == Spec => []NothingStranded
  <1>1. IInv => NothingStranded
    BY DEF IInv, Settled, NothingStranded, buffer_empty
  <1> QED
    BY <1>1, Invariance, PTL

(* fill_window never sends past the window that the peer advertised last,  *)
(* a window of 0 counting as 1.                                            *)
THEOREM WindowKept == Spec => WindowRespected
  <1>1. IInv /\ [Next]_snd =>
          [snd'.next_seqno > snd.next_seqno =>
             snd'.next_seqno <= snd'.ack_abs + Greatest(snd'.window_size, 1)]_snd
    BY NextStepped DEF Stepped
  <1> QED
    BY <1>1, Invariance, PTL DEF Spec, WindowRespected

(* ack_received never moves the acknowledged edge back nor past what was   *)
(* sent, and the backoff is undone only when it moves.                     *)
THEOREM AckedEdge == Spec => AckProgress
  <1>1. IInv /\ [Next]_snd =>
          [/\ snd.ack_abs <= snd'.ack_abs /\ snd'.ack_abs <= snd'.next_seqno
           /\ snd'.consec_retrans < snd.consec_retrans => snd.ack_abs < snd'.ack_abs]_snd
    BY NextStepped DEF Stepped
  <1> QED
    BY <1>1, Invariance, PTL DEF Spec, AckProgress
=============================================================================
