------------------------------ MODULE CopyProofs ------------------------------
(***************************************************************************)
(* bidirectional_stream_copy loses, doubles and reorders nothing, for any  *)
(* sizes of its buffers, of the kernel's and of its writes, and whatever   *)
(* ends first.                                                             *)
(*                                                                         *)
(* A byte is in one of three queues of its direction: the kernel's before  *)
(* the stream, the stream, the kernel's behind it.  A read or a write      *)
(* moves a front of one queue to the end of the next, and their            *)
(* concatenation stays what it was.                                        *)
(***************************************************************************)
EXTENDS StreamCopy, SequenceTheorems, TLAPS

(* The three queues of a direction: in the sink, in the stream, and in the  *)
(* source, and what they hold when no byte is lost.                        *)
Queues(A, B, C) == A \in Seq(Nat) /\ B \in Seq(Nat) /\ C \in Seq(Nat)

Queued(A, B, C, f, l) ==
    /\ Queues(A, B, C) /\ f \in Nat /\ l \in Nat /\ f <= l
    /\ A \o B \o C = Numbers(f, l)

(* Two ways to read a concatenation, kept as predicates of their own.      *)
Regroups(A, B, C) == (A \o B) \o C = A \o (B \o C)
Extends(A, B, x) == A \o Append(B, x) = Append(A \o B, x) /\ Append(B, x) \in Seq(Nat)

LEMMA Associative ==
    ASSUME NEW A \in Seq(Nat), NEW B \in Seq(Nat), NEW C \in Seq(Nat)
    PROVE  Regroups(A, B, C)
BY SMTT(60) DEF Regroups

LEMMA AppendOver ==
    ASSUME NEW A \in Seq(Nat), NEW B \in Seq(Nat), NEW x \in Nat
    PROVE  Extends(A, B, x)
BY SMTT(60) DEF Extends

LEMMA Split ==
    ASSUME NEW s \in Seq(Nat), NEW k \in 0 .. Len(s)
    PROVE  /\ SubSeq(s, 1, k) \in Seq(Nat) /\ Len(SubSeq(s, 1, k)) = k
           /\ SubSeq(s, k + 1, Len(s)) \in Seq(Nat)
           /\ SubSeq(s, 1, k) \o SubSeq(s, k + 1, Len(s)) = s
<1>1. Len(s) \in Nat /\ \A j \in 1 .. Len(s) : s[j] \in Nat
  BY LenProperties, ElementOfSeq
<1>2. \A j \in 1 .. k : s[j] \in Nat
  BY <1>1
<1>3. \A j \in k + 1 .. Len(s) : s[j] \in Nat
  BY <1>1
<1>4. SubSeq(s, 1, k) \in Seq(Nat) /\ Len(SubSeq(s, 1, k)) = k
  BY <1>1, <1>2, SubSeqProperties
<1>5. SubSeq(s, k + 1, Len(s)) \in Seq(Nat)
  BY <1>1, <1>3, SubSeqProperties
<1>6. 1 \in 1 .. Len(s) + 1 /\ k \in 1 - 1 .. Len(s) /\ Len(s) \in k .. Len(s)
  BY <1>1
<1>7. SubSeq(s, 1, k) \o SubSeq(s, k + 1, Len(s)) = SubSeq(s, 1, Len(s))
  BY <1>6, ConcatAdjacentSubSeq, ZenonT(30)
<1>8. SubSeq(s, 1, Len(s)) = s
  BY SubSeqFull
<1> QED BY <1>4, <1>5, <1>7, <1>8, ZenonT(30)

(* The moves of a byte between the three queues.                           *)
LEMMA MoveIn ==
    ASSUME NEW A, NEW B, NEW C, NEW f, NEW l, Queued(A, B, C, f, l), NEW k \in 0 .. Len(C)
    PROVE  Queued(A, B \o SubSeq(C, 1, k), SubSeq(C, k + 1, Len(C)), f, l)
<1> DEFINE c1 == SubSeq(C, 1, k)
           c2 == SubSeq(C, k + 1, Len(C))
<1>1. A \in Seq(Nat) /\ B \in Seq(Nat) /\ C \in Seq(Nat)
  BY DEF Queued, Queues
<1>2. c1 \in Seq(Nat) /\ c2 \in Seq(Nat) /\ c1 \o c2 = C
  BY <1>1, Split, ZenonT(30)
<1> HIDE DEF c1, c2
<1>3. B \o c1 \in Seq(Nat)
  BY ONLY <1>1, <1>2, ConcatProperties
<1>4. A \o (B \o c1) \o c2 = A \o B \o (c1 \o c2)
  <2>1. A \o B \in Seq(Nat)
    BY ONLY <1>1, ConcatProperties
  <2>2. Regroups(A, B, c1) /\ Regroups(A \o B, c1, c2)
    BY ONLY <1>1, <1>2, <2>1, Associative, Zenon
  <2> QED BY ONLY <2>2 DEF Regroups
<1>5. Queued(A, B \o c1, c2, f, l)
  BY <1>1, <1>2, <1>3, <1>4, Zenon DEF Queued, Queues
<1> QED BY ONLY <1>5 DEF c1, c2

LEMMA MoveOut ==
    ASSUME NEW A, NEW B, NEW C, NEW f, NEW l, Queued(A, B, C, f, l), NEW k \in 0 .. Len(B)
    PROVE  Queued(A \o SubSeq(B, 1, k), SubSeq(B, k + 1, Len(B)), C, f, l)
<1> DEFINE b1 == SubSeq(B, 1, k)
           b2 == SubSeq(B, k + 1, Len(B))
<1>1. A \in Seq(Nat) /\ B \in Seq(Nat) /\ C \in Seq(Nat)
  BY DEF Queued, Queues
<1>2. b1 \in Seq(Nat) /\ b2 \in Seq(Nat) /\ b1 \o b2 = B
  BY <1>1, Split, ZenonT(30)
<1> HIDE DEF b1, b2
<1>3. A \o b1 \in Seq(Nat)
  BY ONLY <1>1, <1>2, ConcatProperties
<1>4. (A \o b1) \o b2 = A \o (b1 \o b2)
  <2>1. Regroups(A, b1, b2)
    BY ONLY <1>1, <1>2, Associative, Zenon
  <2> QED BY ONLY <2>1 DEF Regroups
<1>5. Queued(A \o b1, b2, C, f, l)
  BY <1>1, <1>2, <1>3, <1>4, Zenon DEF Queued, Queues
<1> QED BY ONLY <1>5 DEF b1, b2
-----------------------------------------------------------------------------
LEMMA NumbersAre ==
    ASSUME NEW f \in Nat, NEW l \in Nat, f <= l
    PROVE  /\ Numbers(f, l) \in Seq(Nat) /\ Len(Numbers(f, l)) = l - f
           /\ \A j \in 1 .. l - f : Numbers(f, l)[j] = f + j
<1>1. Numbers(f, l) \in [1 .. l - f -> Nat] /\ l - f \in Nat
  BY DEF Numbers
<1>2. Numbers(f, l) \in Seq(Nat)
  BY <1>1, SeqDef
<1>3. Len(Numbers(f, l)) = l - f
  BY <1>1, <1>2, LenProperties
<1> QED BY <1>2, <1>3 DEF Numbers

LEMMA Put ==
    ASSUME NEW A, NEW B, NEW C, NEW f, NEW l, Queued(A, B, C, f, l)
    PROVE  Queued(A, B, Append(C, l + 1), f, l + 1)
<1> DEFINE P == A \o B
           N == Numbers(f, l)
           M == Numbers(f, l + 1)
           Q == Append(N, l + 1)
<1>0. /\ A \in Seq(Nat) /\ B \in Seq(Nat) /\ C \in Seq(Nat)
      /\ f \in Nat /\ l \in Nat /\ f <= l /\ A \o B \o C = Numbers(f, l)
  BY DEF Queued, Queues
<1>1. P \in Seq(Nat) /\ P \o C = N
  BY <1>0, ConcatProperties
<1>2. N \in Seq(Nat) /\ Len(N) = l - f /\ \A j \in 1 .. l - f : N[j] = f + j
  BY <1>0, NumbersAre, ZenonT(30)
<1>3. M \in Seq(Nat) /\ Len(M) = (l + 1) - f /\ \A j \in 1 .. (l + 1) - f : M[j] = f + j
  <2>1. l + 1 \in Nat /\ f <= l + 1
    BY <1>0
  <2> QED BY <1>0, <2>1, NumbersAre, ZenonT(30)
<1> HIDE DEF P, N, M
<1>4. /\ Q \in Seq(Nat) /\ Len(Q) = Len(N) + 1 /\ Q[Len(N) + 1] = l + 1
      /\ \A j \in 1 .. Len(N) : Q[j] = N[j]
  <2> DEFINE x == l + 1
  <2>1. x \in Nat /\ N \in Seq(Nat)
    BY <1>0, <1>2
  <2> HIDE DEF x
  <2>2. /\ Append(N, x) \in Seq(Nat) /\ Len(Append(N, x)) = Len(N) + 1
        /\ Append(N, x)[Len(N) + 1] = x
        /\ \A j \in 1 .. Len(N) : Append(N, x)[j] = N[j]
    BY ONLY <2>1, AppendProperties
  <2> QED BY ONLY <2>2 DEF x
<1> HIDE DEF Q
<1>5. \A j \in 1 .. Len(Q) : Q[j] = M[j]
  <2> TAKE j \in 1 .. Len(Q)
  <2>1. CASE j <= l - f
    BY <1>0, <1>2, <1>3, <1>4, <2>1
  <2>2. CASE j = (l + 1) - f
    BY <1>0, <1>2, <1>3, <1>4, <2>2
  <2> QED BY <1>0, <1>2, <1>4, <2>1, <2>2
<1>6. Len(Q) = Len(M)
  BY <1>0, <1>2, <1>3, <1>4
<1>7. Q = M
  BY <1>3, <1>4, <1>5, <1>6, SeqEqual, ZenonT(30)
<1>8. P \o Append(C, l + 1) = Append(P \o C, l + 1) /\ Append(C, l + 1) \in Seq(Nat)
  <2>1. l + 1 \in Nat
    BY <1>0
  <2>2. Extends(P, C, l + 1)
    BY ONLY <1>0, <1>1, <2>1, AppendOver, Zenon
  <2> QED BY ONLY <2>2, Zenon DEF Extends
<1>9. P \o Append(C, l + 1) = M
  BY <1>1, <1>7, <1>8, Zenon DEF Q
<1>10. l + 1 \in Nat /\ f <= l + 1
  BY <1>0
<1> QED BY <1>0, <1>8, <1>9, <1>10, Zenon DEF P, M, Queued, Queues

LEMMA Take ==
    ASSUME NEW A, NEW B, NEW C, NEW f, NEW l, A # <<>>, Queued(A, B, C, f, l)
    PROVE  Queued(Tail(A), B, C, f + 1, l)
<1> DEFINE N == Numbers(f, l)
           M == Numbers(f + 1, l)
           R == B \o C
           T == Tail(A)
           X == T \o R
<1>0. /\ A \in Seq(Nat) /\ B \in Seq(Nat) /\ C \in Seq(Nat)
      /\ A \o B \o C = Numbers(f, l)
  BY DEF Queued, Queues
<1>n. f \in Nat /\ l \in Nat /\ f <= l
  BY DEF Queued
<1>1. R \in Seq(Nat) /\ A \o R = N
  <2>1. Regroups(A, B, C)
    BY ONLY <1>0, Associative, Zenon
  <2> QED BY <1>0, <2>1, ConcatProperties DEF Regroups
<1>2. /\ T \in Seq(Nat) /\ Len(T) = Len(A) - 1 /\ Len(A) \in Nat /\ Len(A) > 0
      /\ \A j \in 1 .. Len(T) : T[j] = A[j + 1]
  BY <1>0, HeadTailProperties, LenProperties, EmptySeq
<1>3. N \in Seq(Nat) /\ Len(N) = l - f /\ \A j \in 1 .. l - f : N[j] = f + j
  BY <1>n, NumbersAre, ZenonT(30)
<1>4. (T \o B) \o C = X
  <2>1. Regroups(T, B, C)
    BY ONLY <1>0, <1>2, Associative, Zenon
  <2> QED BY ONLY <2>1, Zenon DEF Regroups
<1> HIDE DEF R, T, N, M
<1>5. Len(R) \in Nat
  BY <1>0, <1>1, LenProperties
<1>6. /\ Len(N) = Len(A) + Len(R)
      /\ \A j \in 1 .. Len(A) + Len(R) : N[j] = IF j <= Len(A) THEN A[j] ELSE R[j - Len(A)]
  BY <1>0, <1>1, ConcatProperties
<1>7. f + 1 <= l
  BY <1>n, <1>2, <1>3, <1>5, <1>6
<1>8. M \in Seq(Nat) /\ Len(M) = l - (f + 1) /\ \A j \in 1 .. l - (f + 1) : M[j] = f + 1 + j
  <2>1. f + 1 \in Nat
    BY <1>n
  <2> QED BY <1>n, <1>7, <2>1, NumbersAre, ZenonT(30) DEF M
<1>9. /\ X \in Seq(Nat) /\ Len(X) = Len(T) + Len(R)
      /\ \A j \in 1 .. Len(T) + Len(R) : X[j] = IF j <= Len(T) THEN T[j] ELSE R[j - Len(T)]
  BY <1>0, <1>1, <1>2, ConcatProperties, ZenonT(30)
<1> HIDE DEF X
<1> DEFINE la == Len(A)
           lr == Len(R)
<1>l. /\ la \in Nat /\ la > 0 /\ lr \in Nat /\ la + lr = l - f
      /\ Len(T) = la - 1 /\ Len(X) = la - 1 + lr /\ Len(M) = l - (f + 1)
  BY <1>n, <1>2, <1>3, <1>5, <1>6, <1>8, <1>9, ZenonT(30)
<1> HIDE DEF la, lr
<1>10. Len(X) = Len(M) /\ Len(X) \in Nat
  BY <1>n, <1>l
<1>11. \A j \in 1 .. Len(X) : X[j] = M[j]
  <2> TAKE j \in 1 .. Len(X)
  <2>1. j \in Nat /\ j >= 1 /\ j <= la - 1 + lr
    BY <1>n, <1>l
  <2>2. j + 1 \in 1 .. l - f /\ j \in 1 .. l - (f + 1) /\ j + 1 \in 1 .. la + lr
        /\ j \in 1 .. Len(T) + lr
    BY <1>n, <1>l, <2>1
  <2>3. N[j + 1] = f + (j + 1) /\ M[j] = f + 1 + j
    BY <1>n, <1>3, <1>8, <2>2
  <2>4. N[j + 1] = M[j]
    BY ONLY <1>n, <2>1, <2>3
  <2>5. N[j + 1] = IF j + 1 <= la THEN A[j + 1] ELSE R[(j + 1) - la]
    BY <1>0, <1>6, <2>2 DEF la, lr
  <2>6. X[j] = IF j <= Len(T) THEN T[j] ELSE R[j - Len(T)]
    BY <1>0, <1>9, <2>2, ZenonT(30) DEF lr
  <2>7. CASE j <= Len(T)
    <3>1. j \in 1 .. Len(T) /\ j + 1 <= la
      BY <1>n, <1>l, <2>1, <2>7
    <3> QED BY <1>0, <1>2, <2>4, <2>5, <2>6, <2>7, <3>1
  <2>8. CASE ~(j <= Len(T))
    <3>1. ~(j + 1 <= la) /\ (j + 1) - la = j - Len(T)
      BY <1>n, <1>l, <2>1, <2>8
    <3> QED BY <2>4, <2>5, <2>6, <2>8, <3>1
  <2> QED BY <2>7, <2>8
<1>12. X = M
  BY ONLY <1>8, <1>9, <1>10, <1>11, SeqEqual, ZenonT(30)
<1>13. f + 1 \in Nat
  BY <1>n
<1> QED BY <1>0, <1>n, <1>2, <1>4, <1>7, <1>12, <1>13, Zenon DEF M, T, Queued, Queues
-----------------------------------------------------------------------------
(* What the proof needs of the types: the fields that are there, and that  *)
(* the queues are sequences of numbers.                                    *)
IsStream(b) ==
    /\ b = [cap |-> b.cap, deq |-> b.deq, bytes_wrote |-> b.bytes_wrote,
            bytes_readed |-> b.bytes_readed, end |-> b.end, error |-> b.error]
    /\ b.cap \in Nat /\ b.deq \in Seq(Nat)

IsApp(a) ==
    /\ a = [outbound |-> a.outbound, inbound |-> a.inbound, shutdown |-> a.shutdown, fd |-> a.fd]
    /\ IsStream(a.outbound) /\ IsStream(a.inbound)

IsChannel(c) ==
    /\ c = [buf |-> c.buf, ended |-> c.ended, broken |-> c.broken,
            made |-> c.made, taken |-> c.taken]
    /\ c.buf \in Seq(Nat) /\ c.made \in Nat /\ c.taken \in Nat

Channels == {"input", "toTcp", "toOwner", "output"}

AreChannels(g) == g = [c \in Channels |-> g[c]] /\ \A c \in Channels : IsChannel(g[c])

CopyType == IsApp(app) /\ AreChannels(chan)

(* A direction: what is between its two ends, in the three queues.         *)
Whole(from, b, to) == Queued(to.buf, b.deq, from.buf, to.taken, from.made)

CopyInv ==
    /\ CopyType
    /\ Whole(chan["input"], app.outbound, chan["toTcp"])
    /\ Whole(chan["toOwner"], app.inbound, chan["output"])

(* The streams of a and b hold the same bytes.                             *)
SameBytes(a, b) == b.outbound.deq = a.outbound.deq /\ b.inbound.deq = a.inbound.deq

LEMMA StreamEnds ==
    ASSUME NEW b, IsStream(b)
    PROVE  IsStream(end_input(b)) /\ end_input(b).deq = b.deq
<1> DEFINE yes == TRUE
<1>1. end_input(b) = [b EXCEPT !.end = yes]
  BY DEF end_input
<1> HIDE DEF yes
<1>2. [b EXCEPT !.end = yes] = [cap |-> b.cap, deq |-> b.deq, bytes_wrote |-> b.bytes_wrote,
                                bytes_readed |-> b.bytes_readed, end |-> yes, error |-> b.error]
  BY DEF IsStream
<1>3. IsStream([b EXCEPT !.end = yes]) /\ [b EXCEPT !.end = yes].deq = b.deq
  BY <1>2 DEF IsStream
<1> QED BY <1>1, <1>3

LEMMA StreamWritten ==
    ASSUME NEW b, IsStream(b), NEW bytes \in Seq(Nat), Len(bytes) <= remaining_capacity(b)
    PROVE  IsStream(write(b, bytes)) /\ write(b, bytes).deq = b.deq \o bytes
<1>1. Accepted(b, bytes) = Len(bytes)
  BY DEF Accepted, Least
<1>2. SubSeq(bytes, 1, Len(bytes)) = bytes
  BY SubSeqFull
<1> DEFINE w == b.bytes_wrote + Len(bytes)
           d == b.deq \o bytes
<1>3. d \in Seq(Nat)
  BY ConcatProperties DEF IsStream
<1>4. write(b, bytes) = [b EXCEPT !.bytes_wrote = w, !.deq = d]
  BY <1>1, <1>2, ZenonT(30) DEF write
<1> HIDE DEF w, d
<1>5. write(b, bytes) = [cap |-> b.cap, deq |-> d, bytes_wrote |-> w,
                         bytes_readed |-> b.bytes_readed, end |-> b.end, error |-> b.error]
  BY <1>4, ZenonT(30) DEF IsStream
<1>6. write(b, bytes).deq = d /\ IsStream(write(b, bytes))
  BY <1>3, <1>5 DEF IsStream
<1> QED BY <1>6 DEF d

LEMMA StreamPopped ==
    ASSUME NEW b, IsStream(b), NEW k \in 0 .. Len(b.deq)
    PROVE  /\ IsStream(pop_output(b, k))
           /\ pop_output(b, k).deq = SubSeq(b.deq, k + 1, Len(b.deq))
           /\ peek_output(b, k) = SubSeq(b.deq, 1, k)
<1>0. Len(b.deq) \in Nat
  BY LenProperties DEF IsStream
<1>1. Least(k, Len(b.deq)) = k
  BY <1>0 DEF Least
<1> DEFINE d == SubSeq(b.deq, k + 1, Len(b.deq))
           r == b.bytes_readed + k
<1>2. d \in Seq(Nat)
  BY Split DEF IsStream
<1>3. pop_output(b, k) = [b EXCEPT !.deq = d, !.bytes_readed = r]
  BY <1>1 DEF pop_output
<1> HIDE DEF d, r
<1>4. pop_output(b, k) = [cap |-> b.cap, deq |-> d, bytes_wrote |-> b.bytes_wrote,
                          bytes_readed |-> r, end |-> b.end, error |-> b.error]
  BY <1>3, ZenonT(30) DEF IsStream
<1>5. IsStream(pop_output(b, k)) /\ pop_output(b, k).deq = d
  BY <1>2, <1>4 DEF IsStream
<1> QED BY <1>1, <1>5 DEF d, peek_output

LEMMA OutboundReplaced ==
    ASSUME NEW a, IsApp(a), NEW b, IsStream(b)
    PROVE  /\ IsApp(Into(a, "outbound", b))
           /\ Into(a, "outbound", b).outbound = b /\ Into(a, "outbound", b).inbound = a.inbound
           /\ Of(a, "outbound") = a.outbound
<1>1. Into(a, "outbound", b) = [outbound |-> b, inbound |-> a.inbound,
                                shutdown |-> a.shutdown, fd |-> a.fd]
  BY DEF Into, IsApp
<1> QED BY <1>1 DEF IsApp, Of

LEMMA InboundReplaced ==
    ASSUME NEW a, IsApp(a), NEW b, IsStream(b)
    PROVE  /\ IsApp(Into(a, "inbound", b))
           /\ Into(a, "inbound", b).inbound = b /\ Into(a, "inbound", b).outbound = a.outbound
           /\ Of(a, "inbound") = a.inbound
<1>1. Into(a, "inbound", b) = [outbound |-> a.outbound, inbound |-> b,
                               shutdown |-> a.shutdown, fd |-> a.fd]
  BY DEF Into, IsApp
<1> QED BY <1>1 DEF IsApp, Of

(* Changes of the handles and the flags leave the streams alone.           *)
LEMMA FdChanged ==
    ASSUME NEW a, IsApp(a), NEW f
    PROVE  /\ IsApp([a EXCEPT !.fd = f])
           /\ [a EXCEPT !.fd = f].outbound = a.outbound
           /\ [a EXCEPT !.fd = f].inbound = a.inbound
<1>1. [a EXCEPT !.fd = f] =
        [outbound |-> a.outbound, inbound |-> a.inbound, shutdown |-> a.shutdown, fd |-> f]
  BY DEF IsApp
<1> QED BY <1>1 DEF IsApp

LEMMA ShutdownChanged ==
    ASSUME NEW a, IsApp(a), NEW d
    PROVE  /\ IsApp([a EXCEPT !.shutdown = d])
           /\ [a EXCEPT !.shutdown = d].outbound = a.outbound
           /\ [a EXCEPT !.shutdown = d].inbound = a.inbound
<1>1. [a EXCEPT !.shutdown = d] =
        [outbound |-> a.outbound, inbound |-> a.inbound, shutdown |-> d, fd |-> a.fd]
  BY DEF IsApp
<1> QED BY <1>1 DEF IsApp

LEMMA Cancelled ==
    ASSUME NEW a, IsApp(a), NEW n \in Rule
    PROVE  IsApp(cancel(a, n)) /\ SameBytes(a, cancel(a, n))
<1>1. CASE Stream[n] = "outbound"
  <2> DEFINE b == end_input(a.outbound)
  <2>1. IsStream(b) /\ b.deq = a.outbound.deq
    BY StreamEnds DEF IsApp
  <2>2. cancel(a, n) = Into(a, "outbound", b)
    BY <1>1 DEF cancel, Of
  <2> HIDE DEF b
  <2> QED BY <2>1, <2>2, OutboundReplaced DEF SameBytes
<1>2. CASE Stream[n] = "inbound"
  <2> DEFINE b == end_input(a.inbound)
  <2>1. IsStream(b) /\ b.deq = a.inbound.deq
    BY StreamEnds DEF IsApp
  <2>2. cancel(a, n) = Into(a, "inbound", b)
    BY <1>2 DEF cancel, Of
  <2> HIDE DEF b
  <2> QED BY <2>1, <2>2, InboundReplaced DEF SameBytes
<1> QED BY <1>1, <1>2 DEF Rule, Stream

LEMMA ReadOutbound ==
    ASSUME NEW a, IsApp(a), NEW bytes \in Seq(Nat),
           Len(bytes) <= remaining_capacity(a.outbound)
    PROVE  /\ IsApp(WithRead(a, 1, bytes))
           /\ WithRead(a, 1, bytes).outbound.deq = a.outbound.deq \o bytes
           /\ WithRead(a, 1, bytes).inbound = a.inbound
<1> DEFINE s == write(a.outbound, bytes)
           h == FileDescriptor_read(a.fd[Fd[1]], remaining_capacity(a.outbound), bytes)
           t == IF h.eof THEN end_input(s) ELSE s
           x == Into(a, "outbound", t)
           f == [x.fd EXCEPT ![Fd[1]] = h]
<1>1. IsStream(s) /\ s.deq = a.outbound.deq \o bytes
  BY StreamWritten DEF IsApp
<1>2. WithRead(a, 1, bytes) = [x EXCEPT !.fd = f]
  BY DEF WithRead, Stream, Of
<1> HIDE DEF s, h
<1>3. IsStream(t) /\ t.deq = s.deq
  BY <1>1, StreamEnds
<1> HIDE DEF t
<1>4. IsApp(x) /\ x.outbound = t /\ x.inbound = a.inbound
  BY <1>3, OutboundReplaced
<1> HIDE DEF x, f
<1> DEFINE y == [x EXCEPT !.fd = f]
<1>5. IsApp(y) /\ y.outbound = x.outbound /\ y.inbound = x.inbound
  BY <1>4, FdChanged, ZenonT(30)
<1> HIDE DEF y
<1>6. WithRead(a, 1, bytes) = y
  BY <1>2 DEF y
<1> QED BY <1>1, <1>3, <1>4, <1>5, <1>6, SMTT(60)

LEMMA ReadInbound ==
    ASSUME NEW a, IsApp(a), NEW bytes \in Seq(Nat),
           Len(bytes) <= remaining_capacity(a.inbound)
    PROVE  /\ IsApp(WithRead(a, 3, bytes))
           /\ WithRead(a, 3, bytes).inbound.deq = a.inbound.deq \o bytes
           /\ WithRead(a, 3, bytes).outbound = a.outbound
<1> DEFINE s == write(a.inbound, bytes)
           h == FileDescriptor_read(a.fd[Fd[3]], remaining_capacity(a.inbound), bytes)
           t == IF h.eof THEN end_input(s) ELSE s
           x == Into(a, "inbound", t)
           f == [x.fd EXCEPT ![Fd[3]] = h]
<1>1. IsStream(s) /\ s.deq = a.inbound.deq \o bytes
  BY StreamWritten DEF IsApp
<1>2. WithRead(a, 3, bytes) = [x EXCEPT !.fd = f]
  BY DEF WithRead, Stream, Of
<1> HIDE DEF s, h
<1>3. IsStream(t) /\ t.deq = s.deq
  BY <1>1, StreamEnds
<1> HIDE DEF t
<1>4. IsApp(x) /\ x.inbound = t /\ x.outbound = a.outbound
  BY <1>3, InboundReplaced
<1> HIDE DEF x, f
<1> DEFINE y == [x EXCEPT !.fd = f]
<1>5. IsApp(y) /\ y.outbound = x.outbound /\ y.inbound = x.inbound
  BY <1>4, FdChanged, ZenonT(30)
<1> HIDE DEF y
<1>6. WithRead(a, 3, bytes) = y
  BY <1>2 DEF y
<1> QED BY <1>1, <1>3, <1>4, <1>5, <1>6

LEMMA WriteOutbound ==
    ASSUME NEW a, IsApp(a), NEW k \in 0 .. Len(a.outbound.deq)
    PROVE  /\ IsApp(WithWrite(a, 2, k))
           /\ WithWrite(a, 2, k).outbound.deq = SubSeq(a.outbound.deq, k + 1, Len(a.outbound.deq))
           /\ WithWrite(a, 2, k).inbound = a.inbound
<1> DEFINE s == pop_output(a.outbound, k)
           x == Into(a, "outbound", s)
           f == [x.fd EXCEPT ![Fd[2]] = register_write(@)]
<1>1. IsStream(s) /\ s.deq = SubSeq(a.outbound.deq, k + 1, Len(a.outbound.deq))
  BY StreamPopped DEF IsApp
<1>2. WithWrite(a, 2, k) = [x EXCEPT !.fd = f]
  BY DEF WithWrite, Stream, Of
<1> HIDE DEF s
<1>3. IsApp(x) /\ x.outbound = s /\ x.inbound = a.inbound
  BY <1>1, OutboundReplaced
<1> HIDE DEF x, f
<1> DEFINE y == [x EXCEPT !.fd = f]
<1>4. IsApp(y) /\ y.outbound = x.outbound /\ y.inbound = x.inbound
  BY <1>3, FdChanged
<1> HIDE DEF y
<1>5. WithWrite(a, 2, k) = y
  BY <1>2 DEF y
<1> QED BY <1>1, <1>3, <1>4, <1>5

LEMMA WriteInbound ==
    ASSUME NEW a, IsApp(a), NEW k \in 0 .. Len(a.inbound.deq)
    PROVE  /\ IsApp(WithWrite(a, 4, k))
           /\ WithWrite(a, 4, k).inbound.deq = SubSeq(a.inbound.deq, k + 1, Len(a.inbound.deq))
           /\ WithWrite(a, 4, k).outbound = a.outbound
<1> DEFINE s == pop_output(a.inbound, k)
           x == Into(a, "inbound", s)
           f == [x.fd EXCEPT ![Fd[4]] = register_write(@)]
<1>1. IsStream(s) /\ s.deq = SubSeq(a.inbound.deq, k + 1, Len(a.inbound.deq))
  BY StreamPopped DEF IsApp
<1>2. WithWrite(a, 4, k) = [x EXCEPT !.fd = f]
  BY DEF WithWrite, Stream, Of
<1> HIDE DEF s
<1>3. IsApp(x) /\ x.inbound = s /\ x.outbound = a.outbound
  BY <1>1, InboundReplaced
<1> HIDE DEF x, f
<1> DEFINE y == [x EXCEPT !.fd = f]
<1>4. IsApp(y) /\ y.outbound = x.outbound /\ y.inbound = x.inbound
  BY <1>3, FdChanged, SMTT(60)
<1> HIDE DEF y
<1>5. WithWrite(a, 4, k) = y
  BY <1>2 DEF y
<1> QED BY <1>1, <1>3, <1>4, <1>5

LEMMA EndedKeeps ==
    ASSUME NEW a, IsApp(a), NEW n \in Rule
    PROVE  IsApp(Ended(a, n)) /\ SameBytes(a, Ended(a, n))
<1> DEFINE d == [a.shutdown EXCEPT ![Stream[n]] = TRUE]
           x == [a EXCEPT !.shutdown = d]
           f == [x.fd EXCEPT ![Fd[n]] = IF n = 2 THEN Socket_shutdown(@, "SHUT_WR")
                                        ELSE FileDescriptor_close(@)]
<1>1. Ended(a, n) = [x EXCEPT !.fd = f]
  BY DEF Ended
<1> HIDE DEF d
<1>2. IsApp(x) /\ x.outbound = a.outbound /\ x.inbound = a.inbound
  BY ShutdownChanged
<1> HIDE DEF x, f
<1> QED BY <1>1, <1>2, FdChanged DEF SameBytes

LEMMA ReturnKeeps ==
    ASSUME NEW a, IsApp(a), NEW n \in Rule, Return(n, a)
    PROVE  IsApp(app') /\ SameBytes(a, app')
<1> DEFINE f1 == [a.fd EXCEPT ![Fd[n]].read_count = 0]
           x == [a EXCEPT !.fd = f1]
           f2 == [x.fd EXCEPT ![Fd[n]].write_count = 0]
<1>1. app' = [x EXCEPT !.fd = f2]
  BY DEF Return
<1> HIDE DEF f1
<1>2. IsApp(x) /\ x.outbound = a.outbound /\ x.inbound = a.inbound
  BY FdChanged, SMTT(60)
<1> HIDE DEF x, f2
<1> QED BY <1>1, <1>2, FdChanged DEF SameBytes
-----------------------------------------------------------------------------
LEMMA StreamsKept ==
    ASSUME CopyInv, IsApp(app'), SameBytes(app, app'), chan' = chan
    PROVE  CopyInv'
BY ZenonT(30) DEF CopyInv, CopyType, SameBytes, Whole

LEMMA SetUpKeeps ==
    ASSUME NEW x, NEW n \in Rule, IsApp(x.app), SameBytes(app, x.app),
           x = [app |-> x.app, loop |-> x.loop]
    PROVE  /\ IsApp(SetUpRule(x, n).app) /\ SameBytes(app, SetUpRule(x, n).app)
           /\ SetUpRule(x, n) = [app |-> SetUpRule(x, n).app, loop |-> SetUpRule(x, n).loop]
<1> DEFINE y == SetUpRule(x, n)
           a == cancel(x.app, n)
           l == [x.loop EXCEPT !.rules = @ \ {n}]
           m == [x.loop EXCEPT !.events[n] = IF interest(x.app, n) THEN {Direction[n]} ELSE {}]
<1>1. \/ y = x
      \/ y = [app |-> a, loop |-> l]
      \/ y = [x EXCEPT !.loop = m]
  BY DEF SetUpRule
<1>2. IsApp(a) /\ SameBytes(x.app, a)
  BY Cancelled
<1> HIDE DEF y, a, l, m
<1>3. [x EXCEPT !.loop = m] = [app |-> x.app, loop |-> m]
  OBVIOUS
<1>4. IsApp(y.app) /\ SameBytes(app, y.app) /\ y = [app |-> y.app, loop |-> y.loop]
  BY <1>1, <1>2, <1>3 DEF SameBytes
<1> QED BY <1>4 DEF y

LEMMA ChannelReplaced ==
    ASSUME NEW g, AreChannels(g), NEW c \in Channels, NEW r, IsChannel(r)
    PROVE  /\ AreChannels([g EXCEPT ![c] = r]) /\ [g EXCEPT ![c] = r][c] = r
           /\ \A d \in Channels \ {c} : [g EXCEPT ![c] = r][d] = g[d]
BY DEF AreChannels

(* The changes of a channel: bytes are taken from it or put into it, it is *)
(* ended or broken.                                                        *)
LEMMA BufSet ==
    ASSUME NEW r, IsChannel(r), NEW v \in Seq(Nat)
    PROVE  /\ IsChannel([r EXCEPT !.buf = v])
           /\ [r EXCEPT !.buf = v].made = r.made
           /\ [r EXCEPT !.buf = v].taken = r.taken
           /\ [r EXCEPT !.buf = v].buf = v
<1>1. [r EXCEPT !.buf = v] =
        [buf |-> v, ended |-> r.ended, broken |-> r.broken, made |-> r.made, taken |-> r.taken]
  BY SMTT(60) DEF IsChannel
<1> QED BY <1>1 DEF IsChannel

LEMMA TakenSet ==
    ASSUME NEW r, IsChannel(r), NEW v \in Nat
    PROVE  /\ IsChannel([r EXCEPT !.taken = v])
           /\ [r EXCEPT !.taken = v].buf = r.buf
           /\ [r EXCEPT !.taken = v].made = r.made
           /\ [r EXCEPT !.taken = v].taken = v
<1>1. [r EXCEPT !.taken = v] =
        [buf |-> r.buf, ended |-> r.ended, broken |-> r.broken, made |-> r.made, taken |-> v]
  BY DEF IsChannel
<1> QED BY <1>1 DEF IsChannel

LEMMA MadeSet ==
    ASSUME NEW r, IsChannel(r), NEW v \in Nat
    PROVE  /\ IsChannel([r EXCEPT !.made = v])
           /\ [r EXCEPT !.made = v].buf = r.buf
           /\ [r EXCEPT !.made = v].taken = r.taken
           /\ [r EXCEPT !.made = v].made = v
<1>1. [r EXCEPT !.made = v] =
        [buf |-> r.buf, ended |-> r.ended, broken |-> r.broken, made |-> v, taken |-> r.taken]
  BY DEF IsChannel
<1> QED BY <1>1 DEF IsChannel

LEMMA EndedSet ==
    ASSUME NEW r, IsChannel(r), NEW v
    PROVE  /\ IsChannel([r EXCEPT !.ended = v])
           /\ [r EXCEPT !.ended = v].buf = r.buf
           /\ [r EXCEPT !.ended = v].made = r.made
           /\ [r EXCEPT !.ended = v].taken = r.taken
<1>1. [r EXCEPT !.ended = v] =
        [buf |-> r.buf, ended |-> v, broken |-> r.broken, made |-> r.made, taken |-> r.taken]
  BY DEF IsChannel
<1> QED BY <1>1 DEF IsChannel

LEMMA BrokenSet ==
    ASSUME NEW r, IsChannel(r), NEW v
    PROVE  /\ IsChannel([r EXCEPT !.broken = v])
           /\ [r EXCEPT !.broken = v].buf = r.buf
           /\ [r EXCEPT !.broken = v].made = r.made
           /\ [r EXCEPT !.broken = v].taken = r.taken
<1>1. [r EXCEPT !.broken = v] =
        [buf |-> r.buf, ended |-> r.ended, broken |-> v, made |-> r.made, taken |-> r.taken]
  BY DEF IsChannel
<1> QED BY <1>1 DEF IsChannel
-----------------------------------------------------------------------------
(* A direction that keeps its bytes and its ends keeps everything.         *)
LEMMA WholeKept ==
    ASSUME NEW from, NEW b, NEW to, NEW from2, NEW b2, NEW to2, Whole(from, b, to),
           b2.deq = b.deq, to2.buf = to.buf, to2.taken = to.taken,
           from2.buf = from.buf, from2.made = from.made
    PROVE  Whole(from2, b2, to2)
BY ZenonT(30) DEF Whole

LEMMA ReadStep1 ==
    ASSUME CopyInv, NEW k \in Nat, ReadInto(1, k)
    PROVE  CopyInv'
<1> DEFINE c == chan["input"]
           bytes == SubSeq(c.buf, 1, k)
           rest == SubSeq(c.buf, k + 1, Len(c.buf))
           room == Least(Len(c.buf), remaining_capacity(app.outbound))
           a == WithRead(app, 1, bytes)
           r1 == [c EXCEPT !.buf = rest]
           r == [r1 EXCEPT !.taken = c.taken + k]
<1>0. /\ IsApp(app) /\ AreChannels(chan) /\ IsChannel(c) /\ IsStream(app.outbound)
      /\ "input" \in Channels /\ "toTcp" \in Channels
      /\ "toOwner" \in Channels /\ "output" \in Channels
  BY DEF CopyInv, CopyType, AreChannels, Channels, IsApp
<1>1. CASE app' = app /\ chan' = chan
  BY <1>0, <1>1, StreamsKept DEF SameBytes
<1>2. CASE /\ k \in (IF room = 0 THEN {0} ELSE 1 .. room)
           /\ Return(1, a)
           /\ chan' = [chan EXCEPT !["input"].buf = SubSeq(@, k + 1, Len(@)),
                                   !["input"].taken = @ + k]
  <2>1. Len(c.buf) \in Nat /\ remaining_capacity(app.outbound) \in Int
    BY <1>0, LenProperties DEF IsChannel, IsStream, remaining_capacity
  <2>2. k \in 0 .. Len(c.buf) /\ k <= remaining_capacity(app.outbound)
    BY <1>2, <2>1 DEF Least
  <2>3. bytes \in Seq(Nat) /\ Len(bytes) = k /\ rest \in Seq(Nat)
    BY <1>0, <2>2, Split, ZenonT(30) DEF IsChannel
  <2>4. IsApp(a) /\ a.outbound.deq = app.outbound.deq \o bytes /\ a.inbound = app.inbound
    BY <1>0, <2>2, <2>3, ReadOutbound, ZenonT(30)
  <2>5. c.taken + k \in Nat
    BY <1>0 DEF IsChannel
  <2>6. IsChannel(r) /\ r.buf = rest /\ r.made = c.made
    <3> HIDE DEF rest, c, r, r1
    <3>1. IsChannel(r1) /\ r1.buf = rest /\ r1.made = c.made
      BY <1>0, <2>3, BufSet DEF r1
    <3> QED BY <2>5, <3>1, TakenSet DEF r
  <2>7. chan' = [chan EXCEPT !["input"] = r]
    BY <1>0, <1>2, ZenonT(30) DEF IsChannel, AreChannels
  <2>8. Whole(c, app.outbound, chan["toTcp"])
    BY DEF CopyInv
  <2>9. Queued(chan["toTcp"].buf, app.outbound.deq \o bytes, rest, chan["toTcp"].taken, c.made)
    BY ONLY <2>2, <2>8, MoveIn, Zenon DEF Whole
  <2> HIDE DEF a, bytes, rest, room
  <2>10. IsApp(app') /\ app'.outbound.deq = a.outbound.deq /\ app'.inbound.deq = a.inbound.deq
    BY <1>2, <2>4, ReturnKeeps DEF SameBytes, Rule
  <2> HIDE DEF r, r1, c
  <2>11. /\ AreChannels(chan') /\ chan'["input"] = r
         /\ chan'["toTcp"] = chan["toTcp"] /\ chan'["toOwner"] = chan["toOwner"]
         /\ chan'["output"] = chan["output"]
    <3> DEFINE g == [chan EXCEPT !["input"] = r]
    <3>1. /\ AreChannels(g) /\ g["input"] = r
          /\ \A d \in Channels \ {"input"} : g[d] = chan[d]
      BY <1>0, <2>6, ChannelReplaced
    <3>2. chan' = g
      BY <2>7
    <3> HIDE DEF g
    <3> QED BY <3>1, <3>2 DEF Channels
  <2>12. Whole(chan["input"], app.outbound, chan["toTcp"])
         /\ Whole(chan["toOwner"], app.inbound, chan["output"])
    BY SMTT(60) DEF CopyInv
  <2>13. Whole(chan'["input"], app'.outbound, chan'["toTcp"])
    BY <2>4, <2>6, <2>9, <2>10, <2>11, ZenonT(30) DEF Whole
  <2>14. Whole(chan'["toOwner"], app'.inbound, chan'["output"])
    BY <2>4, <2>10, <2>11, <2>12, WholeKept
  <2> QED BY <2>10, <2>11, <2>13, <2>14 DEF CopyInv, CopyType
<1> QED BY <1>1, <1>2, ZenonT(30) DEF ReadInto, Fail, Channel, Stream, Of

LEMMA WriteStep2 ==
    ASSUME CopyInv, NEW k \in Nat, WriteFrom(2, k)
    PROVE  CopyInv'
<1> DEFINE c == chan["toTcp"]
           s == app.outbound
           room == Least(Least(max_copy_length, Len(s.deq)), KernelRoom - Len(c.buf))
           a == WithWrite(app, 2, k)
           e == IF eof(a.outbound) THEN Ended(a, 2) ELSE a
           front == SubSeq(s.deq, 1, k)
           bytes == c.buf \o front
           last == c.ended \/ eof(a.outbound)
           r1 == [c EXCEPT !.buf = bytes]
           r2 == [r1 EXCEPT !.made = c.made + k]
           r == [r2 EXCEPT !.ended = last]
<1>0. /\ IsApp(app) /\ AreChannels(chan) /\ IsChannel(c) /\ IsStream(s)
      /\ "input" \in Channels /\ "toTcp" \in Channels
      /\ "toOwner" \in Channels /\ "output" \in Channels
  BY DEF CopyInv, CopyType, AreChannels, Channels, IsApp
<1>1. CASE app' = app /\ chan' = chan
  BY <1>0, <1>1, StreamsKept DEF SameBytes
<1>2. CASE /\ k \in (IF room = 0 THEN {0} ELSE 1 .. room)
           /\ Return(2, e)
           /\ chan' = [chan EXCEPT !["toTcp"].buf = @ \o peek_output(s, k),
                                   !["toTcp"].made = @ + k,
                                   !["toTcp"].ended = @ \/ eof(a.outbound)]
  <2>1. Len(s.deq) \in Nat /\ Len(c.buf) \in Nat /\ max_copy_length \in Nat /\ KernelRoom \in Nat
    BY <1>0, LenProperties, CopyAssumption DEF IsChannel, IsStream
  <2>2. k \in 0 .. Len(s.deq)
    BY <1>2, <2>1 DEF Least
  <2>3. front \in Seq(Nat) /\ peek_output(s, k) = front
    BY <1>0, <2>2, Split, StreamPopped, ZenonT(30) DEF IsStream
  <2>4. /\ IsApp(a) /\ a.outbound.deq = SubSeq(s.deq, k + 1, Len(s.deq))
        /\ a.inbound = app.inbound
    BY <1>0, <2>2, WriteOutbound
  <2>5. c.made + k \in Nat /\ bytes \in Seq(Nat)
    BY <1>0, <2>3, ConcatProperties DEF IsChannel
  <2>6. Whole(chan["input"], s, c)
    BY DEF CopyInv
  <2>7. Queued(bytes, SubSeq(s.deq, k + 1, Len(s.deq)), chan["input"].buf, c.taken,
               chan["input"].made)
    BY ONLY <2>2, <2>6, MoveOut, Zenon DEF Whole
  <2> HIDE DEF a
  <2>8. IsApp(e) /\ SameBytes(a, e)
    <3>1. IsApp(Ended(a, 2)) /\ SameBytes(a, Ended(a, 2))
      BY <2>4, EndedKeeps DEF Rule
    <3>2. SameBytes(a, a)
      BY DEF SameBytes
    <3> QED BY <2>4, <3>1, <3>2
  <2>9. chan' = [chan EXCEPT !["toTcp"] = r]
    <3> HIDE DEF front
    <3> QED BY <1>0, <1>2, <2>3, ZenonT(30) DEF IsChannel, AreChannels
  <2> HIDE DEF e, bytes, last, front, room
  <2>10. IsChannel(r) /\ r.buf = bytes /\ r.taken = c.taken
    <3> HIDE DEF c, r, r1, r2
    <3>1. IsChannel(r1) /\ r1.buf = bytes /\ r1.taken = c.taken
      BY <1>0, <2>5, BufSet DEF r1
    <3>2. IsChannel(r2) /\ r2.buf = bytes /\ r2.taken = c.taken
      BY <2>5, <3>1, MadeSet DEF r2
    <3> QED BY <3>2, EndedSet DEF r
  <2>11. IsApp(app') /\ app'.outbound.deq = a.outbound.deq /\ app'.inbound.deq = a.inbound.deq
    BY <1>2, <2>8, ReturnKeeps DEF SameBytes, Rule
  <2> HIDE DEF r, c, r1, r2
  <2>12. /\ AreChannels(chan') /\ chan'["toTcp"] = r
         /\ chan'["input"] = chan["input"] /\ chan'["toOwner"] = chan["toOwner"]
         /\ chan'["output"] = chan["output"]
    <3> DEFINE g == [chan EXCEPT !["toTcp"] = r]
    <3>1. /\ AreChannels(g) /\ g["toTcp"] = r
          /\ \A d \in Channels \ {"toTcp"} : g[d] = chan[d]
      BY <1>0, <2>10, ChannelReplaced
    <3>2. chan' = g
      BY <2>9
    <3> HIDE DEF g
    <3> QED BY <3>1, <3>2 DEF Channels
  <2>13. Whole(chan["input"], app.outbound, chan["toTcp"])
         /\ Whole(chan["toOwner"], app.inbound, chan["output"])
    BY SMTT(60) DEF CopyInv
  <2>14. Whole(chan'["input"], app'.outbound, chan'["toTcp"])
    BY <2>4, <2>7, <2>10, <2>11, <2>12, ZenonT(30) DEF Whole
  <2>15. Whole(chan'["toOwner"], app'.inbound, chan'["output"])
    BY <2>4, <2>11, <2>12, <2>13, WholeKept, SMTT(60)
  <2> QED BY <2>11, <2>12, <2>14, <2>15 DEF CopyInv, CopyType
<1> QED BY <1>1, <1>2, ZenonT(30) DEF WriteFrom, Fail, Channel, Stream, Of, buffer_size

(* The same for the other direction.                                        *)
LEMMA ReadStep3 ==
    ASSUME CopyInv, NEW k \in Nat, ReadInto(3, k)
    PROVE  CopyInv'
<1> DEFINE c == chan["toOwner"]
           bytes == SubSeq(c.buf, 1, k)
           rest == SubSeq(c.buf, k + 1, Len(c.buf))
           room == Least(Len(c.buf), remaining_capacity(app.inbound))
           a == WithRead(app, 3, bytes)
           r1 == [c EXCEPT !.buf = rest]
           r == [r1 EXCEPT !.taken = c.taken + k]
<1>0. /\ IsApp(app) /\ AreChannels(chan) /\ IsChannel(c) /\ IsStream(app.inbound)
      /\ "toOwner" \in Channels /\ "output" \in Channels
      /\ "input" \in Channels /\ "toTcp" \in Channels
  BY DEF CopyInv, CopyType, AreChannels, Channels, IsApp
<1>1. CASE app' = app /\ chan' = chan
  BY <1>0, <1>1, StreamsKept DEF SameBytes
<1>2. CASE /\ k \in (IF room = 0 THEN {0} ELSE 1 .. room)
           /\ Return(3, a)
           /\ chan' = [chan EXCEPT !["toOwner"].buf = SubSeq(@, k + 1, Len(@)),
                                   !["toOwner"].taken = @ + k]
  <2>1. Len(c.buf) \in Nat /\ remaining_capacity(app.inbound) \in Int
    BY <1>0, LenProperties DEF IsChannel, IsStream, remaining_capacity
  <2>2. k \in 0 .. Len(c.buf) /\ k <= remaining_capacity(app.inbound)
    BY <1>2, <2>1 DEF Least
  <2>3. bytes \in Seq(Nat) /\ Len(bytes) = k /\ rest \in Seq(Nat)
    BY <1>0, <2>2, Split, ZenonT(30) DEF IsChannel
  <2>4. IsApp(a) /\ a.inbound.deq = app.inbound.deq \o bytes /\ a.outbound = app.outbound
    BY <1>0, <2>2, <2>3, ReadInbound, ZenonT(30)
  <2>5. c.taken + k \in Nat
    BY <1>0 DEF IsChannel
  <2>6. IsChannel(r) /\ r.buf = rest /\ r.made = c.made
    <3> HIDE DEF rest, c, r, r1
    <3>1. IsChannel(r1) /\ r1.buf = rest /\ r1.made = c.made
      BY <1>0, <2>3, BufSet DEF r1
    <3> QED BY <2>5, <3>1, TakenSet DEF r
  <2>7. chan' = [chan EXCEPT !["toOwner"] = r]
    BY <1>0, <1>2, ZenonT(30) DEF IsChannel, AreChannels
  <2>8. Whole(c, app.inbound, chan["output"])
    BY DEF CopyInv
  <2>9. Queued(chan["output"].buf, app.inbound.deq \o bytes, rest, chan["output"].taken, c.made)
    BY ONLY <2>2, <2>8, MoveIn, Zenon DEF Whole
  <2> HIDE DEF a, bytes, rest, room
  <2>10. IsApp(app') /\ app'.inbound.deq = a.inbound.deq /\ app'.outbound.deq = a.outbound.deq
    BY <1>2, <2>4, ReturnKeeps DEF SameBytes, Rule
  <2> HIDE DEF r, r1, c
  <2>11. /\ AreChannels(chan') /\ chan'["toOwner"] = r
         /\ chan'["output"] = chan["output"] /\ chan'["input"] = chan["input"]
         /\ chan'["toTcp"] = chan["toTcp"]
    <3> DEFINE g == [chan EXCEPT !["toOwner"] = r]
    <3>1. /\ AreChannels(g) /\ g["toOwner"] = r
          /\ \A d \in Channels \ {"toOwner"} : g[d] = chan[d]
      BY <1>0, <2>6, ChannelReplaced
    <3>2. chan' = g
      BY <2>7
    <3> HIDE DEF g
    <3> QED BY <3>1, <3>2 DEF Channels
  <2>12. Whole(chan["toOwner"], app.inbound, chan["output"])
         /\ Whole(chan["input"], app.outbound, chan["toTcp"])
    BY SMTT(60) DEF CopyInv
  <2>13. Whole(chan'["toOwner"], app'.inbound, chan'["output"])
    BY <2>4, <2>6, <2>9, <2>10, <2>11, ZenonT(30) DEF Whole
  <2>14. Whole(chan'["input"], app'.outbound, chan'["toTcp"])
    BY <2>4, <2>10, <2>11, <2>12, WholeKept
  <2> QED BY <2>10, <2>11, <2>13, <2>14 DEF CopyInv, CopyType
<1> QED BY <1>1, <1>2, ZenonT(30) DEF ReadInto, Fail, Channel, Stream, Of

LEMMA WriteStep4 ==
    ASSUME CopyInv, NEW k \in Nat, WriteFrom(4, k)
    PROVE  CopyInv'
<1> DEFINE c == chan["output"]
           s == app.inbound
           room == Least(Least(max_copy_length, Len(s.deq)), KernelRoom - Len(c.buf))
           a == WithWrite(app, 4, k)
           e == IF eof(a.inbound) THEN Ended(a, 4) ELSE a
           front == SubSeq(s.deq, 1, k)
           bytes == c.buf \o front
           last == c.ended \/ eof(a.inbound)
           r1 == [c EXCEPT !.buf = bytes]
           r2 == [r1 EXCEPT !.made = c.made + k]
           r == [r2 EXCEPT !.ended = last]
<1>0. /\ IsApp(app) /\ AreChannels(chan) /\ IsChannel(c) /\ IsStream(s)
      /\ "toOwner" \in Channels /\ "output" \in Channels
      /\ "input" \in Channels /\ "toTcp" \in Channels
  BY DEF CopyInv, CopyType, AreChannels, Channels, IsApp
<1>1. CASE app' = app /\ chan' = chan
  BY <1>0, <1>1, StreamsKept DEF SameBytes
<1>2. CASE /\ k \in (IF room = 0 THEN {0} ELSE 1 .. room)
           /\ Return(4, e)
           /\ chan' = [chan EXCEPT !["output"].buf = @ \o peek_output(s, k),
                                   !["output"].made = @ + k,
                                   !["output"].ended = @ \/ eof(a.inbound)]
  <2>1. Len(s.deq) \in Nat /\ Len(c.buf) \in Nat /\ max_copy_length \in Nat /\ KernelRoom \in Nat
    BY <1>0, LenProperties, CopyAssumption DEF IsChannel, IsStream
  <2>2. k \in 0 .. Len(s.deq)
    BY <1>2, <2>1 DEF Least
  <2>3. front \in Seq(Nat) /\ peek_output(s, k) = front
    BY <1>0, <2>2, Split, StreamPopped, ZenonT(30) DEF IsStream
  <2>4. /\ IsApp(a) /\ a.inbound.deq = SubSeq(s.deq, k + 1, Len(s.deq))
        /\ a.outbound = app.outbound
    BY <1>0, <2>2, WriteInbound
  <2>5. c.made + k \in Nat /\ bytes \in Seq(Nat)
    BY <1>0, <2>3, ConcatProperties DEF IsChannel
  <2>6. Whole(chan["toOwner"], s, c)
    BY DEF CopyInv
  <2>7. Queued(bytes, SubSeq(s.deq, k + 1, Len(s.deq)), chan["toOwner"].buf, c.taken,
               chan["toOwner"].made)
    BY ONLY <2>2, <2>6, MoveOut, Zenon DEF Whole
  <2> HIDE DEF a
  <2>8. IsApp(e) /\ SameBytes(a, e)
    <3>1. IsApp(Ended(a, 4)) /\ SameBytes(a, Ended(a, 4))
      BY <2>4, EndedKeeps DEF Rule
    <3>2. SameBytes(a, a)
      BY DEF SameBytes
    <3> QED BY <2>4, <3>1, <3>2
  <2>9. chan' = [chan EXCEPT !["output"] = r]
    <3> HIDE DEF front
    <3> QED BY <1>0, <1>2, <2>3, ZenonT(30) DEF IsChannel, AreChannels
  <2> HIDE DEF e, bytes, last, front, room
  <2>10. IsChannel(r) /\ r.buf = bytes /\ r.taken = c.taken
    <3> HIDE DEF c, r, r1, r2
    <3>1. IsChannel(r1) /\ r1.buf = bytes /\ r1.taken = c.taken
      BY <1>0, <2>5, BufSet DEF r1
    <3>2. IsChannel(r2) /\ r2.buf = bytes /\ r2.taken = c.taken
      BY <2>5, <3>1, MadeSet DEF r2
    <3> QED BY <3>2, EndedSet DEF r
  <2>11. IsApp(app') /\ app'.inbound.deq = a.inbound.deq /\ app'.outbound.deq = a.outbound.deq
    BY <1>2, <2>8, ReturnKeeps DEF SameBytes, Rule
  <2> HIDE DEF r, c, r1, r2
  <2>12. /\ AreChannels(chan') /\ chan'["output"] = r
         /\ chan'["toOwner"] = chan["toOwner"] /\ chan'["input"] = chan["input"]
         /\ chan'["toTcp"] = chan["toTcp"]
    <3> DEFINE g == [chan EXCEPT !["output"] = r]
    <3>1. /\ AreChannels(g) /\ g["output"] = r
          /\ \A d \in Channels \ {"output"} : g[d] = chan[d]
      BY <1>0, <2>10, ChannelReplaced
    <3>2. chan' = g
      BY <2>9
    <3> HIDE DEF g
    <3> QED BY <3>1, <3>2 DEF Channels
  <2>13. Whole(chan["toOwner"], app.inbound, chan["output"])
         /\ Whole(chan["input"], app.outbound, chan["toTcp"])
    BY SMTT(60) DEF CopyInv
  <2>14. Whole(chan'["toOwner"], app'.inbound, chan'["output"])
    BY <2>4, <2>7, <2>10, <2>11, <2>12, ZenonT(30) DEF Whole
  <2>15. Whole(chan'["input"], app'.outbound, chan'["toTcp"])
    BY <2>4, <2>11, <2>12, <2>13, WholeKept
  <2> QED BY <2>11, <2>12, <2>14, <2>15 DEF CopyInv, CopyType
<1> QED BY <1>1, <1>2, ZenonT(30) DEF WriteFrom, Fail, Channel, Stream, Of, buffer_size
-----------------------------------------------------------------------------
LEMMA WaitStep == CopyInv /\ wait_next_event => CopyInv'
<1> SUFFICES ASSUME CopyInv, wait_next_event PROVE CopyInv'
  OBVIOUS
<1> DEFINE x0 == [app |-> app, loop |-> loop]
           x1 == SetUpRule(x0, 1)
           x2 == SetUpRule(x1, 2)
           x3 == SetUpRule(x2, 3)
           x4 == SetUpRule(x3, 4)
<1>1. app' = x4.app /\ chan' = chan
  BY DEF wait_next_event, Awaited
<1>2. IsApp(x0.app) /\ SameBytes(app, x0.app) /\ x0 = [app |-> x0.app, loop |-> x0.loop]
  BY DEF CopyInv, CopyType, SameBytes
<1> HIDE DEF x0
<1>3. IsApp(x1.app) /\ SameBytes(app, x1.app) /\ x1 = [app |-> x1.app, loop |-> x1.loop]
  BY <1>2, SetUpKeeps DEF Rule
<1> HIDE DEF x1
<1>4. IsApp(x2.app) /\ SameBytes(app, x2.app) /\ x2 = [app |-> x2.app, loop |-> x2.loop]
  BY <1>3, SetUpKeeps DEF Rule
<1> HIDE DEF x2
<1>5. IsApp(x3.app) /\ SameBytes(app, x3.app) /\ x3 = [app |-> x3.app, loop |-> x3.loop]
  BY <1>4, SetUpKeeps DEF Rule
<1> HIDE DEF x3
<1>6. IsApp(x4.app) /\ SameBytes(app, x4.app)
  BY <1>5, SetUpKeeps DEF Rule
<1> HIDE DEF x4
<1> QED BY <1>1, <1>6, StreamsKept

LEMMA LoopStep == CopyInv /\ Loop => CopyInv'
<1> SUFFICES ASSUME CopyInv, Loop PROVE CopyInv'
  OBVIOUS
<1>0. IsApp(app) /\ SameBytes(app, app)
  BY DEF CopyInv, CopyType, SameBytes
<1>1. CASE wait_next_event
  BY <1>1, WaitStep
<1>2. ASSUME NEW n \in Rule, NoCallback(n) PROVE CopyInv'
  <2>1. chan' = chan /\ (app' = app \/ app' = cancel(app, n))
    BY <1>2 DEF NoCallback
  <2>2. IsApp(cancel(app, n)) /\ SameBytes(app, cancel(app, n))
    BY <1>0, Cancelled
  <2> QED BY <1>0, <2>1, <2>2, StreamsKept
<1>3. ASSUME NEW n \in Rule, NEW k \in 0 .. max_copy_length, ReadInto(n, k) PROVE CopyInv'
  <2>1. n = 1 \/ n = 3
    BY <1>3 DEF ReadInto, Rule, Direction
  <2>2. k \in Nat
    BY CopyAssumption
  <2> QED BY <1>3, <2>1, <2>2, ReadStep1, ReadStep3, SMTT(60)
<1>4. ASSUME NEW n \in Rule, NEW k \in 0 .. max_copy_length, WriteFrom(n, k) PROVE CopyInv'
  <2>1. n = 2 \/ n = 4
    BY <1>4 DEF WriteFrom, Rule, Direction
  <2>2. k \in Nat
    BY CopyAssumption
  <2> QED BY <1>4, <2>1, <2>2, WriteStep2, WriteStep4, SMTT(60)
<1> QED BY <1>1, <1>2, <1>3, <1>4 DEF Loop
-----------------------------------------------------------------------------
LEMMA OneChannel ==
    ASSUME CopyInv, app' = app, NEW c \in Channels, NEW r, IsChannel(r),
           chan' = [chan EXCEPT ![c] = r],
           Whole(IF c = "input" THEN r ELSE chan["input"], app.outbound,
                 IF c = "toTcp" THEN r ELSE chan["toTcp"]),
           Whole(IF c = "toOwner" THEN r ELSE chan["toOwner"], app.inbound,
                 IF c = "output" THEN r ELSE chan["output"])
    PROVE  CopyInv'
<1> DEFINE g == [chan EXCEPT ![c] = r]
<1>0. AreChannels(chan)
  BY DEF CopyInv, CopyType
<1>1. AreChannels(g) /\ g[c] = r /\ \A d \in Channels \ {c} : g[d] = chan[d]
  <2> SUFFICES AreChannels(chan) /\ IsChannel(r) /\ c \in Channels
        => AreChannels(g) /\ g[c] = r /\ \A d \in Channels \ {c} : g[d] = chan[d]
    BY <1>0
  <2> QED BY ONLY ChannelReplaced
<1>2. chan' = g
  OBVIOUS
<1> HIDE DEF g
<1>3. \A d \in Channels : g[d] = IF c = d THEN r ELSE chan[d]
  BY <1>1
<1>4. /\ "input" \in Channels /\ "toTcp" \in Channels
      /\ "toOwner" \in Channels /\ "output" \in Channels
  BY DEF Channels
<1>5. /\ g["input"] = IF c = "input" THEN r ELSE chan["input"]
      /\ g["toTcp"] = IF c = "toTcp" THEN r ELSE chan["toTcp"]
      /\ g["toOwner"] = IF c = "toOwner" THEN r ELSE chan["toOwner"]
      /\ g["output"] = IF c = "output" THEN r ELSE chan["output"]
  BY <1>3, <1>4
<1>6. Whole(g["input"], app.outbound, g["toTcp"]) /\ Whole(g["toOwner"], app.inbound, g["output"])
  BY <1>5
<1>7. IsApp(app)
  BY DEF CopyInv, CopyType
<1> QED BY <1>1, <1>2, <1>6, <1>7, ZenonT(30) DEF CopyInv, CopyType

(* A channel that is only ended or broken.                                 *)
LEMMA BytesKept ==
    ASSUME CopyInv, app' = app, NEW c \in Channels, NEW r, IsChannel(r),
           chan' = [chan EXCEPT ![c] = r],
           r.buf = chan[c].buf, r.made = chan[c].made, r.taken = chan[c].taken
    PROVE  CopyInv'
<1>1. /\ Whole(chan["input"], app.outbound, chan["toTcp"])
      /\ Whole(chan["toOwner"], app.inbound, chan["output"])
  BY DEF CopyInv
<1>2. Whole(IF c = "input" THEN r ELSE chan["input"], app.outbound,
            IF c = "toTcp" THEN r ELSE chan["toTcp"])
  BY <1>1, ZenonT(30) DEF Whole
<1>3. Whole(IF c = "toOwner" THEN r ELSE chan["toOwner"], app.inbound,
            IF c = "output" THEN r ELSE chan["output"])
  BY <1>1, ZenonT(30) DEF Whole
<1> QED BY <1>2, <1>3, OneChannel, ZenonT(30)

LEMMA ChannelTypes ==
    ASSUME CopyInv, NEW c \in Channels
    PROVE  IsChannel(chan[c]) /\ IsStream(app.outbound) /\ IsStream(app.inbound)
BY DEF CopyInv, CopyType, AreChannels, IsApp

LEMMA ProduceStep ==
    ASSUME CopyInv, NEW c \in {"input", "toOwner"}, Produce(c)
    PROVE  CopyInv'
<1> DEFINE b == Append(chan[c].buf, chan[c].made + 1)
           r1 == [chan[c] EXCEPT !.buf = b]
           r == [r1 EXCEPT !.made = chan[c].made + 1]
<1>0. /\ c \in Channels /\ "input" \in Channels /\ "toTcp" \in Channels
      /\ "toOwner" \in Channels /\ "output" \in Channels
  BY DEF Channels
<1>1. IsChannel(chan[c]) /\ chan[c].made + 1 \in Nat /\ chan[c].buf \in Seq(Nat)
  BY <1>0, ChannelTypes DEF IsChannel
<1>2. b \in Seq(Nat)
  BY <1>1, AppendProperties
<1>3. chan' = [chan EXCEPT ![c] = r] /\ app' = app
  BY <1>0, ZenonT(30) DEF Produce, CopyInv, CopyType, AreChannels, IsChannel
<1> HIDE DEF r, r1, b
<1>4. IsChannel(r1) /\ r1.buf = b /\ r1.taken = chan[c].taken
  BY <1>1, <1>2, BufSet DEF r1
<1>5. IsChannel(r) /\ r.buf = b /\ r.made = chan[c].made + 1
  BY <1>1, <1>4, MadeSet DEF r
<1>6. /\ Whole(chan["input"], app.outbound, chan["toTcp"])
      /\ Whole(chan["toOwner"], app.inbound, chan["output"])
  BY DEF CopyInv
<1>7. CASE c = "input"
  <2>1. Queued(chan["toTcp"].buf, app.outbound.deq, chan["input"].buf,
               chan["toTcp"].taken, chan["input"].made)
    BY <1>6 DEF Whole
  <2>2. Queued(chan["toTcp"].buf, app.outbound.deq, Append(chan["input"].buf, chan["input"].made + 1),
               chan["toTcp"].taken, chan["input"].made + 1)
    BY ONLY <2>1, Put, Zenon
  <2>3. r.buf = Append(chan["input"].buf, chan["input"].made + 1) /\ r.made = chan["input"].made + 1
    BY <1>5, <1>7, Zenon DEF b
  <2>4. Whole(r, app.outbound, chan["toTcp"])
    BY ONLY <2>2, <2>3, Zenon DEF Whole
  <2> QED BY <1>0, <1>3, <1>5, <1>6, <1>7, <2>4, OneChannel, ZenonT(30)
<1>8. CASE c = "toOwner"
  <2>1. Queued(chan["output"].buf, app.inbound.deq, chan["toOwner"].buf,
               chan["output"].taken, chan["toOwner"].made)
    BY <1>6 DEF Whole
  <2>2. Queued(chan["output"].buf, app.inbound.deq, Append(chan["toOwner"].buf, chan["toOwner"].made + 1),
               chan["output"].taken, chan["toOwner"].made + 1)
    BY ONLY <2>1, Put, Zenon
  <2>3. r.buf = Append(chan["toOwner"].buf, chan["toOwner"].made + 1) /\ r.made = chan["toOwner"].made + 1
    BY <1>5, <1>8, Zenon DEF b
  <2>4. Whole(r, app.inbound, chan["output"])
    BY ONLY <2>2, <2>3, Zenon DEF Whole
  <2> QED BY <1>0, <1>3, <1>5, <1>6, <1>8, <2>4, OneChannel, ZenonT(30)
<1> QED BY <1>7, <1>8

LEMMA ConsumeStep ==
    ASSUME CopyInv, NEW c \in {"toTcp", "output"}, Consume(c)
    PROVE  CopyInv'
<1> DEFINE b == Tail(chan[c].buf)
           r1 == [chan[c] EXCEPT !.buf = b]
           r == [r1 EXCEPT !.taken = chan[c].taken + 1]
<1>0. /\ c \in Channels /\ "input" \in Channels /\ "toTcp" \in Channels
      /\ "toOwner" \in Channels /\ "output" \in Channels
  BY DEF Channels
<1>1. IsChannel(chan[c]) /\ chan[c].taken + 1 \in Nat /\ chan[c].buf \in Seq(Nat)
  BY <1>0, ChannelTypes DEF IsChannel
<1>2. chan[c].buf # <<>> /\ b \in Seq(Nat)
  BY <1>1, HeadTailProperties DEF Consume
<1>3. chan' = [chan EXCEPT ![c] = r] /\ app' = app
  BY <1>0, ZenonT(30) DEF Consume, CopyInv, CopyType, AreChannels, IsChannel
<1> HIDE DEF r, r1, b
<1>4. IsChannel(r1) /\ r1.buf = b
  BY <1>1, <1>2, BufSet DEF r1
<1>5. IsChannel(r) /\ r.buf = b /\ r.taken = chan[c].taken + 1
  BY <1>1, <1>4, TakenSet DEF r
<1>6. /\ Whole(chan["input"], app.outbound, chan["toTcp"])
      /\ Whole(chan["toOwner"], app.inbound, chan["output"])
  BY DEF CopyInv
<1>7. CASE c = "toTcp"
  <2>1. /\ chan["toTcp"].buf # <<>>
        /\ Queued(chan["toTcp"].buf, app.outbound.deq, chan["input"].buf,
                  chan["toTcp"].taken, chan["input"].made)
    BY <1>2, <1>6, <1>7 DEF Whole
  <2>2. Queued(Tail(chan["toTcp"].buf), app.outbound.deq, chan["input"].buf,
               chan["toTcp"].taken + 1, chan["input"].made)
    BY ONLY <2>1, Take, Zenon
  <2>3. r.buf = Tail(chan["toTcp"].buf) /\ r.taken = chan["toTcp"].taken + 1
    BY <1>5, <1>7, Zenon DEF b
  <2>4. Whole(chan["input"], app.outbound, r)
    BY ONLY <2>2, <2>3, Zenon DEF Whole
  <2> QED BY <1>0, <1>3, <1>5, <1>6, <1>7, <2>4, OneChannel, ZenonT(30)
<1>8. CASE c = "output"
  <2>1. /\ chan["output"].buf # <<>>
        /\ Queued(chan["output"].buf, app.inbound.deq, chan["toOwner"].buf,
                  chan["output"].taken, chan["toOwner"].made)
    BY <1>2, <1>6, <1>8 DEF Whole
  <2>2. Queued(Tail(chan["output"].buf), app.inbound.deq, chan["toOwner"].buf,
               chan["output"].taken + 1, chan["toOwner"].made)
    BY ONLY <2>1, Take, Zenon
  <2>3. r.buf = Tail(chan["output"].buf) /\ r.taken = chan["output"].taken + 1
    BY <1>5, <1>8, Zenon DEF b
  <2>4. Whole(chan["toOwner"], app.inbound, r)
    BY ONLY <2>2, <2>3, Zenon DEF Whole
  <2> QED BY <1>0, <1>3, <1>5, <1>6, <1>8, <2>4, OneChannel, ZenonT(30)
<1> QED BY <1>7, <1>8

LEMMA FinishStep ==
    ASSUME CopyInv, NEW c \in {"input", "toOwner"}, Finish(c)
    PROVE  CopyInv'
<1> DEFINE yes == TRUE
           r == [chan[c] EXCEPT !.ended = yes]
<1>0. c \in Channels
  BY DEF Channels
<1>1. chan' = [chan EXCEPT ![c] = r] /\ app' = app
  BY DEF Finish
<1> HIDE DEF r, yes
<1>2. /\ IsChannel(r) /\ r.buf = chan[c].buf /\ r.made = chan[c].made
      /\ r.taken = chan[c].taken
  BY <1>0, ChannelTypes, EndedSet DEF r
<1> QED BY <1>0, <1>1, <1>2, BytesKept, ZenonT(30)

LEMMA ResetStep ==
    ASSUME CopyInv, Reset
    PROVE  CopyInv'
<1> DEFINE yes == TRUE
           r == [chan["toOwner"] EXCEPT !.ended = yes]
<1>0. "toOwner" \in Channels
  BY DEF Channels
<1>1. chan' = [chan EXCEPT !["toOwner"] = r] /\ app' = app
  BY DEF Reset
<1> HIDE DEF r, yes
<1>2. /\ IsChannel(r) /\ r.buf = chan["toOwner"].buf /\ r.made = chan["toOwner"].made
      /\ r.taken = chan["toOwner"].taken
  BY <1>0, ChannelTypes, EndedSet DEF r
<1> QED BY <1>0, <1>1, <1>2, BytesKept, ZenonT(30)

LEMMA LeaveStep ==
    ASSUME CopyInv, Leave
    PROVE  CopyInv'
<1> DEFINE yes == TRUE
           r == [chan["output"] EXCEPT !.broken = yes]
<1>0. "output" \in Channels
  BY DEF Channels
<1>1. chan' = [chan EXCEPT !["output"] = r] /\ app' = app
  BY DEF Leave
<1> HIDE DEF r, yes
<1>2. /\ IsChannel(r) /\ r.buf = chan["output"].buf /\ r.made = chan["output"].made
      /\ r.taken = chan["output"].taken
  BY <1>0, ChannelTypes, BrokenSet DEF r
<1> QED BY <1>0, <1>1, <1>2, BytesKept, ZenonT(30)

(* HangUp changes two channels, one of each direction.                     *)
LEMMA HangUpStep ==
    ASSUME CopyInv, HangUp
    PROVE  CopyInv'
<1> DEFINE yes == TRUE
           t1 == [chan["toTcp"] EXCEPT !.ended = yes]
           t == [t1 EXCEPT !.broken = yes]
           o == [chan["toOwner"] EXCEPT !.ended = yes]
           g1 == [chan EXCEPT !["toTcp"] = t]
           g == [g1 EXCEPT !["toOwner"] = o]
<1>0. /\ "input" \in Channels /\ "toTcp" \in Channels
      /\ "toOwner" \in Channels /\ "output" \in Channels
  BY DEF Channels
<1>1. AreChannels(chan) /\ IsApp(app)
  BY DEF CopyInv, CopyType
<1>2. chan' = g /\ app' = app
  BY <1>1, ZenonT(30) DEF HangUp, AreChannels, IsChannel, Channels
<1> HIDE DEF g, g1, o, t, t1, yes
<1>3. IsChannel(t1) /\ t1.buf = chan["toTcp"].buf /\ t1.taken = chan["toTcp"].taken
  BY <1>0, ChannelTypes, EndedSet DEF t1
<1>4. IsChannel(t) /\ t.buf = chan["toTcp"].buf /\ t.taken = chan["toTcp"].taken
  BY <1>3, BrokenSet DEF t
<1>5. IsChannel(o) /\ o.buf = chan["toOwner"].buf /\ o.made = chan["toOwner"].made
  BY <1>0, ChannelTypes, EndedSet DEF o
<1>6. AreChannels(g1) /\ g1["toTcp"] = t /\ \A d \in Channels \ {"toTcp"} : g1[d] = chan[d]
  BY <1>0, <1>1, <1>4, ChannelReplaced, SMTT(60) DEF g1
<1>7. AreChannels(g) /\ g["toOwner"] = o /\ \A d \in Channels \ {"toOwner"} : g[d] = g1[d]
  BY <1>0, <1>5, <1>6, ChannelReplaced, SMTT(60) DEF g
<1>8. /\ g["toTcp"] = t /\ g["toOwner"] = o
      /\ g["input"] = chan["input"] /\ g["output"] = chan["output"]
  BY <1>0, <1>6, <1>7, SMTT(60)
<1>9. Whole(g["input"], app.outbound, g["toTcp"]) /\ Whole(g["toOwner"], app.inbound, g["output"])
  BY <1>4, <1>5, <1>8, ZenonT(30) DEF CopyInv, Whole
<1> QED BY <1>1, <1>2, <1>7, <1>9 DEF CopyInv, CopyType

LEMMA CopyInit ==
    ASSUME Init
    PROVE  CopyInv
<1> DEFINE none == [buf |-> <<>>, ended |-> FALSE, broken |-> FALSE, made |-> 0, taken |-> 0]
<1>1. IsChannel(none)
  BY DEF IsChannel
<1>2. chan = [c \in Channels |-> none]
  BY DEF Init, Channels
<1>3. none.buf = <<>> /\ none.made = 0 /\ none.taken = 0
  OBVIOUS
<1> HIDE DEF none
<1>4. AreChannels(chan) /\ \A c \in Channels : chan[c] = none
  BY <1>1, <1>2 DEF AreChannels
<1>5. IsApp(app) /\ app.outbound.deq = <<>> /\ app.inbound.deq = <<>>
  <2> DEFINE s == NewByteStream(buffer_size_max)
             off == [d \in {"outbound", "inbound"} |-> FALSE]
             fds == [f \in {"input", "socket", "output"} |-> FileDescriptor]
  <2>1. app = [outbound |-> s, inbound |-> s, shutdown |-> off, fd |-> fds]
    BY DEF Init
  <2>2. IsStream(s) /\ s.deq = <<>>
    BY CopyAssumption DEF IsStream, NewByteStream
  <2> HIDE DEF s, off, fds
  <2> QED BY <2>1, <2>2 DEF IsApp
<1>6. Numbers(0, 0) = <<>>
  BY DEF Numbers
<1>7. <<>> \o <<>> \o <<>> = <<>>
  OBVIOUS
<1>8. \A c, d \in Channels : Whole(chan[c], app.outbound, chan[d]) /\ Whole(chan[c], app.inbound, chan[d])
  <2> SUFFICES ASSUME NEW c \in Channels, NEW d \in Channels
               PROVE  Whole(chan[c], app.outbound, chan[d]) /\ Whole(chan[c], app.inbound, chan[d])
    OBVIOUS
  <2>1. chan[c].buf = <<>> /\ chan[c].made = 0 /\ chan[d].buf = <<>> /\ chan[d].taken = 0
    BY <1>3, <1>4
  <2>2. chan[d].taken <= chan[c].made
    BY <2>1
  <2>3. /\ Queues(chan[d].buf, app.outbound.deq, chan[c].buf)
        /\ Queues(chan[d].buf, app.inbound.deq, chan[c].buf)
    BY <1>4, <1>5 DEF Queues, AreChannels, IsChannel, IsApp, IsStream
  <2>4. chan[d].taken \in Nat /\ chan[c].made \in Nat
    BY <2>1
  <2> QED BY <1>5, <1>6, <1>7, <2>1, <2>2, <2>3, <2>4, Zenon DEF Whole, Queued
<1> QED BY <1>4, <1>5, <1>8 DEF CopyInv, CopyType, Channels

LEMMA CopyStep ==
    ASSUME CopyInv, [Next]_vars
    PROVE  CopyInv'
<1>1. CASE Loop
  BY <1>1, LoopStep
<1>2. CASE Reset
  BY <1>2, ResetStep
<1>3. CASE HangUp
  BY <1>3, HangUpStep
<1>4. CASE Leave
  BY <1>4, LeaveStep
<1>5. ASSUME NEW c \in {"input", "toOwner"}, Produce(c)
      PROVE  CopyInv'
  BY <1>5, ProduceStep
<1>6. ASSUME NEW c \in {"input", "toOwner"}, Finish(c)
      PROVE  CopyInv'
  BY <1>6, FinishStep
<1>7. ASSUME NEW c \in {"toTcp", "output"}, Consume(c)
      PROVE  CopyInv'
  BY <1>7, ConsumeStep
<1>8. CASE UNCHANGED vars
  BY <1>8 DEF vars, CopyInv, CopyType
<1> QED BY <1>1, <1>2, <1>3, <1>4, <1>5, <1>6, <1>7, <1>8, SMTT(60) DEF Next

(* For buffers, kernel queues and inputs of every size, the two directions *)
(* of bidirectional_stream_copy hold at every moment exactly the bytes     *)
(* their source wrote and their sink has not read, in order.               *)
THEOREM NoByteLost == FairSpec => []NothingLost
<1>1. Init => CopyInv
  BY CopyInit
<1>2. CopyInv /\ [Next]_vars => CopyInv'
  BY CopyStep
<1>3. CopyInv => NothingLost
  BY DEF CopyInv, Whole, Queued, NothingLost
<1> QED BY <1>1, <1>2, <1>3, PTL DEF FairSpec
=============================================================================
