------------------------------ MODULE LanProofs ------------------------------
(***************************************************************************)
(* The maps of every interface on an Ethernet stay coherent, for any       *)
(* number of hosts, any timeouts and any losses and restarts.              *)
(*                                                                         *)
(* Each operation of NetworkInterface preserves Coherent.  Within          *)
(* recv_frame it does not hold between Learn and Flush, and within tick    *)
(* not between Aged and Forget: the parts of Coherent that survive there   *)
(* are followed through separately.  The type invariant LanType carries    *)
(* what the proofs need of the frames on their way.                        *)
(***************************************************************************)
EXTENDS Lan, NaturalSets, SequenceTheorems, TLAPS

Dgram == [src : IP, dst : IP, id : Nat]
Pair == [ip : IP, eth : Ethernet, age : Nat]
Message == [opcode : {"REQUEST", "REPLY"}, sender_ip : IP, sender_eth : Ethernet,
            target_ip : IP, target_eth : Ethernet \cup {None}]
Target == Ethernet \cup {None, BROADCAST}
Frame == [src : Ethernet, dst : Target, type : {"IPv4"}, payload : Dgram]
            \cup [src : Ethernet, dst : Target, type : {"ARP"}, payload : Message]

Iface == [eth : Ethernet, ip : IP,
          ip2eth : [IP -> Ethernet \cup {None}],
          ip2dgrams : [IP -> Seq(Dgram)],
          timestamps_arp : [IP -> Nat \cup {None}],
          timestamps_pair : Seq(Pair),
          frames_out : Seq(Frame)]

Counters == [send : Nat, retransmit : Nat, loss : Nat, restart : Nat]

LanType ==
    /\ node \in [Host -> Iface]
    /\ wire \in [Host -> Seq(Frame)]
    /\ asked \in [Host -> [Host -> Seq(Dgram)]]
    /\ used \in Counters
-----------------------------------------------------------------------------
(* Two interfaces that differ only in what they have to send.              *)
SameMaps(i, j) ==
    /\ j.ip2eth = i.ip2eth /\ j.ip2dgrams = i.ip2dgrams
    /\ j.timestamps_arp = i.timestamps_arp /\ j.timestamps_pair = i.timestamps_pair

LEMMA CoherenceOfMaps ==
    ASSUME NEW i, NEW j, Coherent(i), SameMaps(i, j)
    PROVE  Coherent(j)
BY DEF Coherent, PairsCoherent, Young, QueueCoherent, SameMaps

LEMMA SendArp ==
    ASSUME NEW i \in Iface, NEW opcode \in {"REQUEST", "REPLY"},
           NEW ip \in IP, NEW eth \in Ethernet \cup {None}
    PROVE  send_arp(i, opcode, ip, eth) \in Iface /\ SameMaps(i, send_arp(i, opcode, ip, eth))
<1> DEFINE f == [src |-> i.eth,
                 dst |-> IF opcode = "REPLY" THEN eth ELSE BROADCAST,
                 type |-> "ARP",
                 payload |-> [opcode |-> opcode, sender_ip |-> i.ip, sender_eth |-> i.eth,
                              target_ip |-> ip, target_eth |-> eth]]
<1>1. f \in Frame
  BY DEF Iface, Frame, Message, Target
<1>2. send_arp(i, opcode, ip, eth) = [i EXCEPT !.frames_out = Append(@, f)]
  BY DEF send_arp
<1> HIDE DEF f
<1>3. i.frames_out \in Seq(Frame)
  BY DEF Iface
<1>4. Append(i.frames_out, f) \in Seq(Frame)
  BY <1>1, <1>3, AppendProperties
<1> QED BY <1>2, <1>4 DEF Iface, SameMaps

LEMMA FrameOfDatagram ==
    ASSUME NEW i \in Iface, NEW dgram \in Dgram, NEW dst \in Target
    PROVE  IPv4Frame(i, dgram, dst) \in Frame
BY DEF IPv4Frame, Frame, Iface
-----------------------------------------------------------------------------
LEMMA SendDatagram ==
    ASSUME NEW i \in Iface, Coherent(i), NEW dgram \in Dgram, NEW hop \in IP
    PROVE  send_datagram(i, dgram, hop) \in Iface /\ Coherent(send_datagram(i, dgram, hop))
<1>1. CASE i.ip2eth[hop] # None
  <2> DEFINE f == IPv4Frame(i, dgram, i.ip2eth[hop])
  <2>1. f \in Frame
    BY FrameOfDatagram DEF Iface, Target
  <2> HIDE DEF f
  <2>2. Append(i.frames_out, f) \in Seq(Frame)
    BY <2>1, AppendProperties DEF Iface
  <2>3. send_datagram(i, dgram, hop) = [i EXCEPT !.frames_out = Append(@, f)]
    BY <1>1 DEF send_datagram, f
  <2>4. send_datagram(i, dgram, hop) \in Iface /\ SameMaps(i, send_datagram(i, dgram, hop))
    BY <2>2, <2>3 DEF Iface, SameMaps
  <2> QED BY <2>4, CoherenceOfMaps
<1>2. CASE i.ip2eth[hop] = None
  <2> DEFINE j == Enqueue(i, dgram, hop)
             k == [j EXCEPT !.timestamps_arp[hop] = 0]
  <2>1. send_datagram(i, dgram, hop) = Request(j, hop)
    BY <1>2 DEF send_datagram
  <2>2. Append(i.ip2dgrams[hop], dgram) \in Seq(Dgram) /\ Append(i.ip2dgrams[hop], dgram) # <<>>
    <3> DEFINE q == i.ip2dgrams[hop]
    <3>1. q \in Seq(Dgram) /\ dgram \in Dgram
      BY DEF Iface
    <3> HIDE DEF q
    <3>2. Append(q, dgram) \in Seq(Dgram) /\ Append(q, dgram) # <<>>
      BY ONLY <3>1, AppendProperties
    <3> QED BY ONLY <3>2 DEF q
  <2>3. /\ j \in Iface
        /\ j.ip2eth = i.ip2eth /\ j.timestamps_arp = i.timestamps_arp
        /\ j.timestamps_pair = i.timestamps_pair
        /\ j.ip2dgrams[hop] # <<>>
        /\ \A a \in IP : a # hop => j.ip2dgrams[a] = i.ip2dgrams[a]
    BY <2>2 DEF Enqueue, Iface
  <2> HIDE DEF j
  <2>4. /\ k \in Iface
        /\ k.ip2eth = j.ip2eth /\ k.ip2dgrams = j.ip2dgrams
        /\ k.timestamps_pair = j.timestamps_pair
        /\ k.timestamps_arp[hop] = 0
        /\ \A a \in IP : a # hop => k.timestamps_arp[a] = j.timestamps_arp[a]
    BY <2>3 DEF Iface
  <2> HIDE DEF k
  <2>5. CASE Waiting(j, hop)
    <3>1. send_datagram(i, dgram, hop) = j
      BY <2>1, <2>5 DEF Request
    <3>2. j.timestamps_arp[hop] # None
      BY <2>5 DEF Waiting
    <3>3. QueueCoherent(j)
      BY <1>2, <2>3, <3>2 DEF QueueCoherent, Coherent
    <3>4. PairsCoherent(j) /\ Young(j)
      BY <2>3 DEF PairsCoherent, Young, Coherent
    <3> QED BY <2>3, <3>1, <3>3, <3>4 DEF Coherent
  <2>6. CASE ~Waiting(j, hop)
    <3>1. send_datagram(i, dgram, hop) = send_arp(k, "REQUEST", hop, None)
      BY <2>1, <2>6 DEF Request, k
    <3>2. 0 # None
      BY InterfaceAssumption
    <3>3. QueueCoherent(k)
      BY <1>2, <2>3, <2>4, <3>2 DEF QueueCoherent, Coherent
    <3>4. PairsCoherent(k) /\ Young(k)
      BY <2>3, <2>4 DEF PairsCoherent, Young, Coherent
    <3>5. Coherent(k)
      BY <3>3, <3>4 DEF Coherent
    <3> QED BY <2>4, <3>1, <3>5, SendArp, CoherenceOfMaps
  <2> QED BY <2>5, <2>6
<1> QED BY <1>1, <1>2
-----------------------------------------------------------------------------
(* Between Learn and Flush the sender's address is known, and datagrams    *)
(* may still be queued for it.                                             *)
QueueCoherentBut(i, ip) ==
    \A a \in IP : /\ i.timestamps_arp[a] # None <=> i.ip2dgrams[a] # <<>>
                  /\ a # ip /\ i.timestamps_arp[a] # None => i.ip2eth[a] = None

LEMMA LearnSender ==
    ASSUME NEW i \in Iface, Coherent(i), NEW msg \in Message
    PROVE  /\ Learn(i, msg) \in Iface
           /\ PairsCoherent(Learn(i, msg)) /\ Young(Learn(i, msg))
           /\ QueueCoherentBut(Learn(i, msg), msg.sender_ip)
           /\ Learn(i, msg).ip2eth[msg.sender_ip] \in Ethernet
<1> DEFINE s == msg.sender_ip
           j == Learn(i, msg)
<1>0. s \in IP /\ msg.sender_eth \in Ethernet /\ None \notin Ethernet
  BY InterfaceAssumption DEF Message
<1>1. CASE i.ip2eth[s] # None
  <2>1. j = i
    BY <1>1 DEF Learn
  <2>2. i.ip2eth[s] \in Ethernet
    BY <1>0, <1>1 DEF Iface
  <2> QED BY <2>1, <2>2 DEF Coherent, QueueCoherent, QueueCoherentBut
<1>2. CASE i.ip2eth[s] = None
  <2> DEFINE p == [ip |-> s, eth |-> msg.sender_eth, age |-> 0]
             old == i.timestamps_pair
             n == Len(old)
  <2>1. p \in Pair /\ p.ip = s /\ p.eth = msg.sender_eth /\ p.age = 0
    BY <1>0 DEF Pair
  <2>2. j = [i EXCEPT !.ip2eth[s] = msg.sender_eth, !.timestamps_pair = Append(@, p)]
    BY <1>2 DEF Learn
  <2> HIDE DEF p
  <2>3. old \in Seq(Pair) /\ n \in Nat /\ DOMAIN old = 1 .. n
    BY LenProperties DEF Iface
  <2>4. \A k \in 1 .. n : old[k] \in Pair /\ old[k].age \in Nat /\ old[k].ip \in IP
    <3>1. \A k \in 1 .. n : old[k] \in Pair
      BY <2>3, ElementOfSeq
    <3> HIDE DEF old, n
    <3> QED BY <3>1 DEF Pair
  <2> HIDE DEF j
  <2>5. /\ Append(old, p) \in Seq(Pair)
        /\ DOMAIN Append(old, p) = 1 .. n + 1
        /\ Append(old, p)[n + 1] = p
        /\ \A k \in 1 .. n : Append(old, p)[k] = old[k]
    BY <2>1, <2>3, AppendProperties
  <2>6. /\ j \in Iface
        /\ j.timestamps_pair = Append(old, p)
        /\ j.ip2eth[s] = msg.sender_eth
        /\ \A a \in IP : a # s => j.ip2eth[a] = i.ip2eth[a]
        /\ j.timestamps_arp = i.timestamps_arp /\ j.ip2dgrams = i.ip2dgrams
    BY <1>0, <2>2, <2>5 DEF Iface
  <2> DEFINE new == Append(old, p)
  <2> HIDE DEF new
  <2>7. /\ DOMAIN new = 1 .. n + 1 /\ new[n + 1] = p /\ j.timestamps_pair = new
        /\ \A k \in 1 .. n : new[k] = old[k]
    BY <2>5, <2>6 DEF new
  <2>8. \A k \in 1 .. n : old[k].ip # s
    BY <1>0, <1>2, <2>3 DEF Coherent, PairsCoherent
  <2> HIDE DEF old, n, s
  <2>9. \A a \in IP : j.ip2eth[a] # None <=> \E k \in DOMAIN new : new[k].ip = a
    <3> SUFFICES ASSUME NEW a \in IP
                 PROVE  j.ip2eth[a] # None <=> \E k \in 1 .. n + 1 : new[k].ip = a
      BY <2>7
    <3>1. CASE a = s
      <4>1. n + 1 \in 1 .. n + 1
        BY <2>3
      <4> QED BY <1>0, <2>1, <2>6, <2>7, <3>1, <4>1
    <3>2. CASE a # s
      <4>1. i.ip2eth[a] # None <=> \E k \in 1 .. n : old[k].ip = a
        BY <2>3 DEF Coherent, PairsCoherent, old
      <4>2. \A k \in 1 .. n + 1 : k \in 1 .. n \/ k = n + 1
        BY <2>3
      <4>3. \A k \in 1 .. n : k \in 1 .. n + 1
        BY <2>3
      <4> QED BY <2>1, <2>6, <2>7, <3>2, <4>1, <4>2, <4>3
    <3> QED BY <3>1, <3>2
  <2>10. \A x, y \in 1 .. n + 1 : x < y => new[x].ip # new[y].ip /\ new[x].age >= new[y].age
    <3> TAKE x, y \in 1 .. n + 1
    <3> HAVE x < y
    <3>1. x \in 1 .. n
      BY <2>3
    <3>2. CASE y \in 1 .. n
      BY <2>3, <2>7, <3>1, <3>2 DEF Coherent, PairsCoherent, old
    <3>3. CASE y = n + 1
      BY <2>1, <2>4, <2>7, <2>8, <3>1, <3>3
    <3> QED BY <2>3, <3>2, <3>3
  <2>11. \A k \in 1 .. n + 1 : new[k].eth = j.ip2eth[new[k].ip] /\ new[k].age <= MAPPING_TTL
    <3> TAKE k \in 1 .. n + 1
    <3>1. CASE k \in 1 .. n
      <4>1. old[k].eth = i.ip2eth[old[k].ip] /\ old[k].age <= MAPPING_TTL
        BY <2>3, <3>1 DEF Coherent, PairsCoherent, Young, old
      <4> QED BY <2>4, <2>6, <2>7, <2>8, <3>1, <4>1
    <3>2. CASE k = n + 1
      BY <2>1, <2>6, <2>7, <3>2, InterfaceAssumption
    <3> QED BY <2>3, <3>1, <3>2
  <2>12. PairsCoherent(j) /\ Young(j)
    BY <2>7, <2>9, <2>10, <2>11 DEF PairsCoherent, Young
  <2>13. QueueCoherentBut(j, s)
    BY <2>6 DEF QueueCoherentBut, Coherent, QueueCoherent
  <2> QED BY <1>0, <2>6, <2>12, <2>13 DEF s, j
<1> QED BY <1>1, <1>2

LEMMA FlushQueue ==
    ASSUME NEW i \in Iface, NEW ip \in IP, PairsCoherent(i), Young(i),
           QueueCoherentBut(i, ip), i.ip2eth[ip] \in Ethernet
    PROVE  Flush(i, ip) \in Iface /\ Coherent(Flush(i, ip))
<1>1. CASE i.timestamps_arp[ip] = None
  <2>1. Flush(i, ip) = i
    BY <1>1 DEF Flush
  <2>2. QueueCoherent(i)
    BY <1>1 DEF QueueCoherent, QueueCoherentBut
  <2> QED BY <2>1, <2>2 DEF Coherent
<1>2. CASE i.timestamps_arp[ip] # None
  <2> DEFINE q == i.ip2dgrams[ip]
             out == [k \in 1 .. Len(q) |-> IPv4Frame(i, q[k], i.ip2eth[ip])]
             j == Flush(i, ip)
  <2>1. q \in Seq(Dgram) /\ Len(q) \in Nat
    BY LenProperties DEF Iface
  <2>2. out \in Seq(Frame)
    <3>1. \A k \in 1 .. Len(q) : IPv4Frame(i, q[k], i.ip2eth[ip]) \in Frame
      BY <2>1, ElementOfSeq, FrameOfDatagram DEF Target
    <3>2. out \in [1 .. Len(q) -> Frame]
      BY <3>1
    <3> HIDE DEF out
    <3> QED BY <2>1, <3>2, SeqDef
  <2>3. j = [i EXCEPT !.timestamps_arp[ip] = None, !.ip2dgrams[ip] = <<>>,
                      !.frames_out = @ \o out]
    BY <1>2 DEF Flush
  <2> HIDE DEF out, j
  <2>4. i.frames_out \o out \in Seq(Frame)
    BY <2>2, ConcatProperties DEF Iface
  <2>5. <<>> \in Seq(Dgram)
    BY EmptySeq
  <2>6. /\ j \in Iface
        /\ j.ip2eth = i.ip2eth /\ j.timestamps_pair = i.timestamps_pair
        /\ j.timestamps_arp[ip] = None /\ j.ip2dgrams[ip] = <<>>
        /\ \A a \in IP : a # ip => /\ j.timestamps_arp[a] = i.timestamps_arp[a]
                                   /\ j.ip2dgrams[a] = i.ip2dgrams[a]
    BY <2>3, <2>4, <2>5 DEF Iface
  <2>7. QueueCoherent(j)
    BY <2>6 DEF QueueCoherent, QueueCoherentBut
  <2>8. PairsCoherent(j) /\ Young(j)
    BY <2>6 DEF PairsCoherent, Young
  <2> QED BY <2>6, <2>7, <2>8 DEF Coherent, j
<1> QED BY <1>1, <1>2

LEMMA RecvFrame ==
    ASSUME NEW i \in Iface, Coherent(i), NEW frame \in Frame
    PROVE  recv_frame(i, frame) \in Iface /\ Coherent(recv_frame(i, frame))
<1>1. CASE ~Datagram(i, frame) /\ frame.type = "ARP"
  <2> DEFINE msg == frame.payload
             j == Flush(Learn(i, msg), msg.sender_ip)
  <2>1. msg \in Message
    BY <1>1 DEF Frame
  <2>2. msg.sender_ip \in IP /\ msg.sender_eth \in Ethernet
    BY <2>1 DEF Message
  <2>3. recv_frame(i, frame) = Reply(j, msg)
    BY <1>1 DEF recv_frame
  <2> HIDE DEF msg
  <2>4. j \in Iface /\ Coherent(j)
    BY <2>1, <2>2, LearnSender, FlushQueue
  <2> HIDE DEF j
  <2>5. Reply(j, msg) = j \/ Reply(j, msg) = send_arp(j, "REPLY", msg.sender_ip, msg.sender_eth)
    BY DEF Reply
  <2> QED BY <2>2, <2>3, <2>4, <2>5, SendArp, CoherenceOfMaps
<1>2. CASE ~(~Datagram(i, frame) /\ frame.type = "ARP")
  BY <1>2 DEF recv_frame
<1> QED BY <1>1, <1>2
-----------------------------------------------------------------------------
(* The age of the mappings falls along timestamps_pair, so the loop of     *)
(* tick, which stops at the first mapping that is young enough, leaves no  *)
(* mapping that is too old.                                                *)
LEMMA LoopStops ==
    ASSUME NEW pairs \in Seq(Pair)
    PROVE  /\ Expired(pairs) \in 0 .. Len(pairs)
           /\ \A k \in 1 .. Expired(pairs) : pairs[k].age > MAPPING_TTL
           /\ Expired(pairs) < Len(pairs) => pairs[Expired(pairs) + 1].age <= MAPPING_TTL
<1> DEFINE Old(k) == pairs[k].age > MAPPING_TTL
           w == Len(pairs)
           T == {n \in 0 .. w : \A k \in 1 .. n : Old(k)}
<1>1. w \in Nat
  BY LenProperties
<1>2. \A k \in 1 .. w : pairs[k].age \in Nat
  <2>1. \A k \in 1 .. w : pairs[k] \in Pair
    BY <1>1, ElementOfSeq
  <2> QED BY <2>1 DEF Pair
<1>3. \A k \in 1 .. w : ~Old(k) => pairs[k].age <= MAPPING_TTL
  BY <1>2, InterfaceAssumption
<1> HIDE DEF Old, w
<1>4. 0 \in T
  BY <1>1
<1>5. PICK n \in T : \A m \in T : m <= n
  BY <1>1, <1>4, GreatestElement
<1>6. n < w => ~Old(n + 1)
  <2> SUFFICES ASSUME n < w, Old(n + 1) PROVE FALSE
    OBVIOUS
  <2>1. \A k \in 1 .. n + 1 : k \in 1 .. n \/ k = n + 1
    BY <1>1
  <2>2. n + 1 \in T
    BY <1>1, <2>1
  <2>3. n + 1 <= n
    BY <1>5, <2>2
  <2> QED BY <1>1, <2>3
<1>7. n < w => pairs[n + 1].age <= MAPPING_TTL
  BY <1>1, <1>3, <1>6
<1>8. \E m \in 0 .. Len(pairs) : /\ \A k \in 1 .. m : pairs[k].age > MAPPING_TTL
                                 /\ m < Len(pairs) => pairs[m + 1].age <= MAPPING_TTL
  BY <1>7 DEF Old, w
<1> QED BY <1>8 DEF Expired

LEMMA AgedPairs ==
    ASSUME NEW i \in Iface, Coherent(i), NEW ms \in Nat
    PROVE  Aged(i, ms) \in Iface /\ PairsCoherent(Aged(i, ms)) /\ QueueCoherent(Aged(i, ms))
<1> DEFINE old == i.timestamps_pair
           n == Len(old)
           new == [k \in 1 .. n |-> [old[k] EXCEPT !.age = @ + ms]]
           arp == [a \in IP |->
                     IF i.timestamps_arp[a] = None THEN None
                     ELSE IF i.timestamps_arp[a] + ms > ARP_WAIT THEN ARP_WAIT
                     ELSE i.timestamps_arp[a] + ms]
           j == Aged(i, ms)
<1>1. old \in Seq(Pair) /\ n \in Nat /\ DOMAIN old = 1 .. n
  BY LenProperties DEF Iface
<1>2. \A k \in 1 .. n : old[k] \in Pair
  BY <1>1, ElementOfSeq
<1>3. j = [i EXCEPT !.timestamps_pair = new, !.timestamps_arp = arp]
  BY DEF Aged
<1> HIDE DEF j
<1>4. \A k \in 1 .. n : /\ new[k] \in Pair
                        /\ new[k].ip = old[k].ip /\ new[k].eth = old[k].eth
                        /\ new[k].age = old[k].age + ms
                        /\ old[k].age \in Nat /\ old[k].ip \in IP
  <2> TAKE k \in 1 .. n
  <2>1. new[k] = [old[k] EXCEPT !.age = @ + ms]
    OBVIOUS
  <2> HIDE DEF new, old, n
  <2> QED BY <1>2, <2>1 DEF Pair
<1>5. new \in [1 .. n -> Pair]
  BY <1>4
<1>6. new \in Seq(Pair) /\ DOMAIN new = 1 .. n
  BY <1>1, <1>5, SeqDef
<1>7. arp \in [IP -> Nat \cup {None}]
  BY InterfaceAssumption DEF Iface
<1>8. \A a \in IP : arp[a] # None <=> i.timestamps_arp[a] # None
  BY InterfaceAssumption DEF Iface
<1> HIDE DEF new, arp
<1>9. /\ j \in Iface
      /\ j.timestamps_pair = new /\ j.timestamps_arp = arp
      /\ j.ip2eth = i.ip2eth /\ j.ip2dgrams = i.ip2dgrams
  BY <1>3, <1>6, <1>7 DEF Iface
<1>10. QueueCoherent(j)
  BY <1>8, <1>9 DEF Coherent, QueueCoherent
<1>11. /\ \A a \in IP : i.ip2eth[a] # None <=> \E k \in 1 .. n : old[k].ip = a
       /\ \A x, y \in 1 .. n : x < y => old[x].ip # old[y].ip /\ old[x].age >= old[y].age
       /\ \A k \in 1 .. n : old[k].eth = i.ip2eth[old[k].ip]
  BY <1>1 DEF Coherent, PairsCoherent
<1> HIDE DEF old, n
<1>12. \A x, y \in 1 .. n : x < y => new[x].ip # new[y].ip /\ new[x].age >= new[y].age
  BY <1>4, <1>11
<1>13. PairsCoherent(j)
  BY <1>4, <1>6, <1>9, <1>11, <1>12 DEF PairsCoherent
<1> QED BY <1>9, <1>10, <1>13 DEF j

LEMMA ForgetExpired ==
    ASSUME NEW i \in Iface, PairsCoherent(i), QueueCoherent(i)
    PROVE  /\ Forget(i, Expired(i.timestamps_pair)) \in Iface
           /\ Coherent(Forget(i, Expired(i.timestamps_pair)))
<1> DEFINE old == i.timestamps_pair
           w == Len(old)
           n == Expired(old)
           new == SubSeq(old, n + 1, w)
           eth == [a \in IP |-> IF \E k \in 1 .. n : old[k].ip = a THEN None ELSE i.ip2eth[a]]
           j == Forget(i, n)
<1>1. old \in Seq(Pair) /\ w \in Nat /\ DOMAIN old = 1 .. w
  BY LenProperties DEF Iface
<1>2. \A k \in 1 .. w : old[k].age \in Nat /\ old[k].ip \in IP
  <2>1. \A k \in 1 .. w : old[k] \in Pair
    BY <1>1, ElementOfSeq
  <2> HIDE DEF old, w
  <2> QED BY <2>1 DEF Pair
<1>3. n \in 0 .. w /\ (n < w => old[n + 1].age <= MAPPING_TTL)
  BY <1>1, LoopStops
<1>4. j = [i EXCEPT !.ip2eth = eth, !.timestamps_pair = new]
  BY DEF Forget, Iface
<1> HIDE DEF j, n
<1>5. new \in Seq(Pair) /\ DOMAIN new = 1 .. w - n /\ \A k \in 1 .. w - n : new[k] = old[n + k]
  <2>1. \A k \in n + 1 .. w : k \in 1 .. w
    BY <1>1, <1>3
  <2>2. /\ new \in Seq(Pair)
        /\ Len(new) = IF n + 1 <= w THEN w - (n + 1) + 1 ELSE 0
        /\ \A k \in 1 .. w - (n + 1) + 1 : new[k] = old[n + 1 + k - 1]
    BY <1>1, <1>3, SubSeqProperties
  <2> HIDE DEF new, old, w
  <2>3. Len(new) = w - n
    BY <1>1, <1>3, <2>2
  <2>4. DOMAIN new = 1 .. w - n
    BY <2>2, <2>3, LenProperties
  <2>5. \A k \in 1 .. w - n : k \in 1 .. w - (n + 1) + 1 /\ n + 1 + k - 1 = n + k
    BY <1>1, <1>3
  <2> QED BY <2>2, <2>4, <2>5
<1> HIDE DEF new
<1>6. eth \in [IP -> Ethernet \cup {None}]
  BY DEF Iface
<1>7. \A a \in IP : eth[a] = IF \E k \in 1 .. n : old[k].ip = a THEN None ELSE i.ip2eth[a]
  OBVIOUS
<1> HIDE DEF eth
<1>8. /\ j \in Iface
      /\ j.timestamps_pair = new /\ j.ip2eth = eth
      /\ j.timestamps_arp = i.timestamps_arp /\ j.ip2dgrams = i.ip2dgrams
  BY <1>4, <1>5, <1>6 DEF Iface
<1>9. /\ \A a \in IP : i.ip2eth[a] # None <=> \E k \in 1 .. w : old[k].ip = a
      /\ \A x, y \in 1 .. w : x < y => old[x].ip # old[y].ip /\ old[x].age >= old[y].age
      /\ \A k \in 1 .. w : old[k].eth = i.ip2eth[old[k].ip]
  BY <1>1 DEF PairsCoherent
<1> HIDE DEF old, w
<1>10. \A k \in 1 .. w - n : n + k \in 1 .. w /\ n + k > n
  BY <1>1, <1>3
<1>11. \A k \in 1 .. w - n : /\ eth[new[k].ip] = i.ip2eth[new[k].ip] /\ new[k].ip \in IP
                             /\ new[k].eth = eth[new[k].ip]
  <2> TAKE k \in 1 .. w - n
  <2>1. \A m \in 1 .. n : m \in 1 .. w /\ m < n + k
    BY <1>1, <1>3
  <2>2. \A m \in 1 .. n : old[m].ip # old[n + k].ip
    BY <1>9, <1>10, <2>1
  <2>3. new[k] = old[n + k] /\ old[n + k].ip \in IP
    BY <1>2, <1>5, <1>10
  <2> QED BY <1>7, <1>9, <1>10, <2>2, <2>3
<1>12. \A a \in IP : eth[a] # None <=> \E k \in 1 .. w - n : new[k].ip = a
  <2> TAKE a \in IP
  <2>1. ASSUME eth[a] # None PROVE \E k \in 1 .. w - n : new[k].ip = a
    <3>1. i.ip2eth[a] # None /\ ~\E k \in 1 .. n : old[k].ip = a
      BY <1>7, <2>1
    <3>2. PICK m \in 1 .. w : old[m].ip = a
      BY <1>9, <3>1
    <3>3. m > n
      BY <1>1, <1>3, <3>1, <3>2
    <3>4. m - n \in 1 .. w - n /\ n + (m - n) = m
      BY <1>1, <1>3, <3>3
    <3> QED BY <1>5, <3>2, <3>4
  <2>2. ASSUME NEW k \in 1 .. w - n, new[k].ip = a PROVE eth[a] # None
    BY <1>5, <1>9, <1>10, <1>11, <2>2
  <2> QED BY <2>1, <2>2
<1>13. \A x, y \in 1 .. w - n : x < y => new[x].ip # new[y].ip /\ new[x].age >= new[y].age
  <2> TAKE x, y \in 1 .. w - n
  <2> HAVE x < y
  <2>1. n + x < n + y
    BY <1>1, <1>3
  <2> QED BY <1>5, <1>9, <1>10, <2>1
<1>14. \A k \in 1 .. w - n : new[k].age <= MAPPING_TTL
  <2> TAKE k \in 1 .. w - n
  <2>1. n < w /\ n + 1 \in 1 .. w
    BY <1>1, <1>3
  <2>2. old[n + 1].age >= old[n + k].age
    <3>1. CASE k = 1
      BY <1>2, <2>1, <3>1
    <3>2. CASE k # 1
      <4>1. n + 1 < n + k
        BY <1>1, <1>3, <3>2
      <4> QED BY <1>9, <1>10, <2>1, <4>1
    <3> QED BY <3>1, <3>2
  <2>3. old[n + 1].age <= MAPPING_TTL /\ old[n + 1].age \in Nat /\ old[n + k].age \in Nat
    BY <1>2, <1>3, <1>10, <2>1
  <2> QED BY <1>5, <2>2, <2>3, InterfaceAssumption
<1>15. PairsCoherent(j) /\ Young(j)
  BY <1>5, <1>8, <1>11, <1>12, <1>13, <1>14 DEF PairsCoherent, Young
<1>16. QueueCoherent(j)
  BY <1>7, <1>8 DEF QueueCoherent
<1> QED BY <1>8, <1>15, <1>16 DEF Coherent, j, n, old

LEMMA Tick ==
    ASSUME NEW i \in Iface, Coherent(i), NEW ms \in Nat
    PROVE  NetworkInterface_tick(i, ms) \in Iface /\ Coherent(NetworkInterface_tick(i, ms))
BY AgedPairs, ForgetExpired DEF NetworkInterface_tick
-----------------------------------------------------------------------------
LEMMA Started ==
    ASSUME NEW eth \in Ethernet, NEW ip \in IP
    PROVE  NetworkInterface(eth, ip) \in Iface /\ Coherent(NetworkInterface(eth, ip))
<1> DEFINE i == NetworkInterface(eth, ip)
<1>1. /\ <<>> \in Seq(Dgram) /\ <<>> \in Seq(Pair) /\ <<>> \in Seq(Frame)
  BY EmptySeq
<1>2. i \in Iface
  BY <1>1 DEF NetworkInterface, Iface
<1>3. DOMAIN i.timestamps_pair = {}
  BY DEF NetworkInterface
<1>4. \A a \in IP : i.ip2eth[a] = None /\ i.timestamps_arp[a] = None /\ i.ip2dgrams[a] = <<>>
  BY DEF NetworkInterface
<1> HIDE DEF i
<1>5. PairsCoherent(i) /\ Young(i) /\ QueueCoherent(i)
  BY <1>3, <1>4 DEF PairsCoherent, Young, QueueCoherent
<1> QED BY <1>2, <1>5 DEF Coherent, i

LEMMA SendPending ==
    ASSUME LanType, CacheCoherent, NEW h \in Host, NEW i \in Iface, Coherent(i),
           NEW w \in [Host -> Seq(Frame)], send_pending(h, i, w)
    PROVE  node' \in [Host -> Iface] /\ wire' \in [Host -> Seq(Frame)] /\ CacheCoherent'
<1> DEFINE j == [i EXCEPT !.frames_out = <<>>]
<1>1. <<>> \in Seq(Frame)
  BY EmptySeq
<1>2. j \in Iface /\ SameMaps(i, j)
  BY <1>1 DEF Iface, SameMaps
<1>3. node' = [node EXCEPT ![h] = j]
  BY DEF send_pending
<1> HIDE DEF j
<1>4. Coherent(j)
  BY <1>2, CoherenceOfMaps
<1>5. node' \in [Host -> Iface] /\ CacheCoherent'
  BY <1>2, <1>3, <1>4 DEF LanType, CacheCoherent
<1>6. ASSUME NEW r \in Host PROVE w[r] \o i.frames_out \in Seq(Frame)
  BY ConcatProperties DEF Iface
<1>7. wire' \in [Host -> Seq(Frame)]
  BY <1>6 DEF send_pending
<1> QED BY <1>5, <1>7
-----------------------------------------------------------------------------
LanInv == LanType /\ CacheCoherent

LEMMA LanInit == Init => LanInv
<1> SUFFICES ASSUME Init PROVE LanInv
  OBVIOUS
<1>1. \A h \in Host : random_host_ethernet_address(h, 0) \in Ethernet
  BY LanAssumption
<1>2. <<>> \in Seq(Frame) /\ <<>> \in Seq(Dgram)
  BY EmptySeq
<1>3. node \in [Host -> Iface] /\ CacheCoherent
  BY <1>1, Started DEF Init, CacheCoherent, Host
<1>4. wire \in [Host -> Seq(Frame)] /\ asked \in [Host -> [Host -> Seq(Dgram)]]
  BY <1>2 DEF Init
<1> QED BY <1>3, <1>4 DEF Init, LanInv, LanType, Counters

LEMMA LanWrite ==
    ASSUME LanInv, NEW h \in Host, NEW d \in Host, NEW dgram \in Dgram, write(h, d, dgram)
    PROVE  /\ node' \in [Host -> Iface] /\ wire' \in [Host -> Seq(Frame)]
           /\ asked' \in [Host -> [Host -> Seq(Dgram)]] /\ CacheCoherent'
<1>1. node[h] \in Iface /\ Coherent(node[h])
  BY DEF LanInv, LanType, CacheCoherent
<1>2. /\ send_datagram(node[h], dgram, d) \in Iface
      /\ Coherent(send_datagram(node[h], dgram, d))
  BY <1>1, SendDatagram DEF Host
<1>3. node' \in [Host -> Iface] /\ wire' \in [Host -> Seq(Frame)] /\ CacheCoherent'
  BY <1>2, SendPending DEF write, LanInv, LanType
<1>4. Append(asked[h][d], dgram) \in Seq(Dgram)
  BY AppendProperties DEF LanInv, LanType
<1>5. asked' \in [Host -> [Host -> Seq(Dgram)]]
  BY <1>4 DEF write, LanInv, LanType
<1> QED BY <1>3, <1>5

LEMMA CountUp ==
    ASSUME NEW u \in Counters
    PROVE  /\ [u EXCEPT !.send = @ + 1] \in Counters
           /\ [u EXCEPT !.retransmit = @ + 1] \in Counters
           /\ [u EXCEPT !.loss = @ + 1] \in Counters
           /\ [u EXCEPT !.restart = @ + 1] \in Counters
<1>1. /\ u.send + 1 \in Nat /\ u.retransmit + 1 \in Nat
      /\ u.loss + 1 \in Nat /\ u.restart + 1 \in Nat
  BY DEF Counters
<1>2. [u EXCEPT !.send = @ + 1] \in Counters
  BY <1>1 DEF Counters
<1>3. [u EXCEPT !.retransmit = @ + 1] \in Counters
  BY <1>1 DEF Counters
<1>4. [u EXCEPT !.loss = @ + 1] \in Counters
  BY <1>1 DEF Counters
<1>5. [u EXCEPT !.restart = @ + 1] \in Counters
  BY <1>1 DEF Counters
<1> QED BY <1>2, <1>3, <1>4, <1>5

LEMMA LanStep == LanInv /\ [Next]_vars => LanInv'
<1> SUFFICES ASSUME LanInv, [Next]_vars PROVE LanInv'
  OBVIOUS
<1>1. ASSUME NEW h \in Host, read(h) PROVE LanInv'
  <2>1. wire[h] \in Seq(Frame) /\ wire[h] # <<>>
    BY <1>1 DEF read, LanInv, LanType
  <2>2. Head(wire[h]) \in Frame /\ Tail(wire[h]) \in Seq(Frame)
    BY <2>1, HeadTailProperties
  <2>3. [wire EXCEPT ![h] = Tail(@)] \in [Host -> Seq(Frame)]
    BY <2>2 DEF LanInv, LanType
  <2>4. /\ recv_frame(node[h], Head(wire[h])) \in Iface
        /\ Coherent(recv_frame(node[h], Head(wire[h])))
    BY <2>2, RecvFrame DEF LanInv, LanType, CacheCoherent
  <2>5. node' \in [Host -> Iface] /\ wire' \in [Host -> Seq(Frame)] /\ CacheCoherent'
    BY <1>1, <2>3, <2>4, SendPending DEF read, LanInv
  <2> QED BY <1>1, <2>5 DEF read, LanInv, LanType
<1>2. ASSUME NEW h \in Host, tick(h) PROVE LanInv'
  <2>1. /\ NetworkInterface_tick(node[h], Step) \in Iface
        /\ Coherent(NetworkInterface_tick(node[h], Step))
    BY Tick, LanAssumption DEF LanInv, LanType, CacheCoherent
  <2>2. node' \in [Host -> Iface] /\ wire' \in [Host -> Seq(Frame)] /\ CacheCoherent'
    BY <1>2, <2>1, SendPending DEF tick, LanInv, LanType
  <2> QED BY <1>2, <2>2 DEF tick, LanInv, LanType
<1>3. ASSUME NEW h \in Host, Lose(h) PROVE LanInv'
  <2>1. wire[h] \in Seq(Frame) /\ wire[h] # <<>>
    BY <1>3 DEF Lose, LanInv, LanType
  <2>2. Tail(wire[h]) \in Seq(Frame)
    BY <2>1, HeadTailProperties
  <2>3. used' \in Counters
    BY <1>3, CountUp DEF Lose, LanInv, LanType
  <2>4. wire' \in [Host -> Seq(Frame)]
    BY <1>3, <2>2 DEF Lose, LanInv, LanType
  <2> QED BY <1>3, <2>3, <2>4 DEF Lose, LanInv, LanType, CacheCoherent
<1>4. ASSUME NEW h \in Host, Restart(h) PROVE LanInv'
  <2> DEFINE eth == random_host_ethernet_address(h, used.restart + 1)
             i == NetworkInterface(eth, h)
  <2>1. used.restart + 1 \in 0 .. MaxRestart
    BY <1>4, LanAssumption DEF Restart, LanInv, LanType, Counters
  <2>2. eth \in Ethernet
    BY <2>1, LanAssumption
  <2>3. node' = [node EXCEPT ![h] = i]
    BY <1>4 DEF Restart
  <2> HIDE DEF eth
  <2>4. i \in Iface /\ Coherent(i)
    BY <2>2, Started DEF Host
  <2> HIDE DEF i
  <2>5. node' \in [Host -> Iface] /\ CacheCoherent'
    BY <2>3, <2>4 DEF LanInv, LanType, CacheCoherent
  <2>6. <<>> \in Seq(Frame) /\ <<>> \in Seq(Dgram)
    BY EmptySeq
  <2>7. wire' \in [Host -> Seq(Frame)]
    BY <1>4, <2>6 DEF Restart, LanInv, LanType
  <2>8. asked' \in [Host -> [Host -> Seq(Dgram)]]
    BY <1>4, <2>6 DEF Restart, LanInv, LanType
  <2>9. used' \in Counters
    BY <1>4, CountUp DEF Restart, LanInv, LanType
  <2> QED BY <2>5, <2>7, <2>8, <2>9 DEF LanInv, LanType
<1>5. ASSUME NEW h \in Host, NEW d \in Host, Send(h, d) PROVE LanInv'
  <2>1. used' \in Counters
    BY <1>5, CountUp DEF Send, LanInv, LanType
  <2>2. [src |-> h, dst |-> d, id |-> used.send + 1] \in Dgram
    BY DEF LanInv, LanType, Dgram, Host, Counters
  <2> QED BY <1>5, <2>1, <2>2, LanWrite DEF Send, LanInv, LanType
<1>6. ASSUME NEW h \in Host, NEW d \in Host, Retransmit(h, d) PROVE LanInv'
  <2>1. used' \in Counters
    BY <1>6, CountUp DEF Retransmit, LanInv, LanType
  <2>2. PICK k \in 1 .. Len(asked[h][d]) : write(h, d, asked[h][d][k])
    BY <1>6 DEF Retransmit
  <2>3. asked[h][d] \in Seq(Dgram)
    BY DEF LanInv, LanType
  <2>4. asked[h][d][k] \in Dgram
    BY <2>3, ElementOfSeq
  <2> QED BY <2>1, <2>2, <2>4, LanWrite DEF LanInv, LanType
<1>7. CASE UNCHANGED vars
  BY <1>7 DEF vars, LanInv, LanType, CacheCoherent
<1>8. \A route \in Route : route[1] \in Host /\ route[2] \in Host
  BY LanAssumption
<1> QED BY <1>1, <1>2, <1>3, <1>4, <1>5, <1>6, <1>7, <1>8 DEF Next

(* The invariant in full: the interfaces, the frames on their way and the  *)
(* requests keep their types, and the maps of every interface agree.       *)
THEOREM LanInvariance == Spec => []LanInv
<1> QED BY LanInit, LanStep, PTL DEF Spec

(* However many hosts exchange datagrams, whatever is lost and whoever     *)
(* restarts, ip2eth, ip2dgrams, timestamps_arp and timestamps_pair of      *)
(* every interface agree.                                                  *)
THEOREM MapsStayCoherent == Spec => []CacheCoherent
<1>1. LanInv => CacheCoherent
  BY DEF LanInv
<1> QED BY <1>1, LanInvariance, PTL
=============================================================================
