--------------------------------- MODULE Lan ---------------------------------
(***************************************************************************)
(* Hosts on one Ethernet, each with a network interface below its TCP      *)
(* (TCPOverIPv4OverEthernetAdapter in tcp_helpers/tuntap_adapter.cc,       *)
(* NetworkInterfaceAdapter in apps/lab7.cc).  The Ethernet is a hub: every *)
(* frame reaches every other host, in order, or is lost.  A host may       *)
(* restart: the constructor takes a random Ethernet address, so a          *)
(* restarted host has a new one, and the others still know the old one.    *)
(***************************************************************************)
EXTENDS NetworkInterface, Functions

CONSTANTS Route,          \* the pairs <<sender, receiver>> that exchange datagrams
          Step,           \* milliseconds between two calls of tick
          MaxSend,        \* bound: datagrams sent, in all
          MaxRetransmit,  \* bound: datagrams sent once more, in all
          MaxLoss,        \* bound: frames lost
          MaxRestart      \* bound: restarts

VARIABLES node,      \* the interface of each host
          wire,      \* the frames each host has still to read
          asked,     \* the datagrams each host was asked to send to each other
          left,      \* those that left it in a frame
          got,       \* the datagrams each host handed to its TCP
          used       \* how often the environment did what is bounded

vars == <<node, wire, asked, left, got, used>>

Host == IP

(* The address a host draws when it starts for the nth time.                *)
random_host_ethernet_address(h, n) == <<h, n>>

ASSUME LanAssumption ==
    /\ Route \subseteq Host \X Host
    /\ \A h \in Host, n \in 0 .. MaxRestart : random_host_ethernet_address(h, n) \in Ethernet
    /\ Step \in Nat \ {0}
    /\ {MaxSend, MaxRetransmit, MaxLoss, MaxRestart} \subseteq Nat

Init ==
    /\ node = [h \in Host |-> NetworkInterface(random_host_ethernet_address(h, 0), h)]
    /\ wire = [h \in Host |-> <<>>]
    /\ asked = [h \in Host |-> [d \in Host |-> <<>>]]
    /\ left = [h \in Host |-> [d \in Host |-> <<>>]]
    /\ got = [h \in Host |-> {}]
    /\ used = [send |-> 0, retransmit |-> 0, loss |-> 0, restart |-> 0]

(* The datagrams for d among some frames.                                   *)
DatagramsFor(frames, d) ==
    LET ForHost(f) == f.type = "IPv4" /\ f.payload.dst = d
        Payloads(s) == [k \in 1 .. Len(s) |-> s[k].payload]
    IN  Payloads(SelectSeq(frames, ForHost))

(* Every adapter operation ends in send_pending: what the interface has     *)
(* queued goes out on the Ethernet.                                         *)
send_pending(h, i, w) ==
    /\ node' = [node EXCEPT ![h] = [i EXCEPT !.frames_out = <<>>]]
    /\ wire' = [r \in Host |-> IF r = h THEN w[r] ELSE w[r] \o i.frames_out]
    /\ left' = [left EXCEPT ![h] = [d \in Host |-> @[d] \o DatagramsFor(i.frames_out, d)]]

write(h, d, dgram) ==
    /\ send_pending(h, send_datagram(node[h], dgram, d), wire)
    /\ asked' = [asked EXCEPT ![h][d] = Append(@, dgram)]
    /\ UNCHANGED got

Send(h, d) ==
    /\ used.send < MaxSend
    /\ write(h, d, [src |-> h, dst |-> d, id |-> used.send + 1])
    /\ used' = [used EXCEPT !.send = @ + 1]

(* TCP repeats a segment that was not answered.  Its timeout doubles each   *)
(* time, so a repetition comes when the Ethernet has long been quiet and    *)
(* when the interface would repeat its ARP request.                         *)
Retransmit(h, d) ==
    /\ \A r \in Host : wire[r] = <<>>
    /\ ~Waiting(node[h], d)
    /\ used.retransmit < MaxRetransmit
    /\ \E k \in 1 .. Len(asked[h][d]) :
        /\ asked[h][d][k] \notin got[d]
        /\ write(h, d, asked[h][d][k])
    /\ used' = [used EXCEPT !.retransmit = @ + 1]

read(h) ==
    /\ wire[h] # <<>>
    /\ send_pending(h, recv_frame(node[h], Head(wire[h])),
                       [wire EXCEPT ![h] = Tail(@)])
    /\ got' = [got EXCEPT ![h] = IF Datagram(node[h], Head(wire[h]))
                                 THEN @ \cup {Head(wire[h]).payload} ELSE @]
    /\ UNCHANGED <<asked, used>>

tick(h) ==
    /\ send_pending(h, NetworkInterface_tick(node[h], Step), wire)
    /\ UNCHANGED <<asked, got, used>>

Lose(h) ==
    /\ used.loss < MaxLoss
    /\ wire[h] # <<>>
    /\ wire' = [wire EXCEPT ![h] = Tail(@)]
    /\ used' = [used EXCEPT !.loss = @ + 1]
    /\ UNCHANGED <<node, asked, left, got>>

Restart(h) ==
    /\ used.restart < MaxRestart
    /\ used' = [used EXCEPT !.restart = @ + 1]
    /\ node' = [node EXCEPT ![h] =
            NetworkInterface(random_host_ethernet_address(h, used.restart + 1), h)]
    /\ wire' = [wire EXCEPT ![h] = <<>>]
    /\ asked' = [asked EXCEPT ![h] = [d \in Host |-> <<>>]]
    /\ left' = [left EXCEPT ![h] = [d \in Host |-> <<>>]]
    /\ UNCHANGED got

Next ==
    \/ \E h \in Host : read(h) \/ tick(h) \/ Lose(h) \/ Restart(h)
    \/ \E route \in Route : Send(route[1], route[2]) \/ Retransmit(route[1], route[2])

Spec == Init /\ [][Next]_vars

(* Every host reads what arrives and calls tick in each round of its event  *)
(* loop, and TCP repeats what was not answered.                             *)
FairSpec ==
    /\ Spec
    /\ \A h \in Host : WF_vars(read(h)) /\ WF_vars(tick(h))
    /\ \A route \in Route : WF_vars(Retransmit(route[1], route[2]))
-----------------------------------------------------------------------------
(* The interface sends what it was asked to send to a host once each and in *)
(* the order it was asked: what it has sent, followed by what it still      *)
(* queues, is what it was asked to send.                                    *)
OrderKept ==
    \A h, d \in Host : asked[h][d] = left[h][d] \o node[h].ip2dgrams[d]

(* The four maps of every interface agree, whatever is sent, lost, late or  *)
(* expired.                                                                 *)
CacheCoherent == \A h \in Host : Coherent(node[h])

(* Every datagram that TCP repeats gets through although frames were lost:  *)
(* no loss of a request, a reply or a datagram leaves the interface unable  *)
(* to send.                                                                 *)
RetryHeals ==
    <>[](used.restart = 0 =>
            \A route \in Route : Range(asked[route[1]][route[2]]) \subseteq got[route[2]])

(* The address a restarted host no longer has is eventually forgotten, so   *)
(* the interface asks again.                                                *)
StaleForgotten ==
    <>[] \A h, d \in Host : node[h].ip2eth[d] \in {None, node[d].eth}
=============================================================================
