---------------------------- MODULE NetworkProofs ----------------------------
(***************************************************************************)
(* The routing table of a running network: nothing the router, the hosts   *)
(* or the links do disturbs it, so the theorems about the table hold in    *)
(* every network, whatever is sent while it runs.                          *)
(***************************************************************************)
EXTENDS Network, RouterProofs

(* What the network does is, seen from the table, adding a route or        *)
(* nothing.                                                                *)
LEMMA NetworkStep == [Next]_vars => [TableNext]_<<bst, table>>
<1> SUFFICES ASSUME [Next]_vars PROVE [TableNext]_<<bst, table>>
  OBVIOUS
<1>1. CASE AddRoute
  <2>1. PICK r \in Routes : add_route(r.prefix, r.len, r.hop, r.num)
    BY <1>1 DEF AddRoute
  <2>2. /\ r.prefix \in Address /\ r.len \in 0 .. Width
        /\ r.hop \in Hop \cup {NoHop} /\ r.num \in Interface
    BY NetworkAssumption
  <2> QED BY <2>1, <2>2 DEF TableNext
<1>2. CASE Route
  BY <1>2 DEF Route
<1>3. CASE Exchange
  BY <1>3 DEF Exchange
<1>4. ASSUME NEW h \in Host, check(h) PROVE UNCHANGED <<bst, table>>
  BY <1>4 DEF check
<1>5. ASSUME NEW h \in Sender, NEW d \in Destination, NEW ttl \in TTL,
             send_to(h, d, ttl)
      PROVE  UNCHANGED <<bst, table>>
  BY <1>5 DEF send_to
<1>6. CASE UNCHANGED vars
  BY <1>6 DEF vars
<1> QED BY <1>1, <1>2, <1>3, <1>4, <1>5, <1>6 DEF Next

(* The network implements the table alone.                                 *)
THEOREM NetworkKeepsTable == FairSpec => TableSpec
<1>1. Init => TableInit
  BY DEF Init
<1> QED BY <1>1, NetworkStep, PTL DEF FairSpec, TableSpec

(* In every network the router forwards along the longest matching prefix. *)
THEOREM NetworkRoutesByLongestPrefix == FairSpec => []LongestPrefixMatch
BY NetworkKeepsTable, LongestPrefixFound, PTL
=============================================================================
