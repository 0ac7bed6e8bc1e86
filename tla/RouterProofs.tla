----------------------------- MODULE RouterProofs -----------------------------
(***************************************************************************)
(* The routing table finds the longest matching prefix, for addresses of   *)
(* any width and any routes added in any order.                            *)
(*                                                                         *)
(* The walk of route_one_datagram needs three facts of the trie: every     *)
(* node lies on the way to a route, every way to a route is complete, and  *)
(* the nodes that hold data are the routes.  They form the inductive       *)
(* invariant TrieInv.                                                      *)
(***************************************************************************)
EXTENDS Router, NaturalSets, SequenceTheorems, TLAPS

(* The node of a route.                                                    *)
Routed(route) ==
    [num_interface |-> route.num, data |-> route.hop, has_data |-> TRUE]

(* A path leads to a route: it is the beginning of the route's prefix.     *)
OnTheWay(path, routes) ==
    \E a \in Address : \E len \in 0 .. Width : \E n \in 0 .. len :
        path = First(a, n) /\ First(a, len) \in routes

(* Every way to a route is complete in the trie.                           *)
Complete(paths, routes) ==
    \A a \in Address : \A len \in 0 .. Width :
        First(a, len) \in routes => \A n \in 0 .. len : First(a, n) \in paths

TrieInv ==
    /\ <<>> \in DOMAIN bst
    /\ DOMAIN table \subseteq DOMAIN bst
    /\ \A path \in DOMAIN bst :
            /\ path \in DOMAIN table => bst[path] = Routed(table[path])
            /\ path \notin DOMAIN table => bst[path] = NewNode
            /\ path = <<>> \/ OnTheWay(path, DOMAIN table)
    /\ Complete(DOMAIN bst, DOMAIN table)
-----------------------------------------------------------------------------
(* The beginnings of an address.                                           *)
LEMMA FirstBits ==
    ASSUME NEW ip \in Address, NEW n \in 0 .. Width
    PROVE  /\ First(ip, n) \in Seq(Bit)
           /\ Len(First(ip, n)) = n
           /\ \A k \in 1 .. n : First(ip, n)[k] = ip[k]
<1>1. Width \in Nat
  BY RouterAssumption
<1>2. ip \in Seq(Bit) /\ Len(ip) = Width
  BY <1>1 DEF Address
<1>3. \A k \in 1 .. n : ip[k] \in Bit
  BY <1>1 DEF Address
<1> QED BY <1>1, <1>2, <1>3, SubSeqProperties DEF First

(* Equal beginnings have the same length and agree on every shorter one.   *)
LEMMA SameBeginning ==
    ASSUME NEW a \in Address, NEW b \in Address,
           NEW m \in 0 .. Width, NEW n \in 0 .. Width, First(a, m) = First(b, n)
    PROVE  m = n /\ \A k \in 0 .. n : First(a, k) = First(b, k)
<1>1. Width \in Nat
  BY RouterAssumption
<1>2. m = n
  BY FirstBits
<1>3. \A j \in 1 .. n : a[j] = b[j]
  <2>1. \A j \in 1 .. n : First(a, n)[j] = a[j]
    BY FirstBits
  <2>2. \A j \in 1 .. n : First(b, n)[j] = b[j]
    BY FirstBits
  <2>3. First(a, n) = First(b, n)
    BY <1>2
  <2> QED BY ONLY <2>1, <2>2, <2>3
<1>4. ASSUME NEW k \in 0 .. n PROVE First(a, k) = First(b, k)
  <2>1. k \in 0 .. Width
    BY <1>1
  <2>2. /\ First(a, k) \in Seq(Bit) /\ Len(First(a, k)) = k
        /\ First(b, k) \in Seq(Bit) /\ Len(First(b, k)) = k
    BY <2>1, FirstBits
  <2>3. \A j \in 1 .. k : First(a, k)[j] = First(b, k)[j]
    <3>1. \A j \in 1 .. k : First(a, k)[j] = a[j] /\ First(b, k)[j] = b[j]
      BY <2>1, FirstBits
    <3>2. \A j \in 1 .. k : a[j] = b[j]
      BY <1>1, <1>3
    <3> QED BY <3>1, <3>2
  <2> QED BY <2>2, <2>3, SeqEqual
<1> QED BY <1>2, <1>4

(* The empty beginning.                                                    *)
LEMMA FirstNone ==
    ASSUME NEW ip \in Address, NEW n \in 0 .. Width
    PROVE  First(ip, n) = <<>> <=> n = 0
<1>1. Width \in Nat
  BY RouterAssumption
<1>2. First(ip, n) \in Seq(Bit) /\ Len(First(ip, n)) = n
  BY FirstBits
<1> QED BY <1>1, <1>2, EmptySeq

(* One bit more: a beginning of b that continues the beginning of a of      *)
(* length n either agrees with a or is its other child.                    *)
LEMMA NextBit ==
    ASSUME NEW a \in Address, NEW b \in Address, NEW n \in 0 .. Width,
           n < Width, First(a, n) = First(b, n)
    PROVE  First(b, n + 1) = First(a, n + 1) \/ First(b, n + 1) = OtherChild(a, n)
<1>1. Width \in Nat
  BY RouterAssumption
<1>2. n \in 0 .. Width /\ n + 1 \in 0 .. Width /\ n + 1 \in 1 .. Width
  BY <1>1
<1>3. \A k \in 1 .. n : a[k] = b[k]
  <2>1. \A k \in 1 .. n : First(a, n)[k] = a[k]
    BY <1>2, FirstBits
  <2>2. \A k \in 1 .. n : First(b, n)[k] = b[k]
    BY <1>2, FirstBits
  <2> QED BY ONLY <2>1, <2>2, First(a, n) = First(b, n)
<1>4. a[n + 1] \in Bit /\ b[n + 1] \in Bit
  BY <1>2 DEF Address
<1>5. /\ First(a, n + 1) \in Seq(Bit) /\ Len(First(a, n + 1)) = n + 1
      /\ First(b, n + 1) \in Seq(Bit) /\ Len(First(b, n + 1)) = n + 1
      /\ First(a, n) \in Seq(Bit) /\ Len(First(a, n)) = n
  BY <1>2, FirstBits
<1>6. \A k \in 1 .. n + 1 : First(a, n + 1)[k] = a[k] /\ First(b, n + 1)[k] = b[k]
  BY <1>2, FirstBits
<1>7. \A k \in 1 .. n : First(a, n)[k] = a[k]
  BY <1>2, FirstBits
<1>8. CASE a[n + 1] = b[n + 1]
  <2>1. \A k \in 1 .. n + 1 : First(a, n + 1)[k] = First(b, n + 1)[k]
    BY <1>2, <1>3, <1>6, <1>8
  <2> QED BY <1>5, <2>1, SeqEqual
<1>9. CASE a[n + 1] # b[n + 1]
  <2> DEFINE other == 1 - a[n + 1]
  <2>1. b[n + 1] = other /\ other \in Bit
    BY <1>4, <1>9 DEF Bit
  <2> HIDE DEF other
  <2>2. /\ Append(First(a, n), other) \in Seq(Bit)
        /\ Len(Append(First(a, n), other)) = n + 1
        /\ \A k \in 1 .. n : Append(First(a, n), other)[k] = First(a, n)[k]
        /\ Append(First(a, n), other)[n + 1] = other
    BY <1>5, <2>1, AppendProperties
  <2>3. \A k \in 1 .. n + 1 : First(b, n + 1)[k] = Append(First(a, n), other)[k]
    BY <1>2, <1>3, <1>6, <1>7, <2>1, <2>2
  <2>4. First(b, n + 1) = Append(First(a, n), other)
    BY <1>5, <2>2, <2>3, SeqEqual
  <2> QED BY <2>4 DEF OtherChild, other
<1> QED BY <1>8, <1>9
-----------------------------------------------------------------------------
(* The loop of route_one_datagram ends at the last node on the way of ip.  *)
LEMMA DepthReached ==
    ASSUME NEW tree, NEW ip \in Address, <<>> \in DOMAIN tree
    PROVE  /\ Depth(tree, ip) \in 0 .. Width
           /\ \A n \in 0 .. Depth(tree, ip) : First(ip, n) \in DOMAIN tree
           /\ Depth(tree, ip) < Width =>
                    First(ip, Depth(tree, ip) + 1) \notin DOMAIN tree
<1>1. Width \in Nat
  BY RouterAssumption
<1> DEFINE T == {d \in 0 .. Width : \A n \in 0 .. d : First(ip, n) \in DOMAIN tree}
<1>2. 0 \in T
  <2>1. First(ip, 0) = <<>>
    BY <1>1, FirstNone
  <2> QED BY <1>1, <2>1
<1>3. PICK d \in T : \A y \in T : y <= d
  <2>1. T \subseteq 0 .. Width /\ T # {}
    BY <1>2
  <2> HIDE DEF T
  <2> QED BY <1>1, <2>1, GreatestElement
<1>4. d < Width => First(ip, d + 1) \notin DOMAIN tree
  <2> SUFFICES ASSUME d < Width, First(ip, d + 1) \in DOMAIN tree
               PROVE  FALSE
    OBVIOUS
  <2>1. d \in 0 .. Width /\ d + 1 \in 0 .. Width
    BY <1>1, <1>3
  <2>2. \A n \in 0 .. d + 1 : First(ip, n) \in DOMAIN tree
    BY <1>3, <2>1
  <2>3. d + 1 \in T
    BY <2>1, <2>2
  <2> QED BY <1>3, <2>1, <2>3
<1>5. \E e \in 0 .. Width :
        /\ \A n \in 0 .. e : First(ip, n) \in DOMAIN tree
        /\ e < Width => First(ip, e + 1) \notin DOMAIN tree
  BY <1>3, <1>4
<1> QED BY <1>5 DEF Depth

(* The last valid parent is the deepest node with a route on the way of ip.*)
LEMMA LastValidParent ==
    ASSUME NEW tree, NEW ip \in Address, NEW d \in Nat
    PROVE  /\ ValidParent(tree, ip, d) \in 0 .. d
           /\ \/ ValidParent(tree, ip, d) = 0
              \/ tree[First(ip, ValidParent(tree, ip, d))].has_data
           /\ \A m \in ValidParent(tree, ip, d) + 1 .. d :
                    ~tree[First(ip, m)].has_data
<1> DEFINE T == {n \in 0 .. d : n = 0 \/ tree[First(ip, n)].has_data}
<1>1. T \subseteq 0 .. d /\ 0 \in T
  OBVIOUS
<1>2. PICK p \in T : \A y \in T : y <= p
  <2> HIDE DEF T
  <2> QED BY <1>1, GreatestElement
<1>3. p \in 0 .. d /\ (p = 0 \/ tree[First(ip, p)].has_data)
  BY <1>2
<1>4. \A m \in p + 1 .. d : ~tree[First(ip, m)].has_data
  <2> SUFFICES ASSUME NEW m \in p + 1 .. d, tree[First(ip, m)].has_data
               PROVE  FALSE
    OBVIOUS
  <2>1. m \in T
    BY <1>3
  <2> QED BY <1>2, <1>3, <2>1
<1> QED BY <1>3, <1>4 DEF ValidParent
-----------------------------------------------------------------------------
(* Where the walk ends: at a node of the trie that is the root or holds a  *)
(* route, and below which no route matches.                                *)
LEMMA WalkEnds ==
    ASSUME TrieInv, NEW ip \in Address
    PROVE  /\ LookupDepth(bst, ip) \in 0 .. Width
           /\ First(ip, LookupDepth(bst, ip)) \in DOMAIN bst
           /\ \/ LookupDepth(bst, ip) = 0
              \/ First(ip, LookupDepth(bst, ip)) \in DOMAIN table
           /\ \A m \in Matching(ip) : m <= LookupDepth(bst, ip)
<1>1. Width \in Nat
  BY RouterAssumption
<1> DEFINE d == Depth(bst, ip)
<1>2. /\ d \in 0 .. Width
      /\ \A n \in 0 .. d : First(ip, n) \in DOMAIN bst
      /\ d < Width => First(ip, d + 1) \notin DOMAIN bst
  BY DepthReached DEF TrieInv
<1> HIDE DEF d
<1>3. \A m \in Matching(ip) : m \in 0 .. Width /\ First(ip, m) \in DOMAIN table
  BY DEF Matching
<1>4. ASSUME NEW m \in Matching(ip) PROVE m <= d
  <2> SUFFICES ASSUME d < m PROVE FALSE
    BY <1>1, <1>2, <1>3
  <2>1. d + 1 \in 0 .. m
    BY <1>1, <1>2, <1>3
  <2>2. First(ip, d + 1) \in DOMAIN bst
    BY <1>3, <2>1 DEF TrieInv, Complete
  <2> QED BY <1>1, <1>2, <1>3, <2>2
<1>5. CASE d < Width /\ OtherChild(ip, d) \in DOMAIN bst
  <2> DEFINE p == ValidParent(bst, ip, d)
  <2>1. LookupDepth(bst, ip) = p
    BY <1>5 DEF LookupDepth, d
  <2>2. /\ p \in 0 .. d
        /\ p = 0 \/ bst[First(ip, p)].has_data
        /\ \A m \in p + 1 .. d : ~bst[First(ip, m)].has_data
    BY <1>1, <1>2, LastValidParent
  <2> HIDE DEF p
  <2>3. p \in 0 .. Width /\ First(ip, p) \in DOMAIN bst
    BY <1>1, <1>2, <2>2
  <2>4. bst[First(ip, p)].has_data => First(ip, p) \in DOMAIN table
    BY <2>3 DEF TrieInv, NewNode
  <2>5. ASSUME NEW m \in Matching(ip) PROVE m <= p
    <3>1. First(ip, m) \in DOMAIN bst /\ bst[First(ip, m)].has_data
      BY <1>3 DEF TrieInv, Routed
    <3>2. m \in 0 .. d
      BY <1>1, <1>2, <1>3, <1>4
    <3> QED BY <1>1, <1>2, <2>2, <3>1, <3>2
  <2> QED BY <2>1, <2>2, <2>3, <2>4, <2>5
<1>6. CASE ~(d < Width /\ OtherChild(ip, d) \in DOMAIN bst)
  <2>1. LookupDepth(bst, ip) = d
    BY <1>6 DEF LookupDepth, d
  <2>2. First(ip, d) \in DOMAIN bst
    BY <1>1, <1>2
  <2>3. d = 0 \/ First(ip, d) \in DOMAIN table
    <3> SUFFICES ASSUME d # 0 PROVE First(ip, d) \in DOMAIN table
      OBVIOUS
    <3>1. First(ip, d) # <<>>
      BY <1>2, FirstNone
    <3>2. OnTheWay(First(ip, d), DOMAIN table)
      BY <2>2, <3>1 DEF TrieInv
    <3>a. PICK a \in Address, len \in 0 .. Width : \E n \in 0 .. len :
            First(ip, d) = First(a, n) /\ First(a, len) \in DOMAIN table
      BY <3>2 DEF OnTheWay
    <3>3. PICK n \in 0 .. len :
            First(ip, d) = First(a, n) /\ First(a, len) \in DOMAIN table
      BY <3>a
    <3>4. n \in 0 .. Width
      BY <1>1
    <3>5. n = d
      BY <1>2, <3>3, <3>4, SameBeginning
    <3>6. n = len
      <4> SUFFICES ASSUME n # len PROVE FALSE
        OBVIOUS
      <4>1. d < Width /\ d + 1 \in 0 .. len
        BY <1>1, <3>5
      <4>2. First(a, d + 1) \in DOMAIN bst
        BY <3>3, <4>1 DEF TrieInv, Complete
      <4>3. First(a, d + 1) = First(ip, d + 1) \/ First(a, d + 1) = OtherChild(ip, d)
        BY <1>2, <3>3, <3>5, <4>1, NextBit
      <4> QED BY <1>2, <1>6, <4>1, <4>2, <4>3
    <3> QED BY <3>3, <3>6
  <2> QED BY <1>2, <1>4, <2>1, <2>2, <2>3
<1> QED BY <1>5, <1>6

(* What the invariant is needed for.                                       *)
LEMMA TrieFindsRoutes ==
    ASSUME TrieInv
    PROVE  LongestPrefixMatch /\ UnroutedOnInterfaceZero
<1>1. Width \in Nat
  BY RouterAssumption
<1>2. ASSUME NEW ip \in Address, NEW n \in Matching(ip), \A m \in Matching(ip) : m <= n
      PROVE  /\ Lookup(bst, ip).num_interface = table[First(ip, n)].num
             /\ Lookup(bst, ip).data = table[First(ip, n)].hop
  <2> DEFINE e == LookupDepth(bst, ip)
  <2>1. /\ e \in 0 .. Width /\ (e = 0 \/ First(ip, e) \in DOMAIN table)
        /\ n <= e
    BY WalkEnds
  <2> HIDE DEF e
  <2>2. n \in 0 .. Width /\ First(ip, n) \in DOMAIN table
    BY DEF Matching
  <2>3. e # 0 => e \in Matching(ip)
    BY <2>1 DEF Matching
  <2>4. e = n
    BY <1>1, <1>2, <2>1, <2>2, <2>3
  <2>5. bst[First(ip, n)] = Routed(table[First(ip, n)])
    BY <2>2 DEF TrieInv
  <2> QED BY <2>4, <2>5 DEF Lookup, Routed, e
<1>3. ASSUME NEW ip \in Address, Matching(ip) = {}
      PROVE  Lookup(bst, ip) = NewNode
  <2> DEFINE e == LookupDepth(bst, ip)
  <2>1. e \in 0 .. Width /\ First(ip, e) \in DOMAIN bst
    BY WalkEnds
  <2>2. First(ip, e) \notin DOMAIN table
    BY <1>3, <2>1 DEF Matching
  <2> QED BY <2>1, <2>2 DEF Lookup, TrieInv
<1> QED BY <1>2, <1>3 DEF LongestPrefixMatch, UnroutedOnInterfaceZero
-----------------------------------------------------------------------------
LEMMA TrieInit == TableInit => TrieInv
<1> SUFFICES ASSUME TableInit PROVE TrieInv
  OBVIOUS
<1>1. DOMAIN bst = {<<>>} /\ bst[<<>>] = NewNode
  BY DEF TableInit, BST
<1>2. DOMAIN table = {}
  BY DEF TableInit
<1> QED BY <1>1, <1>2 DEF TrieInv, Complete

(* add_route keeps the trie in order.                                      *)
LEMMA TrieStep ==
    ASSUME TrieInv, NEW prefix \in Address, NEW len \in 0 .. Width,
           NEW hop, NEW num, add_route(prefix, len, hop, num)
    PROVE  TrieInv'
<1>1. Width \in Nat
  BY RouterAssumption
<1> DEFINE new == First(prefix, len)
           way == {First(prefix, n) : n \in 0 .. len}
<1>2. /\ DOMAIN bst' = DOMAIN bst \cup way
      /\ DOMAIN table' = DOMAIN table \cup {new}
      /\ new \in way
  BY <1>1 DEF add_route, Insert
<1>3. bst'[new] = Routed(table'[new])
  BY <1>2 DEF add_route, Insert, Routed
<1>4. \A path \in DOMAIN bst' : path # new =>
        bst'[path] = IF path \in DOMAIN bst THEN bst[path] ELSE NewNode
  BY <1>2 DEF add_route, Insert
<1>5. \A path \in DOMAIN table : path # new => table'[path] = table[path]
  BY <1>2 DEF add_route
<1>6. ASSUME NEW path \in DOMAIN bst'
      PROVE  /\ path \in DOMAIN table' => bst'[path] = Routed(table'[path])
             /\ path \notin DOMAIN table' => bst'[path] = NewNode
  <2> HIDE DEF new, way
  <2>1. CASE path = new
    BY <1>2, <1>3, <2>1
  <2>2. CASE path # new /\ path \in DOMAIN bst
    BY <1>2, <1>4, <1>5, <2>2 DEF TrieInv, Routed
  <2>3. CASE path # new /\ path \notin DOMAIN bst
    BY <1>2, <1>4, <2>3 DEF TrieInv
  <2> QED BY <2>1, <2>2, <2>3
<1>7. ASSUME NEW path \in DOMAIN bst'
      PROVE  path = <<>> \/ OnTheWay(path, DOMAIN table')
  <2>1. CASE path \in DOMAIN bst
    <3>1. path = <<>> \/ OnTheWay(path, DOMAIN table)
      BY <2>1 DEF TrieInv
    <3> QED BY <1>2, <3>1 DEF OnTheWay
  <2>2. CASE path \in way
    <3>1. PICK n \in 0 .. len : path = First(prefix, n)
      BY <2>2
    <3>2. First(prefix, len) \in DOMAIN table'
      BY <1>2
    <3> QED BY <3>1, <3>2 DEF OnTheWay
  <2> QED BY <1>2, <2>1, <2>2
<1>8. Complete(DOMAIN bst', DOMAIN table')
  <2> SUFFICES ASSUME NEW a \in Address, NEW l \in 0 .. Width,
                      First(a, l) \in DOMAIN table', NEW n \in 0 .. l
               PROVE  First(a, n) \in DOMAIN bst'
    BY DEF Complete
  <2>1. CASE First(a, l) \in DOMAIN table
    BY <1>2, <2>1 DEF TrieInv, Complete
  <2>2. CASE First(a, l) = new
    <3>1. l = len /\ \A k \in 0 .. len : First(a, k) = First(prefix, k)
      BY <2>2, SameBeginning
    <3>2. First(a, n) \in way
      BY <3>1
    <3> QED BY <1>2, <3>2
  <2> QED BY <1>2, <2>1, <2>2
<1>9. <<>> \in DOMAIN bst' /\ DOMAIN table' \subseteq DOMAIN bst'
  BY <1>2 DEF TrieInv
<1> QED BY <1>6, <1>7, <1>8, <1>9 DEF TrieInv

(* The invariant of the trie holds after any routes were added.            *)
THEOREM TrieInvariance == TableSpec => []TrieInv
<1>1. TableInit => TrieInv
  BY TrieInit
<1>2. TrieInv /\ [TableNext]_<<bst, table>> => TrieInv'
  <2> SUFFICES ASSUME TrieInv, [TableNext]_<<bst, table>> PROVE TrieInv'
    OBVIOUS
  <2>1. CASE TableNext
    BY <2>1, TrieStep DEF TableNext
  <2>2. CASE UNCHANGED <<bst, table>>
    BY <2>2 DEF TrieInv, Complete, OnTheWay
  <2> QED BY <2>1, <2>2
<1> QED BY <1>1, <1>2, PTL DEF TableSpec

(* Whatever routes add_route was given, in whatever order, the walk of     *)
(* route_one_datagram ends at the route with the longest matching prefix.  *)
THEOREM LongestPrefixFound == TableSpec => []LongestPrefixMatch
BY TrieInvariance, TrieFindsRoutes, PTL

(* A datagram that no route matches leaves on interface 0, as if attached. *)
THEOREM UnroutedNotDropped == TableSpec => []UnroutedOnInterfaceZero
BY TrieInvariance, TrieFindsRoutes, PTL
=============================================================================
