-------------------------------- MODULE Router --------------------------------
(***************************************************************************)
(* The routing table of the router (libsponge/router.cc): a binary trie,   *)
(* kept as a function from the paths of its nodes (sequences of bits, 0 to *)
(* the left and 1 to the right) to what the nodes hold.  The table of the  *)
(* routes as they were added is kept beside it, for the properties.        *)
(***************************************************************************)
EXTENDS Naturals, Sequences

CONSTANTS Width,   \* bits of an address: 32 in the code
          Interface, \* the numbers of the router's interfaces
          Hop,     \* the addresses a route may name as its next hop
          NoHop    \* the empty optional<Address> of a direct route

ASSUME RouterAssumption ==
    /\ Width \in Nat
    /\ 0 \in Interface

VARIABLES bst,     \* the routing table
          table    \* the last route added for each prefix

Bit == {0, 1}
Address == [1 .. Width -> Bit]

NewNode == [num_interface |-> 0, data |-> NoHop, has_data |-> FALSE]

BST == [path \in {<<>>} |-> NewNode]

(* The first n bits of an address, or of a route's prefix.                  *)
First(bits, n) == SubSeq(bits, 1, n)

(* Insert goes down the path of the prefix, makes the nodes it does not     *)
(* find and fills in the last.                                              *)
Insert_fillsPath(tree, prefix, len, num, addr) ==                   \* mutant
    [path \in DOMAIN tree \cup {First(prefix, n) : n \in 0 .. len} |->
        IF path \in DOMAIN tree /\ path # First(prefix, len) THEN tree[path]
        ELSE [num_interface |-> num, data |-> addr, has_data |-> TRUE]]
Insert(tree, prefix, len, num, addr) ==
    [path \in DOMAIN tree \cup {First(prefix, n) : n \in 0 .. len} |->
        IF path = First(prefix, len)
        THEN [num_interface |-> num, data |-> addr, has_data |-> TRUE]
        ELSE IF path \in DOMAIN tree THEN tree[path] ELSE NewNode]

(* How many bits of ip the loop of route_one_datagram follows: it stops at  *)
(* the last bit, or where the child for the next bit is missing.            *)
Depth(tree, ip) ==
    CHOOSE d \in 0 .. Width :
        /\ \A n \in 0 .. d : First(ip, n) \in DOMAIN tree
        /\ d < Width => First(ip, d + 1) \notin DOMAIN tree

(* The last node the loop passed that holds a route, or else the root.      *)
ValidParent(tree, ip, d) ==
    CHOOSE n \in 0 .. d :
        /\ n = 0 \/ tree[First(ip, n)].has_data
        /\ \A m \in n + 1 .. d : ~tree[First(ip, m)].has_data

OtherChild(ip, d) == Append(First(ip, d), 1 - ip[d + 1])

(* The node the loop ends with: where the other child exists the prefix     *)
(* does not match fully, and the last valid parent is taken instead.        *)
LookupDepth_noFallback(tree, ip) == Depth(tree, ip)                 \* mutant
LookupDepth(tree, ip) ==
    IF Depth(tree, ip) < Width /\ OtherChild(ip, Depth(tree, ip)) \in DOMAIN tree
    THEN ValidParent(tree, ip, Depth(tree, ip))
    ELSE Depth(tree, ip)

Lookup(tree, ip) == tree[First(ip, LookupDepth(tree, ip))]
-----------------------------------------------------------------------------
TableInit ==
    /\ bst = BST
    /\ table = [prefix \in {} |-> NewNode]

add_route(route_prefix, prefix_length, next_hop, interface_num) ==
    /\ bst' = Insert(bst, route_prefix, prefix_length, interface_num, next_hop)
    /\ table' = [prefix \in DOMAIN table \cup {First(route_prefix, prefix_length)} |->
                    IF prefix = First(route_prefix, prefix_length)
                    THEN [num |-> interface_num, hop |-> next_hop]
                    ELSE table[prefix]]

TableNext ==
    \E prefix \in Address, len \in 0 .. Width, hop \in Hop \cup {NoHop}, num \in Interface :
        add_route(prefix, len, hop, num)

TableSpec == TableInit /\ [][TableNext]_<<bst, table>>
-----------------------------------------------------------------------------
(* The lengths of the routes that match an address.                         *)
Matching(ip) == {n \in 0 .. Width : First(ip, n) \in DOMAIN table}

(* The walk down the trie, which falls back on the last route it passed     *)
(* only where the other child exists, ends at the route with the longest    *)
(* prefix that matches, whatever routes were added and in whatever order.   *)
LongestPrefixMatch ==
    \A ip \in Address : \A n \in Matching(ip) :
        (\A m \in Matching(ip) : m <= n)
            => /\ Lookup(bst, ip).num_interface = table[First(ip, n)].num
               /\ Lookup(bst, ip).data = table[First(ip, n)].hop

(* An address that no route matches is not dropped: the walk ends at a node *)
(* without a route, and the datagram is sent on interface 0 as if its       *)
(* destination were there.                                                  *)
UnroutedOnInterfaceZero ==
    \A ip \in Address : Matching(ip) = {} => Lookup(bst, ip) = NewNode
=============================================================================
