----------------------------- MODULE NaturalSets -----------------------------
(***************************************************************************)
(* Least and greatest elements of sets of natural numbers, from their      *)
(* well-foundedness.  The proofs use them where a loop of the code stops   *)
(* at the first, or last, position with some property.                     *)
(***************************************************************************)
EXTENDS Naturals, WellFoundedInduction, TLAPS

(* The order of the natural numbers, as a set of pairs.                    *)
Less == {pair \in Nat \X Nat : pair[1] < pair[2]}

(* A non-empty set of natural numbers has a least element.                 *)
LEMMA LeastElement ==
    ASSUME NEW T, T \subseteq Nat, T # {}
    PROVE  \E x \in T : \A y \in T : x <= y
<1>1. IsWellFoundedOn(Less, Nat)
  BY NatLessThanWellFounded DEF OpToRel, Less
<1>2. PICK x \in T : \A y \in T : ~(<<y, x>> \in Less)
  BY <1>1, WFMin, Zenon
<1>3. ASSUME NEW y \in T PROVE x <= y
  <2>1. ~(<<y, x>> \in Less)
    BY <1>2
  <2>2. x \in Nat /\ y \in Nat
    OBVIOUS
  <2> QED BY <2>1, <2>2 DEF Less
<1> QED BY <1>3

(* A non-empty set of natural numbers with a bound has a greatest element. *)
LEMMA GreatestElement ==
    ASSUME NEW w \in Nat, NEW T, T \subseteq 0 .. w, T # {}
    PROVE  \E x \in T : \A y \in T : y <= x
<1> DEFINE U == {w - y : y \in T}
<1>1. U \subseteq Nat /\ U # {}
  <2>1. ASSUME NEW u \in U PROVE u \in Nat
    <3>1. PICK y \in T : u = w - y
      OBVIOUS
    <3>2. y \in 0 .. w
      OBVIOUS
    <3> QED BY <3>1, <3>2
  <2>2. PICK y : y \in T
    OBVIOUS
  <2>3. w - y \in U
    BY <2>2
  <2> QED BY <2>1, <2>3
<1>2. PICK u \in U : \A v \in U : u <= v
  BY <1>1, LeastElement, Zenon
<1>3. PICK x \in T : u = w - x
  BY <1>2
<1>4. ASSUME NEW y \in T PROVE y <= x
  <2>1. w - y \in U
    OBVIOUS
  <2>2. u <= w - y
    BY <1>2, <2>1
  <2> QED BY <1>3, <2>2
<1> QED BY <1>4
=============================================================================
