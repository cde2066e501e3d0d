----------------------------- MODULE BoundedSets -----------------------------
(***************************************************************************)
(* Max and Min are what they are called on bounded sets of integers.       *)
(***************************************************************************)
EXTENDS Integers, FiniteSetsExt, WellFoundedInduction, TLAPS

\* A nonempty set of natural numbers has a least element.
LEMMA LeastNatural ==
  ASSUME NEW T, T \subseteq Nat, T # {}
  PROVE  \E x \in T : \A y \in T : x <= y
<1>1. IsWellFoundedOn(OpToRel(<, Nat), Nat)
  BY NatLessThanWellFounded
<1>2. PICK x \in T : \A y \in T : <<y, x>> \notin OpToRel(<, Nat)
  BY <1>1, WFMin
<1>3. \A y \in T : ~(y < x)
  BY <1>2 DEF OpToRel
<1> QED BY <1>3

\* A set with an upper bound has a maximum.
LEMMA MaxIsLargest ==
  ASSUME NEW T, T \subseteq Int, T # {}, NEW b \in Int, \A x \in T : x <= b
  PROVE  Max(T) \in T /\ \A x \in T : x <= Max(T)
<1> DEFINE U == {b - x : x \in T}
<1>0. \A x \in T : x \in Int /\ b - x \in Nat
  OBVIOUS
<1>1. U \subseteq Nat /\ U # {}
  BY <1>0
<1>2. PICK u \in U : \A v \in U : u <= v
  BY <1>1, LeastNatural
<1>3. PICK m \in T : u = b - m
  BY <1>2
<1>4. \A x \in T : b - x \in U
  OBVIOUS
<1>5. \A x \in T : m >= x
  <2> SUFFICES ASSUME NEW x \in T PROVE m >= x
    OBVIOUS
  <2>1. b - m <= b - x
    BY <1>2, <1>3, <1>4
  <2> QED BY <1>0, <2>1
<1> QED BY <1>5 DEF Max

\* A set with a lower bound has a minimum.
LEMMA MinIsLeast ==
  ASSUME NEW T, T \subseteq Int, T # {}, NEW b \in Int, \A x \in T : b <= x
  PROVE  Min(T) \in T /\ \A x \in T : Min(T) <= x
<1> DEFINE U == {x - b : x \in T}
<1>0. \A x \in T : x \in Int /\ x - b \in Nat
  OBVIOUS
<1>1. U \subseteq Nat /\ U # {}
  BY <1>0
<1>2. PICK u \in U : \A v \in U : u <= v
  BY <1>1, LeastNatural
<1>3. PICK m \in T : u = m - b
  BY <1>2
<1>4. \A x \in T : x - b \in U
  OBVIOUS
<1>5. \A x \in T : m =< x
  <2> SUFFICES ASSUME NEW x \in T PROVE m =< x
    OBVIOUS
  <2>1. m - b <= x - b
    BY <1>2, <1>3, <1>4
  <2> QED BY <1>0, <2>1
<1> QED BY <1>5 DEF Min
=============================================================================
