------------------------------- MODULE Extrema ------------------------------
(***************************************************************************)
(* The least and the greatest element of sets of naturals: that Min and    *)
(* Max of the community modules denote them.                               *)
(***************************************************************************)
EXTENDS Naturals, FiniteSetsExt, WellFoundedInduction, TLAPS

\* A set of naturals that is not empty has a least element.
LEMMA LeastNatural ==
    ASSUME NEW S \in SUBSET Nat, S # {}
    PROVE  \E m \in S : \A n \in S : m <= n
<1>1. \E m \in S : \A n \in S : ~ (<<n, m>> \in OpToRel(<, Nat))
  BY WFMin, NatLessThanWellFounded
<1>2. \E m \in S : \A n \in S : ~ (n < m)
  BY <1>1, Zenon DEF OpToRel
<1> QED  BY <1>2

\* A bounded one has a greatest: what is left to the bound has a least.
LEMMA GreatestNatural ==
    ASSUME NEW S \in SUBSET Nat, S # {}, NEW b \in Nat, \A n \in S : n <= b
    PROVE  \E m \in S : \A n \in S : n <= m
<1> DEFINE T == {k \in Nat : \E n \in S : k + n = b}
<1>1. T # {}
  <2>1. PICK n \in S : TRUE
    OBVIOUS
  <2>2. b - n \in T
    OBVIOUS
  <2> QED  BY <2>2
<1>2. PICK m \in T : \A n \in T : m <= n
  <2> HIDE DEF T
  <2>1. T \in SUBSET Nat
    BY DEF T
  <2> QED  BY <1>1, <2>1, LeastNatural
<1>3. PICK k \in S : m + k = b
  OBVIOUS
<1>4. ASSUME NEW n \in S PROVE n <= k
  <2>1. b - n \in T
    OBVIOUS
  <2>2. m \in Nat /\ m <= b - n
    BY <2>1, <1>2
  <2>3. n \in Nat /\ k \in Nat
    OBVIOUS
  <2> QED  BY <2>2, <2>3, <1>3
<1> QED  BY <1>4

\* Min is the least element.
LEMMA MinIsLeast ==
    ASSUME NEW S \in SUBSET Nat, S # {}
    PROVE  Min(S) \in S /\ \A n \in S : Min(S) <= n
BY LeastNatural DEF Min

\* Max is the greatest element.
LEMMA MaxIsGreatest ==
    ASSUME NEW S \in SUBSET Nat, S # {}, NEW b \in Nat, \A n \in S : n <= b
    PROVE  Max(S) \in S /\ Max(S) <= b /\ \A n \in S : n <= Max(S)
<1>1. \E m \in S : \A n \in S : m >= n
  BY GreatestNatural
<1> QED  BY <1>1 DEF Max
=============================================================================
