------------------------------- MODULE Counting -------------------------------
(***************************************************************************)
(* Sets of natural numbers: their least and greatest elements, and the     *)
(* place of a number in the order of a set.  What the provers cannot do by *)
(* induction is done here by the least counterexample.                     *)
(***************************************************************************)
EXTENDS Integers, FiniteSets, FiniteSetTheorems, WellFoundedInduction, TLAPS

(* A set of naturals that is not empty has a least element.                *)
LEMMA Least ==
  ASSUME NEW S \in SUBSET Nat, S # {}
  PROVE  \E n \in S : \A m \in S : n <= m
<1> DEFINE R == OpToRel(<, Nat)
<1>1. IsWellFoundedOn(R, Nat)
  BY NatLessThanWellFounded
<1>2. \A x, y \in Nat : x < y => <<x, y>> \in R
  BY DEF OpToRel
<1> HIDE DEF R
<1>3. PICK n \in S : \A m \in S : ~(<<m, n>> \in R)
  BY <1>1, WFMin
<1>4. \A m \in S : n <= m
  <2> SUFFICES ASSUME NEW m \in S PROVE n <= m
    OBVIOUS
  <2>1. m \in Nat /\ n \in Nat /\ ~(m < n)
    BY <1>2, <1>3
  <2> QED BY <2>1
<1> QED BY <1>4

(* And, if it is bounded, a greatest one.                                  *)
LEMMA Greatest ==
  ASSUME NEW S \in SUBSET Nat, S # {}, NEW b \in Nat, \A n \in S : n <= b
  PROVE  \E n \in S : \A m \in S : m <= n
<1> DEFINE D == {b - n : n \in S}
<1>1. D \subseteq Nat
  <2>1. \A n \in S : b - n \in Nat
    OBVIOUS
  <2> QED BY <2>1
<1>2. PICK d \in D : \A e \in D : d <= e
  <2>1. D # {}
    OBVIOUS
  <2> HIDE DEF D
  <2> QED BY <1>1, <2>1, Least
<1>3. PICK n \in S : d = b - n
  OBVIOUS
<1>4. \A m \in S : m <= n
  <2> SUFFICES ASSUME NEW m \in S PROVE m <= n
    OBVIOUS
  <2>1. b - n <= b - m
    BY <1>2, <1>3
  <2> QED BY <2>1
<1> QED BY <1>4

-------------------------------------------------------------------------------
(* The rank of a number in a set is the number of elements below it.       *)

Below(S, v) == {w \in S : w < v}

Rank(S, v) == Cardinality(Below(S, v))

LEMMA RankType ==
  ASSUME NEW S \in SUBSET Nat, NEW v \in Nat
  PROVE  IsFiniteSet(Below(S, v)) /\ Rank(S, v) \in Nat
<1>1. Below(S, v) \in SUBSET Nat
  BY DEF Below
<1>2. \A w \in Below(S, v) : w <= v
  BY DEF Below
<1>3. IsFiniteSet(Below(S, v))
  BY <1>1, <1>2, FS_BoundedSetOfNaturals
<1> QED BY <1>3, FS_CardinalityType DEF Rank

(* An element and those below it.                                          *)
LEMMA RankClosed ==
  ASSUME NEW S \in SUBSET Nat, NEW v \in S
  PROVE  /\ IsFiniteSet({w \in S : w <= v})
         /\ Cardinality({w \in S : w <= v}) = Rank(S, v) + 1
<1>1. ASSUME NEW w
      PROVE  w \in {x \in S : x <= v} <=> w \in Below(S, v) \cup {v}
  <2>1. w \in S => w \in Nat /\ v \in Nat
    OBVIOUS
  <2> QED BY <2>1 DEF Below
<1>2. {w \in S : w <= v} = Below(S, v) \cup {v}
  BY <1>1
<1>3. v \notin Below(S, v)
  BY DEF Below
<1>4. IsFiniteSet(Below(S, v))
  BY RankType
<1> QED BY <1>2, <1>3, <1>4, FS_AddElement DEF Rank

LEMMA RankGrows ==
  ASSUME NEW S \in SUBSET Nat, NEW u \in S, NEW v \in S, u < v
  PROVE  Rank(S, u) + 1 <= Rank(S, v)
<1>1. {w \in S : w <= u} \in SUBSET Below(S, v)
  <2> SUFFICES ASSUME NEW w \in S, w <= u PROVE w \in Below(S, v)
    OBVIOUS
  <2>1. w \in Nat /\ u \in Nat /\ v \in Nat
    OBVIOUS
  <2> QED BY <2>1 DEF Below
<1>2. IsFiniteSet(Below(S, v))
  BY RankType
<1>3. Cardinality({w \in S : w <= u}) <= Cardinality(Below(S, v))
  BY <1>1, <1>2, FS_Subset
<1> QED BY <1>3, RankClosed DEF Rank

(* The element before one that is not the first.                           *)
LEMMA RankBefore ==
  ASSUME NEW S \in SUBSET Nat, NEW v \in S, Rank(S, v) > 0
  PROVE  \E u \in S : u < v /\ Rank(S, u) + 1 = Rank(S, v)
<1>1. Below(S, v) # {}
  BY FS_EmptySet DEF Rank
<1>2. Below(S, v) \in SUBSET Nat
  BY DEF Below
<1>3. \A w \in Below(S, v) : w <= v
  BY DEF Below
<1>4. PICK u \in Below(S, v) : \A w \in Below(S, v) : w <= u
  BY <1>1, <1>2, <1>3, Greatest
<1>5. u \in S /\ u < v
  BY DEF Below
<1>6. ASSUME NEW w
      PROVE  w \in {x \in S : x <= u} <=> w \in Below(S, v)
  <2>1. w \in S => w \in Nat /\ u \in Nat /\ v \in Nat
    BY <1>5
  <2> QED BY <1>4, <1>5, <2>1 DEF Below
<1>7. {w \in S : w <= u} = Below(S, v)
  BY <1>6
<1> QED BY <1>5, <1>7, RankClosed DEF Rank

(* A set in which no element is the k-th has fewer than k elements.        *)
LEMMA FewerThan ==
  ASSUME NEW S \in SUBSET Nat, NEW k \in Nat \ {0},
         \A v \in S : Rank(S, v) + 1 # k
  PROVE  IsFiniteSet(S) /\ Cardinality(S) < k
<1>1. \A v \in S : Rank(S, v) + 1 < k
  <2> DEFINE T == {v \in S : ~(Rank(S, v) + 1 < k)}
  <2> SUFFICES ASSUME T # {} PROVE FALSE
    OBVIOUS
  <2>1. T \subseteq Nat
    OBVIOUS
  <2>2. PICK v \in T : \A u \in T : v <= u
    <3> HIDE DEF T
    <3> QED BY <2>1, Least
  <2>3. v \in S /\ v \in Nat /\ ~(Rank(S, v) + 1 < k)
    OBVIOUS
  <2>4. Rank(S, v) \in Nat
    BY <2>3, RankType
  <2>5. Rank(S, v) + 1 > k
    BY <2>3, <2>4
  <2>6. Rank(S, v) > 0
    BY <2>4, <2>5
  <2>7. PICK u \in S : u < v /\ Rank(S, u) + 1 = Rank(S, v)
    BY <2>3, <2>6, RankBefore
  <2>8. u \in Nat /\ u \notin T
    BY <2>2, <2>3, <2>7
  <2>9. Rank(S, u) \in Nat
    BY <2>8, RankType
  <2> QED BY <2>4, <2>5, <2>7, <2>8, <2>9
<1>2. CASE S = {}
  BY <1>2, FS_EmptySet
<1>3. CASE S # {}
  <2> DEFINE Ranks == {Rank(S, v) : v \in S}
  <2> \A v \in S : v \in Nat /\ Rank(S, v) \in Nat
    BY RankType
  <2>1. Ranks \in SUBSET Nat /\ Ranks # {}
    BY <1>3
  <2>2. \A r \in Ranks : r <= k
    <3>1. \A v \in S : Rank(S, v) <= k
      BY <1>1
    <3> QED BY <3>1
  <2>3. PICK r \in Ranks : \A q \in Ranks : q <= r
    <3> HIDE DEF Ranks
    <3> QED BY <2>1, <2>2, Greatest
  <2>4. PICK v \in S : r = Rank(S, v)
    BY <2>3
  <2>5. \A w \in S : w <= v
    <3> SUFFICES ASSUME NEW w \in S, v < w PROVE FALSE
      OBVIOUS
    <3>1. Rank(S, v) + 1 <= Rank(S, w)
      BY RankGrows
    <3>2. Rank(S, w) <= Rank(S, v)
      BY <2>3, <2>4
    <3>3. Rank(S, v) \in Nat /\ Rank(S, w) \in Nat
      OBVIOUS
    <3> QED BY <3>1, <3>2, <3>3
  <2>6. S = {w \in S : w <= v}
    BY <2>5
  <2> QED BY <1>1, <2>6, RankClosed
<1> QED BY <1>2, <1>3
===============================================================================
