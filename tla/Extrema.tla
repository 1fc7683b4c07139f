------------------------------ MODULE Extrema ------------------------------
(***************************************************************************)
(* The least and the greatest element of a set of naturals, which the      *)
(* models take with Min and Max (a free slot, the next id of a table).     *)
(* Induction is replaced by the least counterexample.                      *)
(***************************************************************************)
EXTENDS Integers, FiniteSetsExt, FiniteSetTheorems, WellFoundedInduction, TLAPS

LEMMA LeastNatural ==
  ASSUME NEW S \in SUBSET Nat, S # {}
  PROVE  \E x \in S : \A y \in S : x <= y
  <1> DEFINE R == {ss \in Nat \X Nat : ss[1] < ss[2]}
  <1>1. IsWellFoundedOn(R, Nat)
    BY NatLessThanWellFounded DEF OpToRel
  <1>2. PICK x \in S : \A y \in S : ~(<<y, x>> \in R)
    <2> HIDE DEF R
    <2> QED BY <1>1, WFMin
  <1>3. ASSUME NEW y \in S PROVE x <= y
    <2>1. x \in Nat /\ y \in Nat /\ <<y, x>> \in Nat \X Nat
      OBVIOUS
    <2>2. y < x => <<y, x>> \in R
      BY <2>1
    <2>3. ~(y < x)
      <3> HIDE DEF R
      <3> QED BY <1>2, <2>2
    <2> QED BY <2>1, <2>3
  <1> QED BY <1>3

(* Min(S) is in S and below all of S.                                      *)
LEMMA MinIsLeast ==
  ASSUME NEW S \in SUBSET Nat, S # {}
  PROVE  Min(S) \in S /\ \A y \in S : Min(S) <= y
  BY LeastNatural DEF Min

LEMMA GreatestOfFinite ==
  ASSUME NEW S \in SUBSET Nat, IsFiniteSet(S), S # {}
  PROVE  \E x \in S : \A y \in S : x >= y
  <1> DEFINE n == Cardinality(S)
  <1>1. n \in Nat /\ n # 0
    BY FS_CardinalityType, FS_EmptySet
  <1>2. PICK f : f \in [1 .. n -> S] /\ \A y \in S : \E i \in 1 .. n : f[i] = y
    BY FS_CardinalityType DEF ExistsBijection, Bijection, Surjection
  <1> DEFINE Has(k) == \E m \in 1 .. k : \A i \in 1 .. k : f[m] >= f[i]
             Bad == {k \in 1 .. n : ~Has(k)}
  <1>3. \A i \in 1 .. n : f[i] \in Nat
    BY <1>2
  <1>4. Has(1)
    <2>1. 1 \in 1 .. 1 /\ \A i \in 1 .. 1 : i = 1
      OBVIOUS
    <2>2. f[1] >= f[1]
      BY <1>1, <1>3
    <2> QED BY <2>1, <2>2
  <1>5. ASSUME NEW k \in 1 .. n, k # 1, Has(k - 1) PROVE Has(k)
    <2>1. k \in Nat /\ k - 1 \in 1 .. n /\ 1 .. k = 1 .. k - 1 \cup {k} /\ 1 .. k \subseteq 1 .. n
      BY <1>1, <1>5
    <2>2. PICK m \in 1 .. k - 1 : \A i \in 1 .. k - 1 : f[m] >= f[i]
      BY <1>5
    <2>3. f[m] \in Nat /\ f[k] \in Nat /\ m \in 1 .. k /\ k \in 1 .. k
      BY <1>3, <2>1
    <2>4. CASE f[m] >= f[k]
      <3>1. \A i \in 1 .. k : f[m] >= f[i]
        BY <2>1, <2>2, <2>4
      <3> QED BY <2>3, <3>1
    <2>5. CASE f[k] >= f[m]
      <3>1. \A i \in 1 .. k : f[k] >= f[i]
        BY <1>3, <2>1, <2>2, <2>3, <2>5
      <3> QED BY <2>3, <3>1
    <2> QED BY <2>3, <2>4, <2>5
  <1>6. Bad = {}
    <2> HIDE DEF Has
    <2> SUFFICES ASSUME Bad # {} PROVE FALSE
      OBVIOUS
    <2>1. PICK k \in Bad : \A j \in Bad : k <= j
      <3>1. Bad \in SUBSET Nat
        BY <1>1
      <3> QED BY <3>1, LeastNatural
    <2>2. k \in 1 .. n /\ ~Has(k)
      OBVIOUS
    <2>3. k # 1
      BY <1>4, <2>2
    <2>4. k - 1 \in 1 .. n /\ ~(k <= k - 1)
      BY <1>1, <2>2, <2>3
    <2>5. Has(k - 1)
      BY <2>1, <2>4
    <2> QED BY <1>5, <2>2, <2>3, <2>5
  <1>7. Has(n)
    <2>1. n \in 1 .. n
      BY <1>1
    <2> QED BY <1>6, <2>1
  <1>8. PICK m \in 1 .. n : \A i \in 1 .. n : f[m] >= f[i]
    BY <1>7
  <1> QED BY <1>2, <1>8

(* Max(S) is in S and above all of S.                                      *)
LEMMA MaxIsGreatest ==
  ASSUME NEW S \in SUBSET Nat, IsFiniteSet(S), S # {}
  PROVE  Max(S) \in S /\ \A y \in S : Max(S) >= y
  BY GreatestOfFinite DEF Max

(* The two-element case, which needs no induction.                         *)
LEMMA MinOfTwo ==
  ASSUME NEW a \in Int, NEW b \in Int
  PROVE  Min({a, b}) = IF a <= b THEN a ELSE b
  <1>1. \E x \in {a, b} : \A y \in {a, b} : x <= y
    <2>1. CASE a <= b
      BY <2>1
    <2>2. CASE b <= a
      BY <2>2
    <2> QED BY <2>1, <2>2
  <1>2. Min({a, b}) \in {a, b} /\ \A y \in {a, b} : Min({a, b}) <= y
    BY <1>1 DEF Min
  <1> QED BY <1>2

LEMMA MaxOfTwo ==
  ASSUME NEW a \in Int, NEW b \in Int
  PROVE  Max({a, b}) = IF a >= b THEN a ELSE b
  <1>1. \E x \in {a, b} : \A y \in {a, b} : x >= y
    <2>1. CASE a >= b
      BY <2>1
    <2>2. CASE b >= a
      BY <2>2
    <2> QED BY <2>1, <2>2
  <1>2. Max({a, b}) \in {a, b} /\ \A y \in {a, b} : Max({a, b}) >= y
    BY <1>1 DEF Max
  <1> QED BY <1>2
=============================================================================
