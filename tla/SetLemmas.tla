------------------------------ MODULE SetLemmas ------------------------------
(***************************************************************************)
(* Facts about sets of natural numbers that the other proofs rest on.      *)
(***************************************************************************)
EXTENDS Integers, FiniteSetsExt, FiniteSetTheorems, WellFoundedInduction, TLAPS

\* A set of numbers has a least element.
LEMMA LeastOfSet ==
  ASSUME NEW S \in SUBSET Nat, S # {}
  PROVE  \E m \in S : \A x \in S : m <= x
<1>1. PICK m \in S : \A y \in S : ~(<<y, m>> \in OpToRel(<, Nat))
  BY WFMin, NatLessThanWellFounded
<1>2. \A y \in S : ~(y < m)
  BY <1>1 DEF OpToRel
<1> QED BY <1>2

\* Induction for a set instead of a predicate: what holds for the members of
\* {n \in Nat : P(n)} is proved of every number by showing that this set is Nat.
LEMMA SetInduction ==
  ASSUME NEW S \in SUBSET Nat, 0 \in S, \A n \in S : n + 1 \in S
  PROVE  S = Nat
<1> SUFFICES ASSUME S # Nat PROVE FALSE
  OBVIOUS
<1>1. PICK m \in Nat \ S : \A x \in Nat \ S : m <= x
  BY LeastOfSet
<1>2. m # 0 /\ m - 1 \in Nat /\ m - 1 < m
  BY <1>1
<1>3. m - 1 \in S
  BY <1>1, <1>2
<1> QED BY <1>1, <1>2, <1>3

\* A bounded one has a greatest element, and Max is it.
LEMMA MaxOfBounded ==
  ASSUME NEW b \in Nat, NEW S \in SUBSET (0..b), S # {}
  PROVE  Max(S) \in S /\ \A x \in S : x <= Max(S)
<1> DEFINE T == {b - x : x \in S}
<1>1. T \in SUBSET Nat
  OBVIOUS
<1>2. T # {}
  OBVIOUS
<1> HIDE DEF T
<1>3. PICK m \in T : \A y \in T : m <= y
  BY <1>1, <1>2, LeastOfSet
<1>4. PICK x \in S : m = b - x
  BY <1>3 DEF T
<1>5. \A y \in S : b - y \in T
  BY DEF T
<1>6. \A y \in S : x >= y
  BY <1>3, <1>4, <1>5
<1> QED BY <1>6 DEF Max

\* Min is the least element.
LEMMA MinOfSet ==
  ASSUME NEW S \in SUBSET Nat, S # {}
  PROVE  Min(S) \in S /\ \A x \in S : Min(S) <= x
BY LeastOfSet DEF Min

\* How many numbers there are below one.
LEMMA CountBelow ==
  ASSUME NEW c \in Nat
  PROVE  IsFiniteSet(0..(c - 1)) /\ Cardinality(0..(c - 1)) = c
<1>1. 0 > c - 1 => c = 0
  OBVIOUS
<1>2. c - 1 \in Int /\ (c - 1) - 0 + 1 = c
  OBVIOUS
<1>3. IsFiniteSet(0..(c - 1)) /\ Cardinality(0..(c - 1)) = IF 0 > c - 1 THEN 0 ELSE (c - 1) - 0 + 1
  BY <1>2, FS_Interval
<1> QED BY <1>1, <1>2, <1>3

\* A number is four times one other plus three, at most.
LEMMA FourTimes ==
  ASSUME NEW n \in Nat, NEW k \in Nat, NEW m \in Nat, n = 4 * k + 3, n = 4 * m + 3
  PROVE  k = m
OBVIOUS

\* Max and Min of two numbers.
LEMMA MaxOfTwo ==
  ASSUME NEW a \in Nat, NEW b \in Nat
  PROVE  /\ Max({a, b}) = IF a >= b THEN a ELSE b
         /\ Max({a, b}) \in Nat
<1>1. CASE a >= b
  <2>1. Max({a, b}) = a BY <1>1 DEF Max
  <2> QED BY <1>1, <2>1
<1>2. CASE ~(a >= b)
  <2>1. Max({a, b}) = b BY <1>2 DEF Max
  <2> QED BY <1>2, <2>1
<1> QED BY <1>1, <1>2

\* The same for Min.
LEMMA MinOfTwo ==
  ASSUME NEW a \in Nat, NEW b \in Nat
  PROVE  /\ Min({a, b}) = IF a <= b THEN a ELSE b
         /\ Min({a, b}) \in Nat
<1>1. CASE a <= b
  <2>1. Min({a, b}) = a BY <1>1 DEF Min
  <2> QED BY <1>1, <2>1
<1>2. CASE ~(a <= b)
  <2>1. Min({a, b}) = b BY <1>2 DEF Min
  <2> QED BY <1>2, <2>1
<1> QED BY <1>1, <1>2

=============================================================================
