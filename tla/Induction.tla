------------------------------ MODULE Induction ------------------------------
(***************************************************************************)
(* Induction over the natural numbers for a set of them, and what follows  *)
(* from it.  The theorems of NaturalsInduction take an operator as a       *)
(* parameter; here the provers only have to find a set.                    *)
(***************************************************************************)
EXTENDS Integers, FiniteSets, FiniteSetTheorems, TLAPS

\* Were n the missing number, k |-> k - 1 would map the missing numbers up to n
\* into one number fewer without two of them meeting.
LEMMA SetInduction ==
  ASSUME NEW S, 0 \in S, \A n \in Nat : n \in S => n + 1 \in S
  PROVE  Nat \subseteq S
  <1> SUFFICES ASSUME NEW n \in Nat, n \notin S PROVE FALSE
    OBVIOUS
  <1> DEFINE T == {k \in 0..n : k \notin S}
             U == T \ {n}
             f == [k \in T |-> k - 1]
  <1>1. \A k \in T : k - 1 \in U
    OBVIOUS
  <1>2. IsFiniteSet(T) /\ IsFiniteSet(U) /\ Cardinality(U) = Cardinality(T) - 1
    <2>1. IsFiniteSet(0..n)
      BY FS_Interval
    <2>2. IsFiniteSet(T)
      BY <2>1, FS_Subset
    <2>3. n \in T
      OBVIOUS
    <2> HIDE DEF T
    <2> QED BY <2>2, <2>3, FS_RemoveElement
  <1>3. f \in [T -> U]
    BY <1>1
  <1>4. Cardinality(U) < Cardinality(T)
    <2> HIDE DEF T, U
    <2> QED BY <1>2, FS_CardinalityType
  <1>5. \E x, y \in T : x # y /\ f[x] = f[y]
    <2> HIDE DEF T, U, f
    <2> QED BY <1>2, <1>3, <1>4, FS_PigeonHole
  <1> QED BY <1>5

\* What is bounded has a largest member.
LEMMA LargestExists ==
  ASSUME NEW n \in Nat, NEW S \in SUBSET (0..n), S # {}
  PROVE  \E x \in S : \A y \in S : y <= x
  <1> DEFINE V == {k \in Nat : (\E m \in S : m + k >= n) =>
                               \E x \in S : \A y \in S : y <= x}
  <1>1. 0 \in V
    OBVIOUS
  <1>2. ASSUME NEW k \in Nat, k \in V PROVE k + 1 \in V
    <2> SUFFICES ASSUME NEW m \in S, m + (k + 1) >= n
                 PROVE  \E x \in S : \A y \in S : y <= x
      OBVIOUS
    <2>1. CASE \E i \in S : i + k >= n
      BY <1>2, <2>1
    <2>2. CASE ~ \E i \in S : i + k >= n
      BY <2>2
    <2> QED BY <2>1, <2>2
  <1>3. Nat \subseteq V
    <2> HIDE DEF V
    <2> QED BY <1>1, <1>2, SetInduction
  <1>4. n \in V
    BY <1>3
  <1>5. PICK m \in S : TRUE
    OBVIOUS
  <1>6. m + n >= n
    OBVIOUS
  <1> QED BY <1>4, <1>6

\* What there is has a smallest member.
LEMMA SmallestExists ==
  ASSUME NEW n \in Nat, NEW S \in SUBSET (0..n), S # {}
  PROVE  \E x \in S : \A y \in S : x <= y
  <1> DEFINE T == {k \in 0..n : n - k \in S}
  <1>1. T \in SUBSET (0..n)
    OBVIOUS
  <1>2. T # {}
    <2>1. PICK m \in S : TRUE
      OBVIOUS
    <2>2. n - m \in T
      OBVIOUS
    <2> QED BY <2>2
  <1>3. PICK x \in T : \A y \in T : y <= x
    <2> HIDE DEF T
    <2> QED BY <1>1, <1>2, LargestExists
  <1>4. n - x \in S
    OBVIOUS
  <1>5. ASSUME NEW y \in S PROVE n - x <= y
    <2>1. n - y \in T
      OBVIOUS
    <2>2. n - y <= x
      BY <2>1, <1>3
    <2> QED BY <2>2
  <1> QED BY <1>4, <1>5
=============================================================================
