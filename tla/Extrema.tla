------------------------------- MODULE Extrema -------------------------------
(***************************************************************************)
(* Least and greatest elements of sets of numbers, and induction over an   *)
(* interval: lemmas that the proofs about the models share.                *)
(***************************************************************************)
EXTENDS Integers, TLAPS, WellFoundedInduction

\* A set of natural numbers that is not empty has a least element.
LEMMA MinExists ==
  ASSUME NEW S \in SUBSET Nat, S # {}
  PROVE  \E x \in S : \A y \in S : x <= y
<1>1. PICK x \in S : \A y \in S : ~(<<y, x>> \in OpToRel(<, Nat))
  BY WFMin, NatLessThanWellFounded, Zenon
<1>2. ASSUME NEW y \in S PROVE x <= y
  <2>1. <<y, x>> \notin OpToRel(<, Nat)
    BY <1>1, Zenon
  <2>2. <<y, x>> \in Nat \X Nat
    BY Zenon
  <2>3. ~(y < x)
    BY <2>1, <2>2 DEF OpToRel
  <2> QED BY <2>3
<1> QED BY <1>2, Zenon

\* A set of numbers up to N that is not empty has a greatest element.
LEMMA MaxExists ==
  ASSUME NEW N \in Nat, NEW S \in SUBSET (1..N), S # {}
  PROVE  \E x \in S : \A y \in S : y <= x
<1> DEFINE T == {N - y : y \in S}
<1>1. T \in SUBSET Nat
  <2>1. ASSUME NEW y \in S PROVE N - y \in Nat
    OBVIOUS
  <2> QED BY <2>1
<1>2. T # {}
  OBVIOUS
<1>3. PICK t \in T : \A u \in T : t <= u
  BY <1>1, <1>2, MinExists, Zenon
<1>4. PICK x \in S : t = N - x
  OBVIOUS
<1>5. ASSUME NEW y \in S PROVE y <= x
  <2>1. N - y \in T
    OBVIOUS
  <2>2. t <= N - y
    BY <2>1, <1>3, Zenon
  <2> QED BY <1>4, <2>2
<1> QED BY <1>5

\* What holds at a, and at i + 1 where it holds at i, holds from a to n.
LEMMA IntervalInduction ==
  ASSUME NEW a \in Nat, NEW n \in Nat, NEW S, a \in S,
         \A i \in a..n : i # n /\ i \in S => i + 1 \in S
  PROVE  \A i \in a..n : i \in S
<1> DEFINE Bad == {i \in a..n : i \notin S}
<1>1. SUFFICES ASSUME Bad # {} PROVE FALSE
  OBVIOUS
<1>2. PICK k \in Bad : \A i \in Bad : k <= i
  <2>1. Bad \in SUBSET Nat
    OBVIOUS
  <2> HIDE DEF Bad
  <2> QED BY <1>1, <2>1, MinExists
<1>3. k \in a..n /\ k \notin S /\ k # a
  BY <1>2
<1>4. k - 1 \in a..n /\ k - 1 # n /\ k - 1 \in S /\ k - 1 + 1 = k
  BY <1>2, <1>3
<1> QED BY <1>3, <1>4
==============================================================================
