----------------------------- MODULE FirstLast -----------------------------
(***************************************************************************)
(* A set of natural numbers below a bound that is not empty has a first    *)
(* and a last element: std::map iterates its keys in order, and the kernel *)
(* hands out the lowest free descriptor.                                   *)
(***************************************************************************)
EXTENDS Naturals, FiniteSetTheorems, TLAPS

(* The last one: of the sets of all that come after an element of S, the   *)
(* smallest is that of the last element.                                   *)
LEMMA LastExists ==
  ASSUME NEW n \in Nat, NEW S \in SUBSET (0 .. n), S # {}
  PROVE  \E i \in S : \A j \in S : j <= i
<1> DEFINE T == {i .. n : i \in S}
<1>1. IsWellFoundedOn(StrictSubsetOrdering(0 .. n), FiniteSubsetsOf(0 .. n))
  BY FS_StrictSubsetOrderingWellFounded
<1>2. T \subseteq FiniteSubsetsOf(0 .. n) /\ T # {}
  <2>1. ASSUME NEW i \in S PROVE IsFiniteSet(i .. n) /\ i .. n \subseteq 0 .. n
    BY FS_Interval
  <2>2. QED
    BY <2>1 DEF FiniteSubsetsOf
<1>3. \E x \in T : \A y \in T : <<y, x>> \notin StrictSubsetOrdering(0 .. n)
  <2> HIDE DEF T
  <2>1. QED
    BY <1>1, <1>2, WFMin
<1>4. PICK i \in S : \A j \in S : <<j .. n, i .. n>> \notin StrictSubsetOrdering(0 .. n)
  BY <1>3
<1>5. ASSUME NEW j \in S, ~(j <= i) PROVE FALSE
  <2>1. i \in i .. n /\ i \notin j .. n /\ j .. n \subseteq i .. n /\ i .. n \subseteq 0 .. n
    BY <1>5
  <2>2. <<j .. n, i .. n>> \in StrictSubsetOrdering(0 .. n)
    BY <2>1 DEF StrictSubsetOrdering
  <2>3. QED
    BY <1>4, <2>2
<1>6. QED
  BY <1>5

(* The first one: the last one, counted from the bound down.               *)
LEMMA FirstExists ==
  ASSUME NEW n \in Nat, NEW S \in SUBSET (0 .. n), S # {}
  PROVE  \E i \in S : \A j \in S : i <= j
<1> DEFINE T == {n - i : i \in S}
<1>1. T \in SUBSET (0 .. n) /\ T # {}
  <2>1. \A i \in S : n - i \in 0 .. n
    OBVIOUS
  <2>2. QED
    BY <2>1
<1>2. PICK u \in T : \A v \in T : v <= u
  <2> HIDE DEF T
  <2>1. QED
    BY <1>1, LastExists
<1>3. PICK i \in S : u = n - i
  BY <1>2
<1>4. ASSUME NEW j \in S PROVE i <= j
  <2>1. n - j <= n - i
    BY <1>2, <1>3
  <2>2. QED
    BY <2>1
<1>5. QED
  BY <1>4
=============================================================================
