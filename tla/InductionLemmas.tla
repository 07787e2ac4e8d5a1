---------------------------- MODULE InductionLemmas ----------------------------
(***************************************************************************)
(* Induction over the natural numbers in a form the provers can use: about *)
(* a set of numbers instead of a predicate.  Strict inclusion of finite    *)
(* sets is well founded, and 0..x \subseteq 0..y is x <= y.                *)
(***************************************************************************)
EXTENDS Integers, FiniteSets, FiniteSetTheorems, WellFoundedInduction, TLAPS

\* Every set of numbers that is not empty has a least element; the loops of
\* the program that stop at the first of something are CHOOSEs of one.
LEMMA LeastNatural ==
    ASSUME NEW T \in SUBSET Nat, T # {}
    PROVE  \E x \in T : \A y \in T : x <= y
  <1> DEFINE Segments == {0..x : x \in T}
  <1>1. IsWellFoundedOn(StrictSubsetOrdering(Nat), FiniteSubsetsOf(Nat))
    BY FS_StrictSubsetOrderingWellFounded
  <1>2. Segments \subseteq FiniteSubsetsOf(Nat) /\ Segments # {}
    <2>1. \A x \in T : IsFiniteSet(0..x) /\ 0..x \subseteq Nat
      BY FS_Interval
    <2> QED BY <2>1 DEF FiniteSubsetsOf
  <1>3. PICK s \in Segments : \A r \in Segments : <<r, s>> \notin StrictSubsetOrdering(Nat)
    <2> HIDE DEF Segments
    <2> QED BY <1>1, <1>2, WFMin
  <1>4. PICK x \in T : s = 0..x
    OBVIOUS
  <1>5. ASSUME NEW y \in T, y < x PROVE FALSE
    <2>1. 0..y \subseteq 0..x /\ x \in 0..x /\ x \notin 0..y /\ 0..x \subseteq Nat
      BY <1>5
    <2>2. <<0..y, 0..x>> \in StrictSubsetOrdering(Nat)
      BY <2>1 DEF StrictSubsetOrdering
    <2> QED BY <1>3, <1>4, <2>2
  <1> QED BY <1>5

\* A set that holds 0 and, with a number, the next one holds every number.
LEMMA SetInduction ==
    ASSUME NEW S, 0 \in S, \A i \in Nat : i \in S => i + 1 \in S
    PROVE  Nat \subseteq S
  <1> DEFINE T == {i \in Nat : i \notin S}
  <1>1. ASSUME T # {} PROVE FALSE
    <2>1. PICK x \in T : \A y \in T : x <= y
      BY <1>1, LeastNatural
    <2>2. x # 0 /\ x - 1 \in Nat /\ x - 1 \notin T
      BY <2>1
    <2> QED BY <2>1, <2>2
  <1> QED BY <1>1

\* f has the value a at 0 and goes from each value to the next one by h.
Iterates(f, X, a, h) ==
    f \in [Nat -> X] /\ f[0] = a /\ \A n \in Nat : f[n + 1] = h[f[n]]

\* A function on the numbers may be given by its value at 0 and a step.
LEMMA Iteration ==
    ASSUME NEW X, NEW a \in X, NEW h \in [X -> X]
    PROVE  \E f : Iterates(f, X, a, h)
  <1> DEFINE Upto(n) == {g \in [0..n -> X] : g[0] = a /\ \A i \in 0..n : i < n => g[i + 1] = h[g[i]]}
             S == {n \in Nat : Upto(n) # {}}
  <1>1. 0 \in S
    <2>1. [i \in 0..0 |-> a] \in Upto(0)
      OBVIOUS
    <2> QED BY <2>1
  <1>2. ASSUME NEW n \in Nat, n \in S PROVE n + 1 \in S
    <2>1. PICK g \in [0..n -> X] : g[0] = a /\ \A i \in 0..n : i < n => g[i + 1] = h[g[i]]
      BY <1>2
    <2> DEFINE longer == [i \in 0..n + 1 |-> IF i <= n THEN g[i] ELSE h[g[n]]]
    <2>2. longer \in [0..n + 1 -> X]
      OBVIOUS
    <2>3. longer[0] = a
      BY <2>1
    <2>4. ASSUME NEW i \in 0..n + 1, i < n + 1 PROVE longer[i + 1] = h[longer[i]]
      <3>1. CASE i < n
        BY <2>1, <3>1
      <3>2. CASE i = n
        BY <3>2
      <3> QED BY <2>4, <3>1, <3>2
    <2> HIDE DEF longer
    <2>5. longer \in Upto(n + 1)
      BY <2>2, <2>3, <2>4
    <2> QED BY <2>5
  <1>3. Nat \subseteq S
    <2> HIDE DEF S
    <2> QED BY <1>1, <1>2, SetInduction
  <1>4. ASSUME NEW n \in Nat, NEW g \in Upto(n), NEW m \in Nat, n <= m, NEW k \in Upto(m)
        PROVE  g[n] = k[n]
    <2> DEFINE A == {i \in Nat : i <= n => g[i] = k[i]}
    <2>1. 0 \in A
      OBVIOUS
    <2>2. ASSUME NEW i \in Nat, i \in A PROVE i + 1 \in A
      <3> SUFFICES ASSUME i + 1 <= n PROVE g[i + 1] = k[i + 1]
        OBVIOUS
      <3>1. i \in 0..n /\ i \in 0..m /\ i < n /\ i < m /\ g[i] = k[i]
        BY <1>4, <2>2
      <3> QED BY <3>1
    <2>3. n \in A
      <3> HIDE DEF A
      <3>1. Nat \subseteq A
        BY <2>1, <2>2, SetInduction
      <3> QED BY <3>1
    <2> QED BY <2>3
  <1> DEFINE G(n) == CHOOSE g : g \in Upto(n)
             f == [n \in Nat |-> G(n)[n]]
  <1>5. ASSUME NEW n \in Nat PROVE G(n) \in Upto(n)
    <2>1. \E g : g \in Upto(n)
      BY <1>3
    <2> HIDE DEF Upto
    <2> QED BY <2>1
  <1>6. f \in [Nat -> X]
    <2>1. ASSUME NEW n \in Nat PROVE G(n)[n] \in X
      <3>1. G(n) \in [0..n -> X]
        BY <1>5
      <3> HIDE DEF G
      <3> QED BY <3>1
    <2> HIDE DEF G
    <2> QED BY <2>1
  <1>7. f[0] = a
    <2>1. G(0)[0] = a
      BY <1>5
    <2> HIDE DEF G
    <2> QED BY <2>1
  <1>8. ASSUME NEW n \in Nat PROVE f[n + 1] = h[f[n]]
    <2>0. n + 1 \in Nat
      OBVIOUS
    <2> HIDE DEF G
    <2>1. G(n) \in Upto(n) /\ G(n + 1) \in Upto(n + 1)
      <3> HIDE DEF Upto
      <3> QED BY <1>5, <2>0
    <2>2. G(n)[n] = G(n + 1)[n]
      <3>1. n <= n + 1 /\ n + 1 \in Nat
        OBVIOUS
      <3> HIDE DEF Upto
      <3> QED BY <1>4, <2>1, <3>1
    <2>3. G(n + 1)[n + 1] = h[G(n + 1)[n]]
      BY <2>1
    <2>4. f[n + 1] = G(n + 1)[n + 1] /\ f[n] = G(n)[n]
      OBVIOUS
    <2> QED BY <2>2, <2>3, <2>4
  <1> HIDE DEF f
  <1> QED BY <1>6, <1>7, <1>8 DEF Iterates

=============================================================================
