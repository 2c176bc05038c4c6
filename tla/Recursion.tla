------------------------------ MODULE Recursion ------------------------------
(***************************************************************************)
(* What the proofs about the models' recursive functions rest on:          *)
(* induction over the numbers with a set for the predicate, least numbers, *)
(* and the existence of a function that each value gives the next of.      *)
(***************************************************************************)
EXTENDS Integers, WellFoundedInduction, TLAPS

\* A set of numbers that is not empty has a least one.
LEMMA LeastNumber ==
  ASSUME NEW S, S \subseteq Nat, S # {}
  PROVE  \E n \in S : \A m \in S : n <= m
<1> DEFINE Less == {ss \in Nat \X Nat : ss[1] < ss[2]}
<1>1. IsWellFoundedOn(Less, Nat)
  BY NatLessThanWellFounded DEF OpToRel
<1>2. PICK n \in S : \A m \in S : <<m, n>> \notin Less
  <2> HIDE DEF Less
  <2> QED
    BY <1>1, WFMin
<1>3. \A m \in S : ~(m < n)
  BY <1>2
<1> QED
  BY <1>3

\* A set of numbers that is not empty and bounded has a greatest one.
LEMMA GreatestNumber ==
  ASSUME NEW b \in Nat, NEW S, S \subseteq 0..b, S # {}
  PROVE  \E n \in S : \A m \in S : n >= m
<1> DEFINE T == {b - m : m \in S}
<1>1. T \subseteq Nat /\ T # {}
  <2>1. \A m \in S : b - m \in Nat
    OBVIOUS
  <2> QED
    BY <2>1
<1>2. PICK k \in T : \A l \in T : k <= l
  <2> HIDE DEF T
  <2> QED
    BY <1>1, LeastNumber
<1>3. PICK n \in S : k = b - n
  OBVIOUS
<1>4. \A m \in S : b - n <= b - m
  BY <1>2, <1>3
<1>5. \A m \in S : n >= m
  BY <1>4
<1> QED
  BY <1>5

\* Induction: the least number outside the set would have a predecessor in it.
LEMMA SetInduction ==
  ASSUME NEW S, 0 \in S, \A n \in Nat : n \in S => n + 1 \in S
  PROVE  Nat \subseteq S
<1> SUFFICES ASSUME Nat \ S # {} PROVE FALSE
  OBVIOUS
<1>1. PICK x \in Nat \ S : \A y \in Nat \ S : x <= y
  BY LeastNumber
<1>2. x - 1 \in Nat /\ x - 1 + 1 = x
  BY <1>1
<1>3. x - 1 \in S
  BY <1>1, <1>2
<1> QED
  BY <1>1, <1>2, <1>3

\* N steps, each of which makes a value of a value, and the values they make of the first.
StepsOn(V, N) == [1..N -> [V -> V]]
Unfolds(f, V, base, N, Next) ==
  f \in [0..N -> V] /\ f[0] = base /\ \A n \in 1..N : f[n] = Next[n][f[n - 1]]

\* A function on 0..N is determined by its first value and by what makes of a value the next.
LEMMA RecursiveFunction ==
  ASSUME NEW V, NEW base \in V, NEW N \in Nat, NEW Next \in StepsOn(V, N)
  PROVE  \E f : Unfolds(f, V, base, N, Next)
<1>0. Next \in [1..N -> [V -> V]]
  BY DEF StepsOn
<1> DEFINE Made(f, n) == f \in [0..n -> V] /\ f[0] = base /\ \A i \in 1..n : f[i] = Next[i][f[i - 1]]
           S == {n \in Nat : n <= N => \E f : Made(f, n)}
<1>1. 0 \in S
  <2>1. Made([i \in 0..0 |-> base], 0)
    OBVIOUS
  <2> QED
    BY <2>1
<1>2. ASSUME NEW n \in Nat, n \in S PROVE n + 1 \in S
  <2> SUFFICES ASSUME n + 1 <= N PROVE \E g : Made(g, n + 1)
    OBVIOUS
  <2>1. PICK f : Made(f, n)
    BY <1>2
  <2> DEFINE g == [i \in 0..(n + 1) |-> IF i = n + 1 THEN Next[n + 1][f[n]] ELSE f[i]]
  <2>2. g \in [0..(n + 1) -> V]
    BY <1>0, <2>1
  <2>3. g[0] = base /\ \A i \in 0..n : g[i] = f[i]
    BY <2>1
  <2>4. ASSUME NEW i \in 1..(n + 1) PROVE g[i] = Next[i][g[i - 1]]
    <3>1. CASE i = n + 1
      <4>1. g[i] = Next[n + 1][f[n]]
        BY <3>1
      <4>2. g[i - 1] = f[n]
        BY <2>3, <3>1
      <4> QED
        BY <3>1, <4>1, <4>2
    <3>2. CASE i # n + 1
      <4>1. i \in 1..n /\ i \in 0..n /\ i - 1 \in 0..n
        BY <3>2
      <4>2. g[i] = f[i] /\ g[i - 1] = f[i - 1]
        BY <2>3, <4>1
      <4> QED
        BY <2>1, <4>1, <4>2
    <3> QED
      BY <3>1, <3>2
  <2> HIDE DEF g
  <2>5. Made(g, n + 1)
    BY <2>2, <2>3, <2>4
  <2> QED
    BY <2>5
<1>3. Nat \subseteq S
  <2> HIDE DEF S
  <2> QED
    BY <1>1, <1>2, SetInduction
<1>4. PICK f : Made(f, N)
  <2>1. N \in S /\ N <= N
    BY <1>3
  <2> HIDE DEF Made
  <2> QED BY <2>1
<1>5. Unfolds(f, V, base, N, Next)
  BY <1>4 DEF Unfolds
<1> QED
  BY <1>5

\* Whatever function satisfies the recursion has its values in any set closed under it.
LEMMA RecursiveValues ==
  ASSUME NEW V, NEW N \in Nat, NEW Next \in [1..N -> [V -> V]], NEW f,
         f[0] \in V, \A n \in 1..N : f[n - 1] \in V => f[n] = Next[n][f[n - 1]]
  PROVE  \A n \in 0..N : f[n] \in V
<1> DEFINE S == {n \in Nat : n <= N => f[n] \in V}
<1>1. 0 \in S
  OBVIOUS
<1>2. ASSUME NEW n \in Nat, n \in S PROVE n + 1 \in S
  <2> SUFFICES ASSUME n + 1 <= N PROVE f[n + 1] \in V
    OBVIOUS
  <2>1. n + 1 \in 1..N /\ (n + 1) - 1 = n /\ f[n] \in V
    BY <1>2
  <2>2. f[n + 1] = Next[n + 1][f[n]]
    BY <2>1
  <2> QED
    BY <2>1, <2>2
<1>3. Nat \subseteq S
  <2> HIDE DEF S
  <2> QED
    BY <1>1, <1>2, SetInduction
<1> QED
  BY <1>3
=============================================================================
