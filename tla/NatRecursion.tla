---------------------------- MODULE NatRecursion ----------------------------
(* Induction and recursion over the natural numbers for sets and functions    *)
(* instead of predicates and operators, which is the form the provers can     *)
(* apply: what the reference reading of a card needs, whose chains and        *)
(* folders are recursive functions.                                           *)
EXTENDS Integers, WellFoundedInduction, TLAPS

(* A set of natural numbers that is not empty has a least element.            *)
LEMMA Least ==
  ASSUME NEW T \in SUBSET Nat, T # {}
  PROVE  \E n \in T : \A m \in T : n <= m
<1> DEFINE Less == {ss \in Nat \X Nat : ss[1] < ss[2]}
<1>1. IsWellFoundedOn(Less, Nat)
  BY NatLessThanWellFounded, Zenon DEF OpToRel
<1>2. PICK n \in T : \A m \in T : ~(<<m, n>> \in Less)
  <2> HIDE DEF Less
  <2> QED BY <1>1, WFMin, Zenon
<1>3. ASSUME NEW m \in T PROVE n <= m
  <2>1. m \in Nat /\ n \in Nat
    OBVIOUS
  <2>2. m < n => <<m, n>> \in Less
    BY <2>1
  <2> QED BY <1>2, <2>1, <2>2
<1> QED BY <1>3

(* A set that holds 0, and n + 1 with every n, holds every natural number.    *)
LEMMA Induction ==
  ASSUME NEW T \in SUBSET Nat, 0 \in T, \A n \in T : n + 1 \in T
  PROVE  \A n \in Nat : n \in T
<1>1. SUFFICES ASSUME Nat \ T # {} PROVE FALSE
  OBVIOUS
<1>2. PICK n \in Nat \ T : \A m \in Nat \ T : n <= m
  BY <1>1, Least
<1>3. n - 1 \in T
  BY <1>2
<1> QED BY <1>2, <1>3

(* A function on the natural numbers given by its value at 0 and by the step  *)
(* that leads to n from the value before.                                     *)
IsStep(S, step) == step \in [Nat -> [S -> S]]
Iterates(f, S, a, step) ==
  f \in [Nat -> S] /\ f[0] = a /\ \A n \in Nat : f[n + 1] = step[n + 1][f[n]]

(* Such a function exists.                                                    *)
LEMMA Recursion ==
  ASSUME NEW S, NEW a \in S, NEW step, IsStep(S, step)
  PROVE  \E f : Iterates(f, S, a, step)
<1> USE DEF IsStep
<1> DEFINE Upto(g, n) ==
      /\ g \in [0..n -> S] /\ g[0] = a
      /\ \A m \in 1..n : g[m] = step[m][g[m - 1]]
           T == {n \in Nat : \E g : Upto(g, n)}
           G(n) == CHOOSE g : Upto(g, n)
           f == [n \in Nat |-> G(n)[n]]
<1>1. 0 \in T
  <2> DEFINE g == [n \in 0..0 |-> a]
  <2>1. Upto(g, 0)
    OBVIOUS
  <2> QED BY <2>1
<1>2. ASSUME NEW n \in T PROVE n + 1 \in T
  <2>1. PICK g : Upto(g, n)
    BY <1>2
  <2> DEFINE h == [m \in 0..(n + 1) |-> IF m = n + 1 THEN step[m][g[n]] ELSE g[m]]
  <2>2. n \in Nat /\ g[n] \in S
    BY <2>1
  <2>3. \A m \in 1..(n + 1) : h[m] = step[m][h[m - 1]]
    BY <2>1, <2>2
  <2>4. h \in [0..(n + 1) -> S]
    <3>1. ASSUME NEW m \in 0..(n + 1) PROVE h[m] \in S
      <4>1. step[n + 1][g[n]] \in S
        BY <2>2
      <4> QED BY <2>1, <2>2, <4>1
    <3> QED BY <3>1
  <2>5. h[0] = a
    BY <2>1, <2>2
  <2>6. Upto(h, n + 1)
    BY <2>3, <2>4, <2>5
  <2> HIDE DEF Upto, h
  <2> QED BY <2>2, <2>6
<1>3. \A n \in Nat : Upto(G(n), n)
  <2>1. \A n \in Nat : n \in T
    <3> HIDE DEF T
    <3> QED BY <1>1, <1>2, Induction, T \subseteq Nat DEF T
  <2> HIDE DEF Upto
  <2>2. ASSUME NEW n \in Nat PROVE Upto(G(n), n)
    <3>1. \E g : Upto(g, n)
      BY <2>1
    <3> QED BY <3>1
  <2> QED BY <2>2
<1>4. ASSUME NEW n \in Nat, NEW g, NEW h, Upto(g, n), Upto(h, n + 1)
      PROVE  g[n] = h[n]
  <2> DEFINE E == {m \in Nat : m <= n => g[m] = h[m]}
  <2>1. 0 \in E
    BY <1>4
  <2>2. ASSUME NEW m \in E PROVE m + 1 \in E
    <3>1. CASE m + 1 <= n
      <4>1. g[m + 1] = step[m + 1][g[m]] /\ h[m + 1] = step[m + 1][h[m]]
        <5>1. m + 1 \in 1..n /\ m + 1 \in 1..(n + 1) /\ (m + 1) - 1 = m
          BY <3>1
        <5> QED BY <1>4, <5>1
      <4> QED BY <2>2, <3>1, <4>1
    <3> QED BY <3>1
  <2>3. \A m \in Nat : m \in E
    <3> HIDE DEF E
    <3> QED BY <2>1, <2>2, Induction, E \subseteq Nat DEF E
  <2> QED BY <2>3
<1> HIDE DEF G
<1>5. f \in [Nat -> S] /\ f[0] = a
  BY <1>3
<1>6. ASSUME NEW n \in Nat PROVE f[n + 1] = step[n + 1][f[n]]
  <2>1. G(n)[n] = G(n + 1)[n]
    <3>1. Upto(G(n), n) /\ Upto(G(n + 1), n + 1)
      BY <1>3
    <3> HIDE DEF Upto
    <3> QED BY <1>4, <3>1
  <2>2. Upto(G(n + 1), n + 1)
    BY <1>3
  <2>3. G(n + 1)[n + 1] = step[n + 1][G(n + 1)[n]]
    <3>1. n + 1 \in 1..(n + 1) /\ (n + 1) - 1 = n
      OBVIOUS
    <3> QED BY <2>2, <3>1
  <2> QED BY <2>1, <2>3
<1> QED BY <1>5, <1>6 DEF Iterates
=============================================================================
