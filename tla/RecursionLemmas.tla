--------------------------- MODULE RecursionLemmas ---------------------------
(***************************************************************************)
(* What the proofs about recursive functions rest on.  The library states  *)
(* its induction theorems for an operator, which no prover here can supply;*)
(* stated for a set they can be used, and follow from the least element of *)
(* a set of numbers.  A recursive function f is some f for which its       *)
(* equation holds: that there is one has to be shown, for each.            *)
(***************************************************************************)
EXTENDS Integers, Powers, WellFoundedInduction, TLAPS

LEMMA HasLeast ==
    ASSUME NEW S \in SUBSET Nat, S # {}
    PROVE  \E n \in S : \A m \in S : n <= m
<1>1. IsWellFoundedOn(OpToRel(<, Nat), Nat)
  BY NatLessThanWellFounded
<1>2. PICK n \in S : \A m \in S : ~(<<m, n>> \in OpToRel(<, Nat))
  BY <1>1, WFMin
<1>3. \A m \in S : ~(m < n)
  BY <1>2 DEF OpToRel
<1> QED BY <1>3

(* Induction: a set that has 0 and, with a number, the next, has them all. *)
LEMMA Induct ==
    ASSUME NEW S, 0 \in S, \A n \in S \cap Nat : n + 1 \in S
    PROVE  Nat \subseteq S
<1> SUFFICES ASSUME Nat \ S # {} PROVE FALSE
  OBVIOUS
<1>1. PICK n \in Nat \ S : \A m \in Nat \ S : n <= m
  BY HasLeast
<1>2. n # 0 /\ n - 1 \in Nat
  OBVIOUS
<1>3. n - 1 \in S
  BY <1>1, <1>2
<1> QED BY <1>2, <1>3

(* f is base, and from then on what step makes of the value before.        *)
Runs(f, T, base, step, n) ==
    f \in [0..n -> T] /\ f[0] = base /\ \A i \in 1..n : f[i] = step[i][f[i - 1]]

(* There is such a function up to every n.                                 *)
LEMMA Recursion ==
    ASSUME NEW T, NEW base \in T, NEW step \in [Nat -> [T -> T]], NEW n \in Nat
    PROVE  \E f : Runs(f, T, base, step, n)
<1> DEFINE Has(m) == \E f : Runs(f, T, base, step, m)
<1> DEFINE S == {m \in Nat : Has(m)}
<1>1. Has(0)
  <2> DEFINE g == [i \in 0..0 |-> base]
  <2>1. Runs(g, T, base, step, 0)
    BY DEF Runs
  <2> QED BY <2>1
<1>2. ASSUME NEW m \in Nat, Has(m) PROVE Has(m + 1)
  <2>1. PICK f : Runs(f, T, base, step, m)
    BY <1>2
  <2> DEFINE g == [i \in 0..(m + 1) |-> IF i <= m THEN f[i] ELSE step[m + 1][f[m]]]
  <2>2. g \in [0..(m + 1) -> T]
    BY <2>1 DEF Runs
  <2>3. g[0] = base
    BY <2>1 DEF Runs
  <2>4. ASSUME NEW i \in 1..(m + 1) PROVE g[i] = step[i][g[i - 1]]
    BY <2>1, <2>4 DEF Runs
  <2>5. Runs(g, T, base, step, m + 1)
    BY <2>2, <2>3, <2>4 DEF Runs
  <2> QED BY <2>5
<1> HIDE DEF Has
<1>3. 0 \in S /\ \A m \in S \cap Nat : m + 1 \in S
  BY <1>1, <1>2
<1> HIDE DEF S
<1>4. Nat \subseteq S
  BY <1>3, Induct
<1> QED BY <1>4 DEF S, Has

(* Power is what it should be: 1, and b times the power before.             *)
LEMMA PowerStep ==
    ASSUME NEW b \in Nat
    PROVE  /\ Power(b, 0) = 1
           /\ \A n \in Nat : Power(b, n + 1) = b * Power(b, n) /\ Power(b, n) \in Nat
<1> DEFINE Eqn(f, n) == f = [i \in 0..n |-> IF i = 0 THEN 1 ELSE b * f[i - 1]]
<1>1. \A n : Power(b, n) = (CHOOSE f : Eqn(f, n))[n]
  BY DEF Power
<1>2. ASSUME NEW n \in Nat PROVE \E f : Eqn(f, n)
  <2> DEFINE base == 1
             step == [i \in Nat |-> [x \in Nat |-> b * x]]
  <2>1. base \in Nat /\ step \in [Nat -> [Nat -> Nat]]
    OBVIOUS
  <2> HIDE DEF base, step
  <2>2. PICK f : Runs(f, Nat, base, step, n)
    BY <2>1, Recursion
  <2>3. f = [i \in 0..n |-> IF i = 0 THEN 1 ELSE b * f[i - 1]]
    <3>1. ASSUME NEW i \in 0..n PROVE f[i] = IF i = 0 THEN 1 ELSE b * f[i - 1]
      <4>1. CASE i = 0
        BY <2>2, <4>1 DEF base, Runs
      <4>2. CASE i # 0
        <5>1. i \in 1..n /\ i \in Nat /\ f[i - 1] \in Nat
          BY <2>2, <4>2 DEF Runs
        <5>2. f[i] = step[i][f[i - 1]]
          BY <5>1, <2>2 DEF Runs
        <5> QED BY <5>1, <5>2, <4>2 DEF step
      <4> QED BY <4>1, <4>2
    <3> QED BY <2>2, <3>1 DEF Runs
  <2> QED BY <2>3
<1> DEFINE F(n) == CHOOSE f : Eqn(f, n)
<1>3. \A n \in Nat : Eqn(F(n), n)
  BY <1>2
<1>4. \A n : Power(b, n) = F(n)[n]
  BY <1>1
<1> HIDE DEF F
<1>5. ASSUME NEW n \in Nat PROVE \A i \in 0..n : F(n)[i] \in Nat /\ F(n)[i] = F(n + 1)[i]
  <2> DEFINE S == {i \in Nat : i <= n => F(n)[i] \in Nat /\ F(n)[i] = F(n + 1)[i]}
  <2>1. 0 \in S
    BY <1>3
  <2>2. ASSUME NEW i \in S \cap Nat PROVE i + 1 \in S
    <3>1. SUFFICES ASSUME i + 1 <= n PROVE i + 1 \in S
      OBVIOUS
    <3>2. F(n)[i + 1] = b * F(n)[i] /\ F(n + 1)[i + 1] = b * F(n + 1)[i]
      BY <1>3, <3>1
    <3> QED BY <2>2, <3>1, <3>2
  <2> HIDE DEF S
  <2>3. Nat \subseteq S
    BY <2>1, <2>2, Induct
  <2> QED BY <2>3 DEF S
<1>6. Power(b, 0) = 1
  BY <1>3, <1>4
<1>7. ASSUME NEW n \in Nat PROVE Power(b, n + 1) = b * Power(b, n)
  <2>1. F(n + 1)[n + 1] = b * F(n + 1)[n]
    BY <1>3
  <2> QED BY <2>1, <1>4, <1>5
<1>8. \A n \in Nat : Power(b, n) \in Nat
  BY <1>4, <1>5
<1> QED BY <1>6, <1>7, <1>8
=============================================================================
