----------------------------- MODULE Induction -----------------------------
(***************************************************************************)
(* Induction over an interval of the naturals, and what it says of         *)
(* functions that are defined by recursion over one.  The theorems of      *)
(* NaturalsInduction are about an operator; these are about sets and       *)
(* functions, by way of the least number that has not a property.          *)
(***************************************************************************)
EXTENDS Integers, WellFoundedInduction, TLAPS

(* A set of naturals has a least one.                                      *)
LEMMA LeastNatural ==
  ASSUME NEW S \in SUBSET Nat, S # {}
  PROVE  \E n \in S : \A m \in S : n <= m
<1>. DEFINE R == OpToRel(<, Nat)
<1>1. PICK n \in S : \A m \in S : ~ (<<m, n>> \in R)
  BY NatLessThanWellFounded, WFMin
<1>2. ASSUME NEW m \in Nat, NEW k \in Nat, m < k
      PROVE  <<m, k>> \in R
  <2>1. <<m, k>> \in Nat \X Nat /\ <<m, k>>[1] < <<m, k>>[2]
    BY <1>2
  <2>2. R = {ss \in Nat \X Nat : ss[1] < ss[2]}
    BY DEF OpToRel
  <2>. QED
    BY <2>1, <2>2
<1>. HIDE DEF R
<1>3. ASSUME NEW m \in S
      PROVE  n <= m
  <2>1. m \in Nat /\ n \in Nat
    OBVIOUS
  <2>2. ~ (m < n)
    BY <1>1, <1>2, <2>1
  <2>. QED
    BY <2>1, <2>2
<1>. QED
  BY <1>3

(* Induction up to n: a set has 0 .. n that has 0, and each number when it *)
(* has the one before.                                                     *)
LEMMA UpTo ==
  ASSUME NEW n \in Nat, NEW A, 0 \in A, \A k \in 1 .. n : k - 1 \in A => k \in A
  PROVE  \A k \in 0 .. n : k \in A
<1>. DEFINE Outside == {k \in 0 .. n : k \notin A}
<1>1. ASSUME Outside # {}
      PROVE  FALSE
  <2>. HIDE DEF Outside
  <2>1. Outside \in SUBSET Nat
    BY DEF Outside
  <2>2. PICK m \in Outside : \A k \in Outside : m <= k
    BY <1>1, <2>1, LeastNatural
  <2>. USE DEF Outside
  <2>3. m \in 1 .. n /\ m - 1 \in 0 .. n /\ ~ (m <= m - 1)
    BY <2>2
  <2>4. m - 1 \in A
    BY <2>2, <2>3
  <2>. QED
    BY <2>2, <2>3, <2>4
<1>. QED
  BY <1>1

(* What starts in a set and stays there by every step is in it.            *)
LEMMA StaysIn ==
  ASSUME NEW V, NEW n \in Nat, NEW f, f = [k \in 0 .. n |-> f[k]], f[0] \in V,
         \A k \in 1 .. n : f[k - 1] \in V => f[k] \in V
  PROVE  f \in [0 .. n -> V]
<1>. DEFINE A == {k \in 0 .. n : f[k] \in V}
<1>1. 0 \in A /\ \A k \in 1 .. n : k - 1 \in A => k \in A
  OBVIOUS
<1>. HIDE DEF A
<1>2. \A k \in 0 .. n : k \in A
  BY <1>1, UpTo
<1>. QED
  BY <1>2 DEF A

(* The values a computation takes from base on, of which the kth step is   *)
(* the function step[k].                                                   *)
IsRun(f, base, step, n) ==
  f = [k \in 0 .. n |-> IF k = 0 THEN base ELSE step[k][f[k - 1]]]

Runs(f, V, base, step, n) ==
  /\ f \in [0 .. n -> V] /\ f[0] = base
  /\ \A k \in 1 .. n : f[k] = step[k][f[k - 1]]

(* Every computation has a run, whatever its number of steps is.           *)
LEMMA RunExists ==
  ASSUME NEW V, NEW base \in V, NEW n \in Nat, NEW step \in [1 .. n -> [V -> V]]
  PROVE  \E f : Runs(f, V, base, step, n)
<1>. DEFINE A == {k \in 0 .. n : \E f : IsRun(f, base, step, k)}
<1>1. 0 \in A
  <2>. DEFINE f == [k \in 0 .. 0 |-> base]
  <2>1. IsRun(f, base, step, 0)
    BY DEF IsRun
  <2>. QED
    BY <2>1
<1>2. ASSUME NEW m \in 1 .. n, m - 1 \in A
      PROVE  m \in A
  <2>1. PICK f : IsRun(f, base, step, m - 1)
    BY <1>2
  <2>2. f[0] = base /\ \A k \in 1 .. m - 1 : f[k] = step[k][f[k - 1]]
    BY <2>1 DEF IsRun
  <2>. DEFINE g == [k \in 0 .. m |-> IF k = m THEN step[m][f[m - 1]] ELSE f[k]]
  <2>3. g = [k \in 0 .. m |-> g[k]]
    OBVIOUS
  <2>4. g[m] = step[m][f[m - 1]] /\ \A k \in 0 .. m - 1 : g[k] = f[k]
    OBVIOUS
  <2>. HIDE DEF g
  <2>5. ASSUME NEW k \in 0 .. m
        PROVE  g[k] = IF k = 0 THEN base ELSE step[k][g[k - 1]]
    <3>1. CASE k = m
      <4>1. k # 0 /\ m - 1 \in 0 .. m - 1
        BY <3>1
      <4>. QED
        BY <2>4, <3>1, <4>1
    <3>2. CASE k = 0
      BY <2>2, <2>4, <3>2
    <3>3. CASE k # m /\ k # 0
      <4>1. k \in 1 .. m - 1 /\ k \in 0 .. m - 1 /\ k - 1 \in 0 .. m - 1
        BY <3>3
      <4>. QED
        BY <2>2, <2>4, <3>3, <4>1
    <3>. QED
      BY <3>1, <3>2, <3>3
  <2>6. IsRun(g, base, step, m)
    BY <2>3, <2>5 DEF IsRun
  <2>. QED
    BY <2>6
<1>3. PICK f : IsRun(f, base, step, n)
  <2>1. \A k \in 1 .. n : k - 1 \in A => k \in A
    BY <1>2
  <2>. HIDE DEF A
  <2>2. n \in 0 .. n
    OBVIOUS
  <2>3. n \in A
    BY <1>1, <2>1, <2>2, UpTo
  <2>. QED
    BY <2>3 DEF A
<1>4. f[0] = base /\ \A k \in 1 .. n : f[k] = step[k][f[k - 1]]
  BY <1>3 DEF IsRun
<1>5. f = [k \in 0 .. n |-> f[k]]
  BY <1>3 DEF IsRun
<1>6. ASSUME NEW k \in 1 .. n, f[k - 1] \in V
      PROVE  f[k] \in V
  <2>1. step[k] \in [V -> V]
    OBVIOUS
  <2>. QED
    BY <1>4, <1>6, <2>1
<1>7. f \in [0 .. n -> V]
  BY <1>4, <1>5, <1>6, StaysIn
<1>. QED
  BY <1>4, <1>7 DEF Runs
=============================================================================
