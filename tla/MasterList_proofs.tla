------------------------- MODULE MasterList_proofs -------------------------
(***************************************************************************)
(* Proofs about a master's list of children, for every context, every      *)
(* number of elements and every size of a file.                            *)
(***************************************************************************)
EXTENDS MasterList, Induction, SequenceTheorems, FiniteSetTheorems, TLAPS

-----------------------------------------------------------------------------
(* A set of naturals has a least one.                                      *)
LEMMA MinOfNaturals ==
  ASSUME NEW S \in SUBSET Nat, S # {}
  PROVE  Min(S) \in S /\ \A n \in S : Min(S) <= n
BY LeastNatural DEF Min

-----------------------------------------------------------------------------
(* The values a computation of Those, or of Total, takes.                  *)
IsThose(f, S, s, set) ==
  /\ f \in [0 .. Len(s) -> Seq(S)] /\ f[0] = << >>
  /\ \A k \in 1 .. Len(s) :
       f[k] = IF s[k] \in set THEN Append(f[k - 1], s[k]) ELSE f[k - 1]

AreSums(f, s) ==
  /\ f \in [0 .. Len(s) -> Nat] /\ f[0] = 0
  /\ \A k \in 1 .. Len(s) : f[k] = f[k - 1] + s[k]

(* Those takes the terms of s one by one.                                  *)
LEMMA ThoseIs ==
  ASSUME NEW S, NEW s \in Seq(S), NEW set
  PROVE  \E f : IsThose(f, S, s, set) /\ Those(s, set) = f[Len(s)]
<1>. DEFINE P(f) == f = [k \in 0 .. Len(s) |->
                          IF k = 0 THEN << >>
                          ELSE IF s[k] \in set THEN Append(f[k - 1], s[k]) ELSE f[k - 1]]
            F == CHOOSE f : P(f)
            step == [k \in 1 .. Len(s) |->
                      [q \in Seq(S) |-> IF s[k] \in set THEN Append(q, s[k]) ELSE q]]
<1>1. Len(s) \in Nat /\ << >> \in Seq(S) /\ \A k \in 1 .. Len(s) : s[k] \in S
  OBVIOUS
<1>2. \A k \in 1 .. Len(s) : \A q \in Seq(S) : Append(q, s[k]) \in Seq(S)
  BY <1>1, AppendProperties
<1>3. step \in [1 .. Len(s) -> [Seq(S) -> Seq(S)]]
  BY <1>2
<1>4. PICK f : Runs(f, Seq(S), << >>, step, Len(s))
  <2>. HIDE DEF step
  <2>. QED
    BY <1>1, <1>3, RunExists
<1>5. /\ f \in [0 .. Len(s) -> Seq(S)] /\ f[0] = << >>
      /\ \A k \in 1 .. Len(s) : f[k] = step[k][f[k - 1]]
  <2>. HIDE DEF step
  <2>. QED
    BY <1>4 DEF Runs
<1>6. P(f)
  <2>1. ASSUME NEW k \in 0 .. Len(s)
        PROVE  f[k] = IF k = 0 THEN << >>
                      ELSE IF s[k] \in set THEN Append(f[k - 1], s[k]) ELSE f[k - 1]
    <3>1. CASE k = 0
      BY <1>5, <3>1
    <3>2. CASE k # 0
      <4>1. k \in 1 .. Len(s) /\ k - 1 \in 0 .. Len(s)
        BY <1>1, <3>2
      <4>2. f[k - 1] \in Seq(S) /\ f[k] = step[k][f[k - 1]]
        BY <1>5, <4>1
      <4>3. step[k][f[k - 1]] = IF s[k] \in set THEN Append(f[k - 1], s[k]) ELSE f[k - 1]
        BY <4>1, <4>2
      <4>. QED
        BY <3>2, <4>2, <4>3
    <3>. QED
      BY <3>1, <3>2
  <2>2. f = [k \in 0 .. Len(s) |-> f[k]]
    BY <1>5
  <2>. HIDE DEF step
  <2>. QED
    BY <2>1, <2>2
<1>. HIDE DEF step
<1>7. P(F)
  BY <1>6
<1>8. Those(s, set) = F[Len(s)]
  BY DEF Those
<1>. HIDE DEF F
<1>9. F[0] = << >>
  BY <1>1, <1>7
<1>10. ASSUME NEW k \in 1 .. Len(s)
       PROVE  F[k] = IF s[k] \in set THEN Append(F[k - 1], s[k]) ELSE F[k - 1]
  <2>1. k \in 0 .. Len(s) /\ k # 0
    BY <1>1
  <2>2. F[k] = IF k = 0 THEN << >>
               ELSE IF s[k] \in set THEN Append(F[k - 1], s[k]) ELSE F[k - 1]
    BY <1>7, <2>1
  <2>. QED
    BY <2>1, <2>2
<1>11. F = [k \in 0 .. Len(s) |-> F[k]]
  BY <1>7, Zenon
<1>. HIDE DEF P
<1>12. F \in [0 .. Len(s) -> Seq(S)]
  <2>. DEFINE V == Seq(S)
  <2>1. F[0] \in V /\ \A k \in 1 .. Len(s) : F[k - 1] \in V => F[k] \in V
    BY <1>1, <1>2, <1>9, <1>10
  <2>. HIDE DEF V
  <2>2. F \in [0 .. Len(s) -> V]
    BY <1>1, <1>11, <2>1, StaysIn
  <2>. QED
    BY <2>2 DEF V
<1>13. IsThose(F, S, s, set)
  BY <1>9, <1>10, <1>12 DEF IsThose
<1>. QED
  BY <1>8, <1>13

(* Total adds the terms of s one by one.                                   *)
LEMMA TotalIs ==
  ASSUME NEW s \in Seq(Nat)
  PROVE  \E f : AreSums(f, s) /\ Total(s) = f[Len(s)]
<1>. DEFINE P(f) == f = [k \in 0 .. Len(s) |-> IF k = 0 THEN 0 ELSE f[k - 1] + s[k]]
            F == CHOOSE f : P(f)
            step == [k \in 1 .. Len(s) |-> [n \in Nat |-> n + s[k]]]
<1>1. Len(s) \in Nat /\ 0 \in Nat /\ \A k \in 1 .. Len(s) : s[k] \in Nat
  OBVIOUS
<1>2. step \in [1 .. Len(s) -> [Nat -> Nat]]
  BY <1>1
<1>3. PICK f : Runs(f, Nat, 0, step, Len(s))
  <2>. HIDE DEF step
  <2>. QED
    BY <1>1, <1>2, RunExists
<1>4. /\ f \in [0 .. Len(s) -> Nat] /\ f[0] = 0
      /\ \A k \in 1 .. Len(s) : f[k] = step[k][f[k - 1]]
  <2>. HIDE DEF step
  <2>. QED
    BY <1>3 DEF Runs
<1>5. P(f)
  <2>1. ASSUME NEW k \in 0 .. Len(s)
        PROVE  f[k] = IF k = 0 THEN 0 ELSE f[k - 1] + s[k]
    <3>1. CASE k = 0
      BY <1>4, <3>1
    <3>2. CASE k # 0
      <4>1. k \in 1 .. Len(s) /\ k - 1 \in 0 .. Len(s)
        BY <1>1, <3>2
      <4>2. f[k - 1] \in Nat /\ f[k] = step[k][f[k - 1]]
        BY <1>4, <4>1
      <4>3. step[k][f[k - 1]] = f[k - 1] + s[k]
        BY <4>1, <4>2
      <4>. QED
        BY <3>2, <4>2, <4>3
    <3>. QED
      BY <3>1, <3>2
  <2>2. f = [k \in 0 .. Len(s) |-> f[k]]
    BY <1>4
  <2>. HIDE DEF step
  <2>. QED
    BY <2>1, <2>2
<1>. HIDE DEF step
<1>6. P(F)
  BY <1>5
<1>7. Total(s) = F[Len(s)]
  BY DEF Total
<1>. HIDE DEF F
<1>8. F[0] = 0
  BY <1>1, <1>6
<1>9. ASSUME NEW k \in 1 .. Len(s)
      PROVE  F[k] = F[k - 1] + s[k]
  <2>1. k \in 0 .. Len(s) /\ k # 0
    BY <1>1
  <2>2. F[k] = IF k = 0 THEN 0 ELSE F[k - 1] + s[k]
    BY <1>6, <2>1
  <2>. QED
    BY <2>1, <2>2
<1>10. F = [k \in 0 .. Len(s) |-> F[k]]
  BY <1>6, Zenon
<1>. HIDE DEF P
<1>11. F \in [0 .. Len(s) -> Nat]
  <2>1. F[0] \in Nat /\ \A k \in 1 .. Len(s) : F[k - 1] \in Nat => F[k] \in Nat
    BY <1>1, <1>8, <1>9
  <2>. QED
    BY <1>1, <1>10, <2>1, StaysIn
<1>12. AreSums(F, s)
  BY <1>8, <1>9, <1>11 DEF AreSums
<1>. QED
  BY <1>7, <1>12

(* The total of natural numbers is one.                                    *)
LEMMA TotalType ==
  ASSUME NEW s \in Seq(Nat)
  PROVE  Total(s) \in Nat
<1>1. PICK f : AreSums(f, s) /\ Total(s) = f[Len(s)]
  BY TotalIs
<1>2. Len(s) \in 0 .. Len(s)
  OBVIOUS
<1>. QED
  BY <1>1, <1>2 DEF AreSums

(* Nothing amounts to nothing.                                             *)
LEMMA TotalEmpty == Total(<< >>) = 0
<1>1. << >> \in Seq(Nat) /\ Len(<< >>) = 0
  OBVIOUS
<1>2. PICK f : AreSums(f, << >>) /\ Total(<< >>) = f[Len(<< >>)]
  BY <1>1, TotalIs
<1>. QED
  BY <1>1, <1>2 DEF AreSums

(* One more term adds itself.                                              *)
LEMMA TotalAppend ==
  ASSUME NEW s \in Seq(Nat), NEW x \in Nat
  PROVE  Total(Append(s, x)) = Total(s) + x
<1>. DEFINE t == Append(s, x)
<1>1. /\ t \in Seq(Nat) /\ Len(t) = Len(s) + 1 /\ Len(s) \in Nat
      /\ \A i \in 1 .. Len(s) : t[i] = s[i]
      /\ t[Len(s) + 1] = x
  BY AppendProperties
<1>. HIDE DEF t
<1>2. PICK n \in Nat : n = Len(s)
  BY <1>1
<1>3. PICK f : AreSums(f, s) /\ Total(s) = f[Len(s)]
  BY TotalIs
<1>4. PICK g : AreSums(g, t) /\ Total(t) = g[Len(t)]
  BY <1>1, TotalIs
<1>5. /\ f \in [0 .. n -> Nat] /\ f[0] = 0
      /\ \A k \in 1 .. n : f[k] = f[k - 1] + s[k]
  BY <1>2, <1>3 DEF AreSums
<1>6. /\ g \in [0 .. n + 1 -> Nat] /\ g[0] = 0
      /\ \A k \in 1 .. n + 1 : g[k] = g[k - 1] + t[k]
  BY <1>1, <1>2, <1>4 DEF AreSums
<1>. DEFINE A == {k \in 0 .. n : f[k] = g[k]}
<1>7. 0 \in A
  BY <1>2, <1>5, <1>6
<1>8. ASSUME NEW k \in 1 .. n, k - 1 \in A
      PROVE  k \in A
  <2>1. k \in 1 .. n + 1 /\ t[k] = s[k] /\ f[k - 1] = g[k - 1]
    BY <1>1, <1>2, <1>8
  <2>2. f[k] = f[k - 1] + s[k] /\ g[k] = g[k - 1] + t[k]
    BY <1>5, <1>6, <2>1
  <2>. QED
    BY <1>2, <2>1, <2>2
<1>. HIDE DEF A
<1>9. \A k \in 0 .. n : k \in A
  BY <1>2, <1>7, <1>8, UpTo
<1>10. f[n] = g[n]
  BY <1>2, <1>9 DEF A
<1>11. g[n + 1] = g[n] + x
  <2>1. n + 1 \in 1 .. n + 1 /\ n + 1 - 1 = n /\ t[n + 1] = x
    BY <1>1, <1>2
  <2>2. g[n + 1] = g[n + 1 - 1] + t[n + 1]
    BY <1>6, <2>1
  <2>. QED
    BY <2>1, <2>2
<1>12. Total(s) = f[n] /\ Total(t) = g[n + 1]
  BY <1>1, <1>2, <1>3, <1>4
<1>. QED
  BY <1>10, <1>11, <1>12 DEF t

-----------------------------------------------------------------------------
(* A sequence with one more term.                                          *)
LEMMA AppendOne ==
  ASSUME NEW S, NEW s \in Seq(S), NEW x \in S
  PROVE  /\ Append(s, x) \in Seq(S) /\ Len(Append(s, x)) = Len(s) + 1
         /\ \A i \in 1 .. Len(s) : Append(s, x)[i] = s[i]
         /\ Append(s, x)[Len(s) + 1] = x
         /\ DOMAIN Append(s, x) = 1 .. Len(s) + 1
         /\ ToSet(Append(s, x)) = ToSet(s) \cup {x}
         /\ IsInjective(s) /\ x \notin ToSet(s) => IsInjective(Append(s, x))
<1>. DEFINE t == Append(s, x)
<1>1. /\ t \in Seq(S) /\ Len(t) = Len(s) + 1
      /\ \A i \in 1 .. Len(s) : t[i] = s[i]
      /\ t[Len(s) + 1] = x
  BY AppendProperties
<1>2. DOMAIN t = 1 .. Len(s) + 1 /\ DOMAIN s = 1 .. Len(s) /\ Len(s) \in Nat
  BY <1>1
<1>. HIDE DEF t
<1>3. ToSet(t) = ToSet(s) \cup {x}
  <2>1. \A i \in DOMAIN t : i \in DOMAIN s \/ i = Len(s) + 1
    BY <1>2
  <2>2. \A i \in DOMAIN s : i \in DOMAIN t /\ t[i] = s[i]
    BY <1>1, <1>2
  <2>3. Len(s) + 1 \in DOMAIN t /\ t[Len(s) + 1] = x
    BY <1>1, <1>2
  <2>. QED
    BY <2>1, <2>2, <2>3 DEF ToSet
<1>4. ASSUME IsInjective(s), x \notin ToSet(s)
      PROVE  IsInjective(t)
  <2>1. SUFFICES ASSUME NEW i \in DOMAIN t, NEW j \in DOMAIN t, t[i] = t[j], i # j
                 PROVE  FALSE
    BY DEF IsInjective
  <2>2. \A p \in DOMAIN s : s[p] # x
    BY <1>4 DEF ToSet
  <2>3. CASE i \in DOMAIN s /\ j \in DOMAIN s
    BY <1>1, <1>2, <1>4, <2>1, <2>3 DEF IsInjective
  <2>4. CASE i \notin DOMAIN s
    BY <1>1, <1>2, <2>1, <2>2, <2>4
  <2>5. CASE j \notin DOMAIN s
    BY <1>1, <1>2, <2>1, <2>2, <2>5
  <2>. QED
    BY <2>3, <2>4, <2>5
<1>. QED
  BY <1>1, <1>2, <1>3, <1>4 DEF t

(* What Those takes: the terms of s that are in the set, each of them; all *)
(* of s when all its terms are.                                            *)
LEMMA ThoseFacts ==
  ASSUME NEW S, NEW s \in Seq(S), NEW set
  PROVE  /\ Those(s, set) \in Seq(S) /\ Len(Those(s, set)) <= Len(s)
         /\ ToSet(Those(s, set)) = ToSet(s) \cap set
         /\ ToSet(s) \subseteq set => Those(s, set) = s
<1>1. PICK n \in Nat : n = Len(s)
  OBVIOUS
<1>2. DOMAIN s = 1 .. n /\ \A k \in 1 .. n : s[k] \in S
  BY <1>1
<1>3. PICK f : IsThose(f, S, s, set) /\ Those(s, set) = f[n]
  BY <1>1, ThoseIs
<1>4. /\ \A k \in 0 .. n : f[k] \in Seq(S)
      /\ f[0] = << >>
      /\ \A k \in 1 .. n : f[k] = IF s[k] \in set THEN Append(f[k - 1], s[k]) ELSE f[k - 1]
  BY <1>1, <1>3 DEF IsThose
<1>. DEFINE A == {k \in 0 .. n : Len(f[k]) <= k}
            B == {k \in 0 .. n : ToSet(f[k]) = {s[i] : i \in 1 .. k} \cap set}
            C == {k \in 0 .. n : Len(f[k]) = k /\ \A i \in 1 .. k : f[k][i] = s[i]}
<1>5. 0 \in A /\ 0 \in B /\ 0 \in C
  <2>1. f[0] = << >> /\ 0 \in 0 .. n
    BY <1>1, <1>4
  <2>2. Len(f[0]) = 0
    BY <2>1
  <2>3. ToSet(f[0]) = {}
    BY <2>1 DEF ToSet
  <2>4. 1 .. 0 = {}
    OBVIOUS
  <2>. QED
    BY <2>1, <2>2, <2>3, <2>4
<1>6. ASSUME NEW k \in 1 .. n
      PROVE  /\ k \in 0 .. n /\ k - 1 \in 0 .. n /\ s[k] \in S /\ f[k - 1] \in Seq(S)
             /\ f[k] = IF s[k] \in set THEN Append(f[k - 1], s[k]) ELSE f[k - 1]
             /\ \A i \in 1 .. k : i \in 1 .. k - 1 \/ i = k
             /\ Len(f[k - 1]) \in Nat
  <2>1. k \in 0 .. n /\ k - 1 \in 0 .. n /\ \A i \in 1 .. k : i \in 1 .. k - 1 \/ i = k
    BY <1>1
  <2>2. f[k - 1] \in Seq(S)
    BY <1>4, <2>1
  <2>. QED
    BY <1>2, <1>4, <2>1, <2>2
<1>7. ASSUME NEW k \in 1 .. n, k - 1 \in A
      PROVE  k \in A
  <2>1. CASE s[k] \in set
    <3>0. f[k - 1] \in Seq(S) /\ s[k] \in S /\ f[k] = Append(f[k - 1], s[k])
      BY <1>6, <2>1
    <3>1. Len(f[k]) = Len(f[k - 1]) + 1
      BY <3>0, AppendOne
    <3>. QED
      BY <1>6, <1>7, <3>1
  <2>2. CASE s[k] \notin set
    BY <1>6, <1>7, <2>2
  <2>. QED
    BY <2>1, <2>2
<1>8. ASSUME NEW k \in 1 .. n, k - 1 \in B
      PROVE  k \in B
  <2>1. {s[i] : i \in 1 .. k} = {s[i] : i \in 1 .. k - 1} \cup {s[k]}
    BY <1>6
  <2>2. ToSet(f[k - 1]) = {s[i] : i \in 1 .. k - 1} \cap set
    BY <1>8
  <2>3. CASE s[k] \in set
    <3>1. ToSet(f[k]) = ToSet(f[k - 1]) \cup {s[k]}
      BY <1>6, <2>3, AppendOne
    <3>. QED
      BY <1>6, <2>1, <2>2, <2>3, <3>1
  <2>4. CASE s[k] \notin set
    BY <1>6, <2>1, <2>2, <2>4
  <2>. QED
    BY <2>3, <2>4
<1>9. ASSUME ToSet(s) \subseteq set, NEW k \in 1 .. n, k - 1 \in C
      PROVE  k \in C
  <2>1. s[k] \in set
    BY <1>2, <1>9 DEF ToSet
  <2>2. Len(f[k - 1]) = k - 1 /\ \A i \in 1 .. k - 1 : f[k - 1][i] = s[i]
    BY <1>9
  <2>3. f[k] = Append(f[k - 1], s[k])
    BY <1>6, <2>1
  <2>4. /\ Len(f[k]) = k - 1 + 1
        /\ \A i \in 1 .. k - 1 : f[k][i] = f[k - 1][i]
        /\ f[k][k - 1 + 1] = s[k]
    BY <1>6, <2>2, <2>3, AppendOne
  <2>5. k - 1 + 1 = k
    BY <1>1
  <2>6. Len(f[k]) = k /\ \A i \in 1 .. k : f[k][i] = s[i]
    BY <1>6, <2>2, <2>4, <2>5
  <2>. QED
    BY <1>6, <2>6
<1>10. n \in 0 .. n
  BY <1>1
<1>11. Len(f[n]) <= n /\ ToSet(f[n]) = {s[i] : i \in 1 .. n} \cap set
  <2>. HIDE DEF A, B
  <2>1. \A k \in 0 .. n : k \in A
    BY <1>1, <1>5, <1>7, UpTo
  <2>2. \A k \in 0 .. n : k \in B
    BY <1>1, <1>5, <1>8, UpTo
  <2>3. n \in A /\ n \in B
    BY <1>10, <2>1, <2>2
  <2>. QED
    BY <2>3 DEF A, B
<1>12. ASSUME ToSet(s) \subseteq set
       PROVE  f[n] = s
  <2>. HIDE DEF C
  <2>0. \A k \in 1 .. n : k - 1 \in C => k \in C
    BY <1>9, <1>12
  <2>1. \A k \in 0 .. n : k \in C
    BY <1>1, <1>5, <2>0, UpTo
  <2>2. n \in C
    BY <1>10, <2>1
  <2>3. Len(f[n]) = n /\ \A i \in 1 .. n : f[n][i] = s[i]
    BY <2>2 DEF C
  <2>4. f[n] \in Seq(S)
    BY <1>4, <1>10
  <2>. QED
    BY <1>1, <2>3, <2>4, SeqEqual
<1>13. ToSet(s) = {s[i] : i \in 1 .. n}
  BY <1>2 DEF ToSet
<1>14. f[n] \in Seq(S)
  BY <1>4, <1>10
<1>. QED
  BY <1>1, <1>3, <1>11, <1>12, <1>13, <1>14

-----------------------------------------------------------------------------
(* The numbers g gives the terms of a sequence.                            *)
Numbers(g, s) == [i \in DOMAIN s |-> g[s[i]]]

(* One more term has one more number.                                      *)
LEMMA NumbersAppend ==
  ASSUME NEW S, NEW s \in Seq(S), NEW x \in S, NEW g \in [S -> Nat]
  PROVE  /\ Numbers(g, s) \in Seq(Nat)
         /\ Numbers(g, Append(s, x)) = Append(Numbers(g, s), g[x])
<1>. DEFINE t == Append(s, x)
            a == Numbers(g, s)
            b == Append(a, g[x])
<1>1. /\ DOMAIN t = 1 .. Len(s) + 1 /\ \A i \in 1 .. Len(s) : t[i] = s[i]
      /\ t[Len(s) + 1] = x
  BY AppendOne
<1>2. a \in Seq(Nat) /\ Len(a) = Len(s) /\ \A i \in 1 .. Len(s) : a[i] = g[s[i]]
  <2>1. DOMAIN s = 1 .. Len(s) /\ Len(s) \in Nat /\ \A i \in 1 .. Len(s) : s[i] \in S
    OBVIOUS
  <2>. QED
    BY <2>1 DEF Numbers
<1>3. /\ b \in Seq(Nat) /\ Len(b) = Len(s) + 1 /\ DOMAIN b = 1 .. Len(s) + 1
      /\ \A i \in 1 .. Len(s) : b[i] = g[s[i]]
      /\ b[Len(s) + 1] = g[x]
  <2>. HIDE DEF a
  <2>1. g[x] \in Nat
    OBVIOUS
  <2>. QED
    BY <1>2, <2>1, AppendOne
<1>. HIDE DEF t, b
<1>4. \A i \in 1 .. Len(s) + 1 : i \in 1 .. Len(s) \/ i = Len(s) + 1
  OBVIOUS
<1>5. \A i \in 1 .. Len(s) + 1 : b[i] = g[t[i]]
  BY <1>1, <1>3, <1>4
<1>6. b = [i \in 1 .. Len(s) + 1 |-> b[i]]
  BY <1>3
<1>7. b = Numbers(g, t)
  BY <1>1, <1>5, <1>6 DEF Numbers
<1>. QED
  BY <1>2, <1>7 DEF t, b

(* To add the numbers of the terms that are taken is to add, for each      *)
(* term, its number or nothing.                                            *)
LEMMA ThoseTotal ==
  ASSUME NEW S, NEW s \in Seq(S), NEW set, NEW g \in [S -> Nat]
  PROVE  Total(Numbers(g, Those(s, set)))
           = Total([i \in DOMAIN s |-> IF s[i] \in set THEN g[s[i]] ELSE 0])
<1>. DEFINE all == [i \in DOMAIN s |-> IF s[i] \in set THEN g[s[i]] ELSE 0]
<1>1. PICK n \in Nat : n = Len(s)
  OBVIOUS
<1>2. DOMAIN s = 1 .. n /\ \A k \in 1 .. n : s[k] \in S
  BY <1>1
<1>3. all \in Seq(Nat) /\ Len(all) = n
  BY <1>1, <1>2
<1>4. \A k \in 1 .. n : all[k] = IF s[k] \in set THEN g[s[k]] ELSE 0
  BY <1>2
<1>. HIDE DEF all
<1>5. PICK f : IsThose(f, S, s, set) /\ Those(s, set) = f[n]
  BY <1>1, ThoseIs
<1>6. /\ \A k \in 0 .. n : f[k] \in Seq(S)
      /\ f[0] = << >>
      /\ \A k \in 1 .. n : f[k] = IF s[k] \in set THEN Append(f[k - 1], s[k]) ELSE f[k - 1]
  BY <1>1, <1>5 DEF IsThose
<1>7. PICK h : AreSums(h, all) /\ Total(all) = h[n]
  BY <1>3, TotalIs
<1>8. /\ h \in [0 .. n -> Nat] /\ h[0] = 0
      /\ \A k \in 1 .. n : h[k] = h[k - 1] + all[k]
  BY <1>3, <1>7 DEF AreSums
<1>. DEFINE A == {k \in 0 .. n : Total(Numbers(g, f[k])) = h[k]}
<1>9. 0 \in A
  <2>1. Numbers(g, << >>) = << >>
    BY DEF Numbers
  <2>. QED
    BY <1>1, <1>6, <1>8, <2>1, TotalEmpty
<1>10. ASSUME NEW k \in 1 .. n, k - 1 \in A
       PROVE  k \in A
  <2>1. k \in 0 .. n /\ k - 1 \in 0 .. n
    BY <1>1
  <2>2. f[k - 1] \in Seq(S) /\ s[k] \in S /\ h[k - 1] \in Nat
    BY <1>2, <1>6, <1>8, <2>1
  <2>3. Total(Numbers(g, f[k - 1])) = h[k - 1]
    BY <1>10
  <2>4. h[k] = h[k - 1] + all[k]
    BY <1>8
  <2>5. CASE s[k] \in set
    <3>1. f[k] = Append(f[k - 1], s[k]) /\ all[k] = g[s[k]]
      BY <1>4, <1>6, <2>5
    <3>2. /\ Numbers(g, f[k - 1]) \in Seq(Nat)
          /\ Numbers(g, f[k]) = Append(Numbers(g, f[k - 1]), g[s[k]])
      BY <2>2, <3>1, NumbersAppend
    <3>3. g[s[k]] \in Nat
      BY <2>2
    <3>4. Total(Numbers(g, f[k])) = Total(Numbers(g, f[k - 1])) + g[s[k]]
      BY <3>2, <3>3, TotalAppend
    <3>. QED
      BY <2>1, <2>3, <2>4, <3>1, <3>4
  <2>6. CASE s[k] \notin set
    <3>1. f[k] = f[k - 1] /\ all[k] = 0
      BY <1>4, <1>6, <2>6
    <3>. QED
      BY <2>1, <2>2, <2>3, <2>4, <3>1
  <2>. QED
    BY <2>5, <2>6
<1>. HIDE DEF A
<1>11. \A k \in 0 .. n : k \in A
  BY <1>1, <1>9, <1>10, UpTo
<1>12. n \in 0 .. n
  BY <1>1
<1>13. Total(Numbers(g, f[n])) = h[n]
  BY <1>11, <1>12 DEF A
<1>. QED
  BY <1>5, <1>7, <1>13 DEF all

-----------------------------------------------------------------------------
(* What an element is, a child in a file, and what a checksum is of.       *)
Element ==
  {e \in [class : Class, value : 0 .. 255, size : 0 .. 8] :
     e.value \in Value[e.class] /\ e.size \in DefaultSize[e.class]}

Child ==
  {c \in [class : Class, value : 0 .. 255, octets : 1 .. 8] :
     c.class \notin Deprecated /\ c.value \in Value[c.class]}

Covered == [class : Class, value : 0 .. 256, octets : 1 .. 8]

(* What a reader makes of a child.                                         *)
ReadFrom(c) == [class |-> c.class, value |-> c.value, size |-> 0]

(* Every class has the value and the size 0, and values of one octet.      *)
LEMMA ClassFacts ==
  /\ Semantic[1] \in Class /\ Mandatory \subseteq Class /\ HasDefault \subseteq Class
  /\ \A c \in Class : /\ 0 \in Value[c] /\ Value[c] \subseteq 0 .. 255
                      /\ 0 \in DefaultSize[c] /\ DefaultSize[c] \subseteq 0 .. 8
<1>1. 1 \in DOMAIN Semantic
  BY SemanticAssumption
<1>2. Semantic[1] \in Class
  BY <1>1 DEF Class, ToSet
<1>3. Mandatory \subseteq Class /\ HasDefault \subseteq Class
  BY SemanticAssumption DEF Class
<1>4. \A c \in Class : 0 \in Value[c] /\ Value[c] \subseteq 0 .. 255
  BY ValueAssumption DEF Class
<1>5. \A c \in Class : 0 \in DefaultSize[c] /\ DefaultSize[c] \subseteq 0 .. 8
  BY DefaultSizeAssumption DEF Class
<1>. QED
  BY <1>2, <1>3, <1>4, <1>5

(* What memory without an element has is in the type of the elements.      *)
LEMMA FreedIsElement == Freed \in Element
<1>1. Freed \in [class : Class, value : 0 .. 255, size : 0 .. 8]
  BY ClassFacts DEF Freed
<1>2. Freed.class = Semantic[1] /\ Freed.value = 0 /\ Freed.size = 0
  BY DEF Freed
<1>. QED
  BY <1>1, <1>2, ClassFacts DEF Element

(* So is what new makes.                                                   *)
LEMMA MadeIsElement ==
  ASSUME NEW c \in Class, NEW e \in Made(c)
  PROVE  e \in Element
<1>1. /\ e \in [class : {c}, value : IF c \in HasDefault THEN {0} ELSE Value[c], size : {0}]
      /\ e.class = c /\ e.size = 0 /\ e.value \in Value[c]
  BY ClassFacts DEF Made
<1>2. e \in [class : Class, value : 0 .. 255, size : 0 .. 8]
  BY <1>1, ClassFacts
<1>. QED
  BY <1>1, <1>2, ClassFacts DEF Element

(* So is what a reader makes, which it can write again.                    *)
LEMMA ReadFromIsElement ==
  ASSUME NEW c \in Child
  PROVE  ReadFrom(c) \in Element /\ \A f \in Filter : f = "WriteAll" => CanWrite(ReadFrom(c), f)
<1>1. c.class \in Class /\ c.class \notin Deprecated /\ c.value \in Value[c.class]
      /\ c.value \in 0 .. 255
  BY DEF Child
<1>2. /\ ReadFrom(c) \in [class : Class, value : 0 .. 255, size : 0 .. 8]
      /\ ReadFrom(c).class = c.class /\ ReadFrom(c).value = c.value /\ ReadFrom(c).size = 0
  BY <1>1 DEF ReadFrom
<1>3. ReadFrom(c) \in Element
  BY <1>1, <1>2, ClassFacts DEF Element
<1>. QED
  BY <1>1, <1>2, <1>3 DEF CanWrite

(* What is written of an element that can be written is a child.           *)
LEMMA RenderedIsChild ==
  ASSUME NEW e \in Element, NEW f
  PROVE  /\ Rendered(e).octets \in 1 .. 8
         /\ CanWrite(e, f) => Rendered(e) \in Child
<1>1. /\ e.class \in Class /\ e.value \in 0 .. 255 /\ e.size \in 0 .. 8
      /\ e.value \in Value[e.class]
  BY DEF Element
<1>2. /\ Rendered(e) \in [class : Class, value : 0 .. 255, octets : 1 .. 8]
      /\ Rendered(e).class = e.class /\ Rendered(e).value = e.value
      /\ Rendered(e).octets \in 1 .. 8
  BY <1>1 DEF Rendered
<1>3. CanWrite(e, f) => e.class \notin Deprecated
  BY DEF CanWrite
<1>. QED
  BY <1>1, <1>2, <1>3 DEF Child

(* What UpdateSize counts for each element.                                *)
Counted(contents, f) ==
  [i \in DOMAIN contents |->
     IF CanWrite(contents[i], f) THEN HeadSize + Rendered(contents[i]).octets ELSE 0]

(* What is written of some elements: children, each element that can be    *)
(* written among them, of the octets UpdateSize counts.                    *)
LEMMA WrittenFacts ==
  ASSUME NEW contents \in Seq(Element), NEW f
  PROVE  /\ Written(contents, f) \in Seq(Child)
         /\ Octets(Written(contents, f)) = Total(Counted(contents, f))
         /\ Total(Counted(contents, f)) \in Nat
         /\ \A i \in DOMAIN contents : CanWrite(contents[i], f) =>
              \E j \in DOMAIN Written(contents, f) :
                Written(contents, f)[j] = Rendered(contents[i])
         /\ (\A i \in DOMAIN contents : CanWrite(contents[i], f)) =>
              Written(contents, f) = [i \in DOMAIN contents |-> Rendered(contents[i])]
<1>. DEFINE set == {e \in ToSet(contents) : CanWrite(e, f)}
            kept == Those(contents, set)
            counted == Counted(contents, f)
            g == [e \in Element |-> HeadSize + Rendered(e).octets]
            w == Written(contents, f)
<1>1. w = [i \in DOMAIN kept |-> Rendered(kept[i])]
  BY DEF Written
<1>2. \A i \in DOMAIN contents : /\ contents[i] \in Element
                                 /\ contents[i] \in set <=> CanWrite(contents[i], f)
  BY DEF ToSet
<1>3. /\ kept \in Seq(Element) /\ ToSet(kept) = ToSet(contents) \cap set
      /\ ToSet(contents) \subseteq set => kept = contents
  <2>. HIDE DEF set
  <2>. QED
    BY ThoseFacts
<1>4. \A i \in DOMAIN kept : kept[i] \in Element /\ CanWrite(kept[i], f)
  <2>. HIDE DEF kept
  <2>1. \A i \in DOMAIN kept : kept[i] \in ToSet(kept)
    BY DEF ToSet
  <2>2. \A i \in DOMAIN kept : kept[i] \in Element
    BY <1>3
  <2>. QED
    BY <1>3, <2>1, <2>2
<1>5. g \in [Element -> Nat]
  <2>1. ASSUME NEW e \in Element
        PROVE  HeadSize + Rendered(e).octets \in Nat
    BY RenderedIsChild DEF HeadSize
  <2>. QED
    BY <2>1
<1>6. Total(Numbers(g, kept))
        = Total([i \in DOMAIN contents |-> IF contents[i] \in set THEN g[contents[i]] ELSE 0])
  <2>. HIDE DEF set, g
  <2>. QED
    BY <1>5, ThoseTotal
<1>. HIDE DEF kept, w
<1>7. w \in Seq(Child)
  <2>1. kept \in Seq(Element) /\ DOMAIN kept = 1 .. Len(kept) /\ Len(kept) \in Nat
    BY <1>3
  <2>2. \A i \in 1 .. Len(kept) : Rendered(kept[i]) \in Child
    BY <1>4, <2>1, RenderedIsChild
  <2>. QED
    BY <1>1, <2>1, <2>2
<1>8. Octets(w) = Total(Numbers(g, kept))
  <2>1. DOMAIN w = DOMAIN kept /\ \A i \in DOMAIN kept : w[i] = Rendered(kept[i])
    BY <1>1
  <2>2. \A i \in DOMAIN kept : HeadSize + w[i].octets = g[kept[i]]
    BY <1>4, <2>1
  <2>. HIDE DEF g
  <2>3. [i \in DOMAIN w |-> HeadSize + w[i].octets] = Numbers(g, kept)
    BY <2>1, <2>2 DEF Numbers
  <2>. QED
    BY <2>3 DEF Octets
<1>9. counted = [i \in DOMAIN contents |-> IF contents[i] \in set THEN g[contents[i]] ELSE 0]
  <2>1. \A i \in DOMAIN contents : g[contents[i]] = HeadSize + Rendered(contents[i]).octets
    BY <1>2
  <2>. HIDE DEF set, g
  <2>. QED
    BY <1>2, <2>1 DEF Counted
<1>10. counted \in Seq(Nat)
  <2>1. ASSUME NEW i \in DOMAIN contents
        PROVE  HeadSize + Rendered(contents[i]).octets \in Nat
    BY <1>2, RenderedIsChild DEF HeadSize
  <2>2. DOMAIN contents = 1 .. Len(contents) /\ Len(contents) \in Nat
    OBVIOUS
  <2>. QED
    BY <2>1, <2>2 DEF Counted
<1>11. ASSUME NEW i \in DOMAIN contents, CanWrite(contents[i], f)
       PROVE  \E j \in DOMAIN w : w[j] = Rendered(contents[i])
  <2>1. contents[i] \in ToSet(kept)
    BY <1>2, <1>3, <1>11 DEF ToSet
  <2>2. PICK j \in DOMAIN kept : kept[j] = contents[i]
    BY <2>1 DEF ToSet
  <2>. QED
    BY <1>1, <2>2
<1>12. ASSUME \A i \in DOMAIN contents : CanWrite(contents[i], f)
       PROVE  w = [i \in DOMAIN contents |-> Rendered(contents[i])]
  <2>1. ToSet(contents) \subseteq set
    BY <1>2, <1>12 DEF ToSet
  <2>2. kept = contents
    BY <1>3, <2>1
  <2>. QED
    BY <1>1, <2>2
<1>13. Octets(w) = Total(counted) /\ Total(counted) \in Nat
  <2>. HIDE DEF counted, g, set
  <2>. QED
    BY <1>6, <1>8, <1>9, <1>10, TotalType
<1>. QED
  BY <1>7, <1>11, <1>12, <1>13 DEF w

-----------------------------------------------------------------------------
(* The rest keeps its order.                                               *)
LEMMA RemoveFacts ==
  ASSUME NEW S, NEW l \in Seq(S), NEW i \in DOMAIN l, IsInjective(l)
  PROVE  LET r == RemoveAt(l, i)
         IN  /\ r \in Seq(S) /\ Len(r) = Len(l) - 1 /\ DOMAIN r = 1 .. Len(l) - 1
             /\ \A j \in DOMAIN r : r[j] = IF j < i THEN l[j] ELSE l[j + 1]
             /\ IsInjective(r)
             /\ ToSet(r) = ToSet(l) \ {l[i]}
<1>. DEFINE r == RemoveAt(l, i)
            before == SubSeq(l, 1, i - 1)
            after == SubSeq(l, i + 1, Len(l))
<1>1. /\ DOMAIN l = 1 .. Len(l) /\ Len(l) \in Nat /\ i \in 1 .. Len(l)
      /\ \A j \in 1 .. Len(l) : l[j] \in S
  OBVIOUS
<1>2. /\ before \in Seq(S) /\ Len(before) = i - 1
      /\ \A j \in 1 .. i - 1 : before[j] = l[j]
  BY <1>1, SubSeqProperties
<1>3. /\ after \in Seq(S) /\ Len(after) = Len(l) - i
      /\ \A j \in 1 .. Len(l) - i : after[j] = l[i + j]
  <2>1. \A j \in i + 1 .. Len(l) : l[j] \in S
    BY <1>1
  <2>2. /\ after \in Seq(S)
        /\ Len(after) = IF i + 1 <= Len(l) THEN Len(l) - (i + 1) + 1 ELSE 0
        /\ \A j \in 1 .. Len(l) - (i + 1) + 1 : after[j] = l[i + 1 + j - 1]
    BY <1>1, <2>1, SubSeqProperties
  <2>. HIDE DEF after
  <2>3. ASSUME NEW j \in 1 .. Len(l) - i
        PROVE  after[j] = l[i + j]
    <3>1. j \in 1 .. Len(l) - (i + 1) + 1 /\ i + 1 + j - 1 = i + j
      BY <1>1
    <3>. QED
      BY <2>2, <3>1
  <2>. QED
    BY <1>1, <2>2, <2>3
<1>. HIDE DEF before, after, r
<1>4. /\ r \in Seq(S) /\ Len(r) = Len(l) - 1
      /\ \A j \in 1 .. Len(l) - 1 : r[j] = IF j < i THEN l[j] ELSE l[j + 1]
  <2>1. r = before \o after
    BY DEF RemoveAt, before, after, r
  <2>2. /\ r \in Seq(S) /\ Len(r) = Len(before) + Len(after)
        /\ \A j \in 1 .. Len(before) + Len(after) :
             r[j] = IF j <= Len(before) THEN before[j] ELSE after[j - Len(before)]
    BY <1>2, <1>3, <2>1, ConcatProperties
  <2>3. Len(r) = Len(l) - 1 /\ Len(before) + Len(after) = Len(l) - 1
    BY <1>1, <1>2, <1>3, <2>2
  <2>4. ASSUME NEW j \in 1 .. Len(l) - 1
        PROVE  r[j] = IF j < i THEN l[j] ELSE l[j + 1]
    <3>1. r[j] = IF j <= i - 1 THEN before[j] ELSE after[j - (i - 1)]
      BY <1>2, <2>2, <2>3
    <3>2. CASE j < i
      BY <1>1, <1>2, <3>1, <3>2
    <3>3. CASE j >= i
      <4>1. j - (i - 1) \in 1 .. Len(l) - i /\ i + (j - (i - 1)) = j + 1
        BY <1>1, <3>3
      <4>2. after[j - (i - 1)] = l[j + 1]
        BY <1>3, <4>1
      <4>. QED
        BY <1>1, <3>1, <3>3, <4>2
    <3>. QED
      BY <1>1, <3>2, <3>3
  <2>. QED
    BY <2>2, <2>3, <2>4
<1>5. DOMAIN r = 1 .. Len(l) - 1
  BY <1>4
<1>6. IsInjective(r)
  <2>1. ASSUME NEW j \in DOMAIN r, NEW k \in DOMAIN r, r[j] = r[k], j < k
        PROVE  FALSE
    <3>1. j \in 1 .. Len(l) - 1 /\ k \in 1 .. Len(l) - 1 /\ i \in Int /\ Len(l) \in Nat
      BY <1>1, <1>5
    <3>2. PICK p \in 1 .. Len(l) : r[j] = l[p] /\ p \in {j, j + 1} /\ (p = j + 1 => j >= i)
      <4>1. CASE j < i
        BY <1>4, <3>1, <4>1
      <4>2. CASE j >= i
        <5>1. j + 1 \in 1 .. Len(l) /\ r[j] = l[j + 1]
          BY <1>4, <3>1, <4>2
        <5>. QED
          BY <4>2, <5>1
      <4>. QED
        BY <3>1, <4>1, <4>2
    <3>3. PICK q \in 1 .. Len(l) : r[k] = l[q] /\ q \in {k, k + 1} /\ (q = k => k < i)
      <4>1. CASE k < i
        BY <1>4, <3>1, <4>1
      <4>2. CASE k >= i
        <5>1. k + 1 \in 1 .. Len(l) /\ r[k] = l[k + 1]
          BY <1>4, <3>1, <4>2
        <5>. QED
          BY <4>2, <5>1
      <4>. QED
        BY <3>1, <4>1, <4>2
    <3>4. p # q
      BY <2>1, <3>1, <3>2, <3>3
    <3>5. l[p] = l[q] /\ p \in DOMAIN l /\ q \in DOMAIN l
      BY <1>1, <2>1, <3>2, <3>3
    <3>. QED
      BY <3>4, <3>5 DEF IsInjective
  <2>2. \A j, k \in DOMAIN r : j < k \/ j = k \/ k < j
    BY <1>5
  <2>. QED
    BY <2>1, <2>2 DEF IsInjective
<1>7. ToSet(r) \subseteq ToSet(l) \ {l[i]}
  <2>1. \A j \in DOMAIN r : \E k \in DOMAIN l : r[j] = l[k] /\ k # i
    BY <1>1, <1>4, <1>5
  <2>. QED
    BY <2>1 DEF ToSet, IsInjective
<1>8. ToSet(l) \ {l[i]} \subseteq ToSet(r)
  <2>1. \A k \in DOMAIN l : k # i => \E j \in DOMAIN r : r[j] = l[k]
    <3>1. SUFFICES ASSUME NEW k \in DOMAIN l, k # i
                   PROVE  \E j \in DOMAIN r : r[j] = l[k]
      OBVIOUS
    <3>2. CASE k < i
      BY <1>1, <1>4, <1>5, <3>2
    <3>3. CASE k > i
      <4>1. k - 1 \in DOMAIN r /\ r[k - 1] = l[k]
        BY <1>1, <1>4, <1>5, <3>3
      <4>. QED
        BY <4>1
    <3>. QED
      BY <1>1, <3>1, <3>2, <3>3
  <2>. QED
    BY <2>1 DEF ToSet
<1>. QED
  BY <1>4, <1>5, <1>6, <1>7, <1>8 DEF r

(* An element is inserted at its position.                                 *)
LEMMA InsertFacts ==
  ASSUME NEW S, NEW l \in Seq(S), NEW p \in 1 .. Len(l) + 1, NEW e \in S,
         IsInjective(l), e \notin ToSet(l)
  PROVE  LET r == InsertAt(l, p, e)
         IN  r \in Seq(S) /\ IsInjective(r) /\ ToSet(r) = ToSet(l) \cup {e}
<1>. DEFINE r == InsertAt(l, p, e)
            before == SubSeq(l, 1, p - 1)
            after == SubSeq(l, p, Len(l))
            middle == before \o <<e>>
<1>1. PICK n \in Nat : n = Len(l)
  OBVIOUS
<1>2. DOMAIN l = 1 .. n /\ p \in 1 .. n + 1 /\ \A j \in 1 .. n : l[j] \in S
  BY <1>1
<1>3. /\ before \in Seq(S) /\ Len(before) = p - 1
      /\ \A j \in 1 .. p - 1 : before[j] = l[j]
  <2>1. \A j \in 1 .. p - 1 : l[j] \in S
    BY <1>1, <1>2
  <2>. QED
    BY <1>1, <1>2, <2>1, SubSeqProperties
<1>4. /\ after \in Seq(S) /\ Len(after) = n - p + 1
      /\ \A j \in 1 .. n - p + 1 : after[j] = l[p + j - 1]
  <2>1. \A j \in p .. n : l[j] \in S
    BY <1>1, <1>2
  <2>2. /\ after \in Seq(S) /\ Len(after) = IF p <= n THEN n - p + 1 ELSE 0
        /\ \A j \in 1 .. n - p + 1 : after[j] = l[p + j - 1]
    BY <1>1, <1>2, <2>1, SubSeqProperties
  <2>. HIDE DEF after
  <2>. QED
    BY <1>1, <1>2, <2>2
<1>. HIDE DEF before, after, r
<1>5. /\ middle \in Seq(S) /\ Len(middle) = p
      /\ \A j \in 1 .. p : middle[j] = IF j < p THEN l[j] ELSE e
  <2>1. <<e>> \in Seq(S) /\ Len(<<e>>) = 1 /\ <<e>>[1] = e
    OBVIOUS
  <2>2. /\ middle \in Seq(S) /\ Len(middle) = Len(before) + 1
        /\ \A j \in 1 .. Len(before) + 1 :
             middle[j] = IF j <= Len(before) THEN before[j] ELSE <<e>>[j - Len(before)]
    BY <1>3, <2>1, ConcatProperties
  <2>. HIDE DEF middle
  <2>3. ASSUME NEW j \in 1 .. p
        PROVE  middle[j] = IF j < p THEN l[j] ELSE e
    <3>1. middle[j] = IF j <= p - 1 THEN before[j] ELSE <<e>>[j - (p - 1)]
      BY <1>1, <1>2, <1>3, <2>2
    <3>2. CASE j < p
      BY <1>2, <1>3, <3>1, <3>2
    <3>3. CASE j = p
      <4>1. j - (p - 1) = 1 /\ ~ (j <= p - 1)
        BY <1>1, <1>2, <3>3
      <4>. QED
        BY <2>1, <3>1, <3>3, <4>1
    <3>. QED
      BY <1>1, <1>2, <3>2, <3>3
  <2>4. Len(middle) = p
    BY <1>1, <1>2, <1>3, <2>2
  <2>. QED
    BY <2>2, <2>3, <2>4
<1>. HIDE DEF middle
<1>6. /\ r \in Seq(S) /\ Len(r) = n + 1
      /\ \A j \in 1 .. n + 1 : r[j] = IF j < p THEN l[j] ELSE IF j = p THEN e ELSE l[j - 1]
  <2>1. r = middle \o after
    BY DEF InsertAt, before, after, middle, r
  <2>2. /\ r \in Seq(S) /\ Len(r) = Len(middle) + Len(after)
        /\ \A j \in 1 .. Len(middle) + Len(after) :
             r[j] = IF j <= Len(middle) THEN middle[j] ELSE after[j - Len(middle)]
    BY <1>4, <1>5, <2>1, ConcatProperties
  <2>3. Len(r) = n + 1 /\ Len(middle) + Len(after) = n + 1
    BY <1>1, <1>2, <1>4, <1>5, <2>2
  <2>4. ASSUME NEW j \in 1 .. n + 1
        PROVE  r[j] = IF j < p THEN l[j] ELSE IF j = p THEN e ELSE l[j - 1]
    <3>1. r[j] = IF j <= p THEN middle[j] ELSE after[j - p]
      BY <1>5, <2>2, <2>3
    <3>2. CASE j <= p
      BY <1>1, <1>2, <1>5, <3>1, <3>2
    <3>3. CASE j > p
      <4>1. j - p \in 1 .. n - p + 1 /\ p + (j - p) - 1 = j - 1
        BY <1>1, <1>2, <3>3
      <4>2. after[j - p] = l[j - 1]
        BY <1>4, <4>1
      <4>. QED
        BY <1>1, <1>2, <3>1, <3>3, <4>2
    <3>. QED
      BY <1>1, <1>2, <3>2, <3>3
  <2>. QED
    BY <2>2, <2>3, <2>4
<1>7. DOMAIN r = 1 .. n + 1
  BY <1>1, <1>6
<1>8. \A j \in DOMAIN r : j # p => \E k \in DOMAIN l : r[j] = l[k] /\ k = IF j < p THEN j ELSE j - 1
  BY <1>1, <1>2, <1>6, <1>7
<1>9. p \in DOMAIN r /\ r[p] = e
  BY <1>1, <1>2, <1>6, <1>7
<1>10. \A k \in DOMAIN l : l[k] # e
  BY DEF ToSet
<1>11. IsInjective(r)
  <2>1. SUFFICES ASSUME NEW i \in DOMAIN r, NEW j \in DOMAIN r, r[i] = r[j], i # j
                 PROVE  FALSE
    BY DEF IsInjective
  <2>2. CASE i = p
    BY <1>8, <1>9, <1>10, <2>1, <2>2
  <2>3. CASE j = p
    BY <1>8, <1>9, <1>10, <2>1, <2>3
  <2>4. CASE i # p /\ j # p
    <3>1. PICK k \in DOMAIN l : r[i] = l[k] /\ k = IF i < p THEN i ELSE i - 1
      BY <1>8, <2>4
    <3>2. PICK m \in DOMAIN l : r[j] = l[m] /\ m = IF j < p THEN j ELSE j - 1
      BY <1>8, <2>4
    <3>3. k = m
      BY <2>1, <3>1, <3>2 DEF IsInjective
    <3>. QED
      BY <1>1, <1>2, <1>7, <2>1, <2>4, <3>1, <3>2, <3>3
  <2>. QED
    BY <2>2, <2>3, <2>4
<1>12. ToSet(r) \subseteq ToSet(l) \cup {e}
  BY <1>8, <1>9 DEF ToSet
<1>13. ToSet(l) \cup {e} \subseteq ToSet(r)
  <2>1. ASSUME NEW k \in DOMAIN l
        PROVE  \E j \in DOMAIN r : r[j] = l[k]
    <3>1. CASE k < p
      <4>1. k \in DOMAIN r /\ r[k] = l[k]
        BY <1>1, <1>2, <1>6, <1>7, <3>1
      <4>. QED
        BY <4>1
    <3>2. CASE k >= p
      <4>1. k + 1 \in DOMAIN r /\ r[k + 1] = l[k]
        BY <1>1, <1>2, <1>6, <1>7, <3>2
      <4>. QED
        BY <4>1
    <3>. QED
      BY <1>1, <1>2, <3>1, <3>2
  <2>. QED
    BY <1>9, <2>1 DEF ToSet
<1>. QED
  BY <1>6, <1>11, <1>12, <1>13 DEF r

(* What new gives, as a list.                                              *)
LEMMA NewFacts ==
  ASSUME NEW n \in Nat, NEW free, NEW objects \in New(n, free)
  PROVE  /\ objects \in Seq(free) /\ Len(objects) = n /\ DOMAIN objects = 1 .. n
         /\ IsInjective(objects) /\ ToSet(objects) \subseteq free
<1>1. objects \in [1 .. n -> free] /\ IsInjective(objects)
  BY DEF New
<1>2. objects \in Seq(free) /\ Len(objects) = n
  BY <1>1
<1>. QED
  BY <1>1, <1>2 DEF ToSet

(* Any order of a finite set has each of its elements once.                *)
LEMMA OrderFacts ==
  ASSUME NEW S, IsFiniteSet(S), NEW l \in SetToSeqs(S)
  PROVE  l \in Seq(S) /\ IsInjective(l) /\ ToSet(l) = S
<1>. DEFINE D == 1 .. Cardinality(S)
<1>1. Cardinality(S) \in Nat
  BY FS_CardinalityType
<1>2. l \in [D -> S] /\ \A i, j \in D : i # j => l[i] # l[j]
  BY DEF SetToSeqs
<1>3. l \in Seq(S)
  BY <1>1, <1>2
<1>4. IsInjective(l)
  BY <1>2 DEF IsInjective
<1>5. l \in Injection(D, S)
  BY <1>2 DEF Injection, IsInjective
<1>6. Cardinality(D) = Cardinality(S)
  BY <1>1, FS_Interval
<1>7. l \in Surjection(D, S)
  BY <1>5, <1>6, FS_Injection
<1>8. \A x \in S : \E i \in D : l[i] = x
  BY <1>7 DEF Surjection
<1>9. ToSet(l) = S
  BY <1>2, <1>8 DEF ToSet
<1>. QED
  BY <1>3, <1>4, <1>9

(* A search finds a place where there is one.                              *)
LEMMA FindFirstFacts ==
  ASSUME NEW c
  PROVE  FindFirstElt(c) # 0 <=>
           \E i \in 1 .. Len(ElementList) : element[ElementList[i]].class = c
<1>. DEFINE I == {i \in 1 .. Len(ElementList) : element[ElementList[i]].class = c}
<1>1. FindFirstElt(c) = IF I # {} THEN Min(I) ELSE 0
  BY DEF FindFirstElt, SelectInSeq
<1>2. I \in SUBSET Nat /\ 0 \notin I
  OBVIOUS
<1>3. I # {} => Min(I) \in I
  <2>. HIDE DEF I
  <2>. QED
    BY <1>2, MinOfNaturals
<1>4. FindFirstElt(c) # 0 <=> I # {}
  <2>. HIDE DEF I
  <2>. QED
    BY <1>1, <1>2, <1>3
<1>. QED
  BY <1>4

(* The place of an object in a list that has it once.                      *)
Place(objects, o) == SelectInSeq(objects, LAMBDA p : p = o)

(* It is where the list has the object.                                    *)
LEMMA PlaceFacts ==
  ASSUME NEW S, NEW objects \in Seq(S), IsInjective(objects), NEW i \in DOMAIN objects
  PROVE  Place(objects, objects[i]) = i
<1>. DEFINE I == {k \in 1 .. Len(objects) : objects[k] = objects[i]}
<1>1. DOMAIN objects = 1 .. Len(objects) /\ Len(objects) \in Nat
  OBVIOUS
<1>2. I = {i} /\ I \in SUBSET Nat
  BY <1>1 DEF IsInjective
<1>3. Place(objects, objects[i]) = IF I # {} THEN Min(I) ELSE 0
  BY DEF Place, SelectInSeq
<1>. HIDE DEF I
<1>4. Min(I) \in I
  BY <1>2, MinOfNaturals
<1>. QED
  BY <1>2, <1>3, <1>4

-----------------------------------------------------------------------------
(* The list and the elements: each element is deleted by one owner.        *)
ListInv ==
  /\ ElementList \in Seq(Object) /\ caller \subseteq Object
  /\ element \in [Object -> Element]
  /\ \A o \in Free : element[o] = Freed
  /\ IsInjective(ElementList) /\ caller \cap ToSet(ElementList) = {}

FlagInv == bChecksumUsed \in BOOLEAN /\ asRead \in BOOLEAN

(* The file and its checksum.  When a value was changed, the checksum is   *)
(* of children of which one has another value.                             *)
FileInv ==
  /\ Checksum \in Seq(Covered)
  /\ file \in [written : BOOLEAN, size : Nat, crc : Seq(Seq(Covered)),
               children : Seq(Child), complete : BOOLEAN, changed : BOOLEAN]
  /\ SizeIsWritten
  /\ file.crc # << >> => file.crc = <<file.crc[1]>>
  /\ file.crc # << >> /\ file.children # << >> /\ ~ file.changed =>
       file.crc[1] = file.children
  /\ file.changed =>
       \E i \in DOMAIN file.children :
          file.crc # << >> => file.crc[1][i].value # file.children[i].value
  /\ file.complete =>
       \A c \in Mandatory \ HasDefault :
          \E i \in DOMAIN file.children : file.children[i].class = c

(* The list as it was read.                                                *)
ReadInv ==
  asRead =>
    /\ Len(ElementList) = Len(file.children)
    /\ \A i \in DOMAIN ElementList : element[ElementList[i]] = ReadFrom(file.children[i])
    /\ bChecksumUsed <=> file.crc # << >>
    /\ file.crc # << >> => Checksum = file.crc[1]

Inv == ListInv /\ FlagInv /\ FileInv /\ ReadInv

(* What only edits the list keeps the invariant when it keeps that of the  *)
(* list.                                                                   *)
LEMMA EditedKeeps ==
  ASSUME Inv, Edited, ListInv'
  PROVE  Inv'
<1>1. /\ asRead' = FALSE /\ bChecksumUsed' = bChecksumUsed
      /\ Checksum' = Checksum /\ file' = file
  BY DEF Edited
<1>2. FlagInv'
  BY <1>1 DEF Inv, FlagInv
<1>3. FileInv'
  BY <1>1 DEF Inv, FileInv, SizeIsWritten
<1>4. ReadInv'
  BY <1>1 DEF ReadInv
<1>. QED
  BY <1>2, <1>3, <1>4 DEF Inv

(* What leaves the list alone keeps its invariant.                         *)
LEMMA SameList ==
  ASSUME ListInv, UNCHANGED list
  PROVE  ListInv'
BY DEF ListInv, Free, list

(* ProcessMandatory makes elements of the classes of the context.          *)
LEMMA InitEstablishes == Init => Inv
<1>. SUFFICES ASSUME Init
              PROVE  Inv
  OBVIOUS
<1>. DEFINE classes == Those(Semantic, Mandatory \cap Unique)
<1>1. /\ ElementList \in New(Len(classes), Object) \cup {<< >>}
      /\ element \in [Object -> {Freed} \cup UNION {Made(c) : c \in Class}]
      /\ \A o \in Object \ ToSet(ElementList) : element[o] = Freed
      /\ caller = {} /\ bChecksumUsed = FALSE /\ Checksum = << >>
      /\ file = Nowhere /\ asRead = FALSE
  BY DEF Init
<1>2. Len(classes) \in Nat
  <2>1. classes \in Seq(STRING)
    BY SemanticAssumption, ThoseFacts
  <2>. QED
    BY <2>1
<1>. HIDE DEF classes
<1>3. ElementList \in Seq(Object) /\ IsInjective(ElementList)
  <2>1. CASE ElementList = << >>
    BY <2>1 DEF IsInjective
  <2>2. CASE ElementList \in New(Len(classes), Object)
    BY <1>2, <2>2, NewFacts
  <2>. QED
    BY <1>1, <2>1, <2>2
<1>4. element \in [Object -> Element]
  <2>1. \A e \in {Freed} \cup UNION {Made(c) : c \in Class} : e \in Element
    BY FreedIsElement, MadeIsElement
  <2>. QED
    BY <1>1, <2>1
<1>5. ListInv
  BY <1>1, <1>3, <1>4 DEF ListInv, Free
<1>6. FileInv
  <2>1. Checksum \in Seq(Covered)
    BY <1>1
  <2>2. << >> \in Seq(Seq(Covered)) /\ << >> \in Seq(Child)
    OBVIOUS
  <2>3. file \in [written : BOOLEAN, size : Nat, crc : Seq(Seq(Covered)),
                  children : Seq(Child), complete : BOOLEAN, changed : BOOLEAN]
    BY <1>1, <2>2 DEF Nowhere
  <2>4. /\ file.written = FALSE /\ file.crc = << >> /\ file.changed = FALSE
        /\ file.complete = FALSE
    BY <1>1 DEF Nowhere
  <2>. QED
    BY <2>1, <2>3, <2>4 DEF FileInv, SizeIsWritten
<1>. QED
  BY <1>1, <1>5, <1>6 DEF Inv, FlagInv, ReadInv

(* AddNewElt: the new element was free.                                    *)
LEMMA AddKeeps ==
  ASSUME Inv, NEW c \in Class, AddNewElt(c)
  PROVE  Inv'
<1>1. PICK o \in Free, e \in Made(c) :
        ElementList' = Append(ElementList, o) /\ element' = [element EXCEPT ![o] = e]
  BY DEF AddNewElt
<1>2. caller' = caller /\ Edited
  BY DEF AddNewElt
<1>3. /\ ElementList \in Seq(Object) /\ caller \subseteq Object
      /\ element \in [Object -> Element] /\ \A p \in Free : element[p] = Freed
      /\ IsInjective(ElementList) /\ caller \cap ToSet(ElementList) = {}
  BY DEF Inv, ListInv
<1>4. o \in Object /\ o \notin ToSet(ElementList) /\ o \notin caller /\ e \in Element
  BY <1>1, MadeIsElement DEF Free
<1>5. /\ ElementList' \in Seq(Object) /\ IsInjective(ElementList')
      /\ ToSet(ElementList') = ToSet(ElementList) \cup {o}
  BY <1>1, <1>3, <1>4, AppendOne
<1>6. element' \in [Object -> Element] /\ \A p \in Object \ {o} : element'[p] = element[p]
  BY <1>1, <1>3, <1>4
<1>7. Free' \subseteq Free \ {o}
  BY <1>2, <1>5 DEF Free
<1>8. ListInv'
  BY <1>2, <1>3, <1>4, <1>5, <1>6, <1>7 DEF ListInv, Free
<1>. QED
  BY <1>2, <1>8, EditedKeeps

(* PushElement and InsertElement: the element was the program's.           *)
LEMMA InsertKeeps ==
  ASSUME Inv, NEW o \in caller, NEW i \in 1 .. Len(ElementList) + 1, InsertElement(o, i)
  PROVE  Inv'
<1>1. /\ ElementList' = InsertAt(ElementList, i, o) /\ caller' = caller \ {o}
      /\ element' = element /\ Edited
  BY DEF InsertElement
<1>2. /\ ElementList \in Seq(Object) /\ caller \subseteq Object
      /\ element \in [Object -> Element] /\ \A p \in Free : element[p] = Freed
      /\ IsInjective(ElementList) /\ caller \cap ToSet(ElementList) = {}
  BY DEF Inv, ListInv
<1>3. o \in Object /\ o \notin ToSet(ElementList)
  BY <1>2
<1>4. /\ ElementList' \in Seq(Object) /\ IsInjective(ElementList')
      /\ ToSet(ElementList') = ToSet(ElementList) \cup {o}
  BY <1>1, <1>2, <1>3, InsertFacts
<1>5. ListInv'
  BY <1>1, <1>2, <1>3, <1>4 DEF ListInv, Free
<1>. QED
  BY <1>1, <1>5, EditedKeeps

(* Erase and Remove: the element becomes the program's.                    *)
LEMMA EraseKeeps ==
  ASSUME Inv, NEW i \in DOMAIN ElementList, Erase(i)
  PROVE  Inv'
<1>1. /\ ElementList' = RemoveAt(ElementList, i) /\ caller' = caller \cup {ElementList[i]}
      /\ element' = element /\ Edited
  BY DEF Erase
<1>2. /\ ElementList \in Seq(Object) /\ caller \subseteq Object
      /\ element \in [Object -> Element] /\ \A p \in Free : element[p] = Freed
      /\ IsInjective(ElementList) /\ caller \cap ToSet(ElementList) = {}
  BY DEF Inv, ListInv
<1>3. ElementList[i] \in Object /\ ElementList[i] \in ToSet(ElementList)
  BY <1>2 DEF ToSet
<1>4. /\ ElementList' \in Seq(Object) /\ IsInjective(ElementList')
      /\ ToSet(ElementList') = ToSet(ElementList) \ {ElementList[i]}
  BY <1>1, <1>2, RemoveFacts
<1>5. ListInv'
  BY <1>1, <1>2, <1>3, <1>4 DEF ListInv, Free
<1>. QED
  BY <1>1, <1>5, EditedKeeps

(* RemoveAll: all of them do.                                              *)
LEMMA RemoveAllKeeps ==
  ASSUME Inv, RemoveAll
  PROVE  Inv'
<1>1. /\ ElementList' = << >> /\ caller' = caller \cup ToSet(ElementList)
      /\ element' = element /\ Edited
  BY DEF RemoveAll
<1>2. /\ ElementList \in Seq(Object) /\ caller \subseteq Object
      /\ element \in [Object -> Element] /\ \A p \in Free : element[p] = Freed
      /\ IsInjective(ElementList) /\ caller \cap ToSet(ElementList) = {}
  BY DEF Inv, ListInv
<1>3. ToSet(ElementList) \subseteq Object
  BY <1>2 DEF ToSet
<1>4. ElementList' \in Seq(Object) /\ IsInjective(ElementList') /\ ToSet(ElementList') = {}
  BY <1>1 DEF IsInjective, ToSet
<1>5. ListInv'
  BY <1>1, <1>2, <1>3, <1>4 DEF ListInv, Free
<1>. QED
  BY <1>1, <1>5, EditedKeeps

(* Sort: any order of the same elements.                                   *)
LEMMA SortKeeps ==
  ASSUME Inv, Sort
  PROVE  Inv'
<1>1. /\ ElementList' \in SetToSeqs(ToSet(ElementList)) /\ caller' = caller
      /\ element' = element /\ Edited
  BY DEF Sort
<1>2. /\ ElementList \in Seq(Object) /\ caller \subseteq Object
      /\ element \in [Object -> Element] /\ \A p \in Free : element[p] = Freed
      /\ IsInjective(ElementList) /\ caller \cap ToSet(ElementList) = {}
  BY DEF Inv, ListInv
<1>3. ToSet(ElementList) \subseteq Object
  BY <1>2 DEF ToSet
<1>4. IsFiniteSet(ToSet(ElementList))
  BY <1>3, ObjectAssumption, FS_Subset
<1>5. /\ ElementList' \in Seq(ToSet(ElementList)) /\ IsInjective(ElementList')
      /\ ToSet(ElementList') = ToSet(ElementList)
  <2>. DEFINE S == ToSet(ElementList)
  <2>1. IsFiniteSet(S) /\ ElementList' \in SetToSeqs(S)
    BY <1>1, <1>4
  <2>. HIDE DEF S
  <2>2. ElementList' \in Seq(S) /\ IsInjective(ElementList') /\ ToSet(ElementList') = S
    BY <2>1, OrderFacts
  <2>. QED
    BY <2>2 DEF S
<1>6. ElementList' \in Seq(Object)
  BY <1>3, <1>5
<1>7. ListInv'
  BY <1>1, <1>2, <1>5, <1>6 DEF ListInv, Free
<1>. QED
  BY <1>1, <1>7, EditedKeeps

(* A value of the class is a value of the class.                           *)
LEMMA SetValueKeeps ==
  ASSUME Inv, NEW o \in ToSet(ElementList), NEW v \in Value[element[o].class], SetValue(o, v)
  PROVE  Inv'
<1>1. /\ element' = [element EXCEPT ![o].value = v]
      /\ ElementList' = ElementList /\ caller' = caller /\ Edited
  BY DEF SetValue
<1>2. /\ ElementList \in Seq(Object) /\ caller \subseteq Object
      /\ element \in [Object -> Element] /\ \A p \in Free : element[p] = Freed
      /\ IsInjective(ElementList) /\ caller \cap ToSet(ElementList) = {}
  BY DEF Inv, ListInv
<1>3. o \in Object /\ o \notin Free
  BY <1>2 DEF ToSet, Free
<1>. DEFINE e == [element[o] EXCEPT !.value = v]
<1>4. e \in Element
  <2>1. /\ element[o] \in [class : Class, value : 0 .. 255, size : 0 .. 8]
        /\ element[o].class \in Class
        /\ element[o].size \in DefaultSize[element[o].class]
    BY <1>2, <1>3 DEF Element
  <2>2. v \in 0 .. 255
    BY <2>1, ClassFacts
  <2>3. /\ e \in [class : Class, value : 0 .. 255, size : 0 .. 8]
        /\ e.class = element[o].class /\ e.value = v /\ e.size = element[o].size
    BY <2>1, <2>2
  <2>. QED
    BY <2>1, <2>3 DEF Element
<1>5. element' = [element EXCEPT ![o] = e]
  BY <1>1, <1>2, <1>3
<1>. HIDE DEF e
<1>6. element' \in [Object -> Element] /\ \A p \in Object \ {o} : element'[p] = element[p]
  BY <1>2, <1>3, <1>4, <1>5
<1>7. Free' = Free
  BY <1>1 DEF Free
<1>8. \A p \in Free : p \in Object \ {o}
  BY <1>3 DEF Free
<1>9. ListInv'
  BY <1>1, <1>2, <1>6, <1>7, <1>8 DEF ListInv
<1>. QED
  BY <1>1, <1>9, EditedKeeps

(* So is a size.                                                           *)
LEMMA SetDefaultSizeKeeps ==
  ASSUME Inv, NEW o \in ToSet(ElementList), NEW n \in DefaultSize[element[o].class],
         SetDefaultSize(o, n)
  PROVE  Inv'
<1>1. /\ element' = [element EXCEPT ![o].size = n]
      /\ ElementList' = ElementList /\ caller' = caller /\ Edited
  BY DEF SetDefaultSize
<1>2. /\ ElementList \in Seq(Object) /\ caller \subseteq Object
      /\ element \in [Object -> Element] /\ \A p \in Free : element[p] = Freed
      /\ IsInjective(ElementList) /\ caller \cap ToSet(ElementList) = {}
  BY DEF Inv, ListInv
<1>3. o \in Object /\ o \notin Free
  BY <1>2 DEF ToSet, Free
<1>. DEFINE e == [element[o] EXCEPT !.size = n]
<1>4. e \in Element
  <2>1. /\ element[o] \in [class : Class, value : 0 .. 255, size : 0 .. 8]
        /\ element[o].class \in Class
        /\ element[o].value \in Value[element[o].class]
    BY <1>2, <1>3 DEF Element
  <2>2. n \in 0 .. 8
    BY <2>1, ClassFacts
  <2>3. /\ e \in [class : Class, value : 0 .. 255, size : 0 .. 8]
        /\ e.class = element[o].class /\ e.value = element[o].value /\ e.size = n
    BY <2>1, <2>2
  <2>. QED
    BY <2>1, <2>3 DEF Element
<1>5. element' = [element EXCEPT ![o] = e]
  BY <1>1, <1>2, <1>3
<1>. HIDE DEF e
<1>6. element' \in [Object -> Element] /\ \A p \in Object \ {o} : element'[p] = element[p]
  BY <1>2, <1>3, <1>4, <1>5
<1>7. Free' = Free
  BY <1>1 DEF Free
<1>8. \A p \in Free : p \in Object \ {o}
  BY <1>3 DEF Free
<1>9. ListInv'
  BY <1>1, <1>2, <1>6, <1>7, <1>8 DEF ListInv
<1>. QED
  BY <1>1, <1>9, EditedKeeps

(* What the program deletes is not in the list, and what was read stays.   *)
LEMMA DeleteKeeps ==
  ASSUME Inv, NEW o \in caller, Delete(o)
  PROVE  Inv'
<1>1. /\ caller' = caller \ {o} /\ element' = [element EXCEPT ![o] = Freed]
      /\ ElementList' = ElementList /\ bChecksumUsed' = bChecksumUsed
      /\ Checksum' = Checksum /\ file' = file /\ asRead' = asRead
  BY DEF Delete
<1>2. /\ ElementList \in Seq(Object) /\ caller \subseteq Object
      /\ element \in [Object -> Element] /\ \A p \in Free : element[p] = Freed
      /\ IsInjective(ElementList) /\ caller \cap ToSet(ElementList) = {}
  BY DEF Inv, ListInv
<1>3. o \in Object /\ o \notin ToSet(ElementList)
  BY <1>2
<1>4. /\ element' \in [Object -> Element] /\ element'[o] = Freed
      /\ \A p \in Object \ {o} : element'[p] = element[p]
  BY <1>1, <1>2, <1>3, FreedIsElement
<1>5. ListInv'
  <2>1. \A p \in Free' : p = o \/ p \in Free
    BY <1>1 DEF Free
  <2>2. \A p \in Free' : element'[p] = Freed
    BY <1>2, <1>4, <2>1 DEF Free
  <2>. QED
    BY <1>1, <1>2, <1>4, <2>2 DEF ListInv
<1>6. FlagInv' /\ FileInv'
  BY <1>1 DEF Inv, FlagInv, FileInv, SizeIsWritten
<1>7. ReadInv'
  <2>1. \A i \in DOMAIN ElementList : ElementList[i] \in Object \ {o}
    BY <1>2, <1>3 DEF ToSet
  <2>2. \A i \in DOMAIN ElementList : element'[ElementList[i]] = element[ElementList[i]]
    BY <1>4, <2>1
  <2>. QED
    BY <1>1, <2>2 DEF Inv, ReadInv
<1>. QED
  BY <1>5, <1>6, <1>7 DEF Inv

-----------------------------------------------------------------------------
(* ForceChecksum: nothing was read with this checksum.                     *)
LEMMA ForceChecksumKeeps ==
  ASSUME Inv, ForceChecksum
  PROVE  Inv'
<1>1. /\ Checksum' = Forced /\ bChecksumUsed' = TRUE /\ asRead' = FALSE
      /\ UNCHANGED list /\ file' = file
  BY DEF ForceChecksum
<1>2. Forced \in Seq(Covered)
  <2>1. [class |-> Semantic[1], value |-> 256, octets |-> 1] \in Covered
    BY ClassFacts DEF Covered
  <2>. QED
    BY <2>1 DEF Forced
<1>3. ListInv'
  BY <1>1, SameList DEF Inv
<1>4. FileInv'
  BY <1>1, <1>2 DEF Inv, FileInv, SizeIsWritten
<1>. QED
  BY <1>1, <1>3, <1>4 DEF Inv, FlagInv, ReadInv

(* EnableChecksum: what was read is not the list's any more.               *)
LEMMA EnableChecksumKeeps ==
  ASSUME Inv, NEW b \in BOOLEAN, EnableChecksum(b)
  PROVE  Inv'
<1>1. /\ Checksum' = Checksum /\ bChecksumUsed' = b /\ asRead' = FALSE
      /\ UNCHANGED list /\ file' = file
  BY DEF EnableChecksum
<1>2. ListInv'
  BY <1>1, SameList DEF Inv
<1>3. FileInv'
  BY <1>1 DEF Inv, FileInv, SizeIsWritten
<1>. QED
  BY <1>1, <1>2, <1>3 DEF Inv, FlagInv, ReadInv

(* What the list holds, in its order.                                      *)
LEMMA ContentsFacts ==
  ASSUME ListInv
  PROVE  /\ Contents \in Seq(Element) /\ Len(Contents) = Len(ElementList)
         /\ DOMAIN Contents = DOMAIN ElementList
         /\ \A i \in DOMAIN ElementList : Contents[i] = element[ElementList[i]]
<1>1. ElementList \in Seq(Object) /\ element \in [Object -> Element]
  BY DEF ListInv
<1>2. DOMAIN ElementList = 1 .. Len(ElementList) /\ Len(ElementList) \in Nat
  BY <1>1
<1>3. \A i \in 1 .. Len(ElementList) : element[ElementList[i]] \in Element
  BY <1>1
<1>. QED
  BY <1>2, <1>3 DEF Contents

(* The file has what UpdateSize counted, and every mandatory element       *)
(* without default that CheckMandatory found.                              *)
LEMMA RenderKeeps ==
  ASSUME Inv, NEW f \in Filter, NEW b \in BOOLEAN, Render(f, b)
  PROVE  Inv'
<1>. DEFINE w == Written(Contents, f)
            counted == Counted(Contents, f)
<1>1. /\ b \/ CheckMandatory
      /\ Checksum' = IF bChecksumUsed /\ w # << >> THEN w ELSE Checksum
      /\ file' = [written |-> TRUE, size |-> UpdateSize(f),
                  crc |-> IF bChecksumUsed THEN <<Checksum'>> ELSE << >>,
                  children |-> w, complete |-> ~ b, changed |-> FALSE]
      /\ asRead' = FALSE /\ UNCHANGED list /\ bChecksumUsed' = bChecksumUsed
  BY DEF Render, RenderData, Covers, RenderedList
<1>2. /\ Contents \in Seq(Element) /\ DOMAIN Contents = DOMAIN ElementList
      /\ \A i \in DOMAIN ElementList : Contents[i] = element[ElementList[i]]
  BY ContentsFacts DEF Inv
<1>3. /\ w \in Seq(Child) /\ Octets(w) = Total(counted) /\ Total(counted) \in Nat
      /\ \A i \in DOMAIN Contents : CanWrite(Contents[i], f) =>
           \E j \in DOMAIN w : w[j] = Rendered(Contents[i])
  <2>1. ASSUME NEW c \in Seq(Element), c = Contents
        PROVE  /\ w \in Seq(Child) /\ Octets(w) = Total(counted) /\ Total(counted) \in Nat
               /\ \A i \in DOMAIN Contents : CanWrite(Contents[i], f) =>
                    \E j \in DOMAIN w : w[j] = Rendered(Contents[i])
    <3>1. /\ Written(c, f) \in Seq(Child)
          /\ Octets(Written(c, f)) = Total(Counted(c, f))
          /\ Total(Counted(c, f)) \in Nat
      BY WrittenFacts
    <3>2. \A i \in DOMAIN c : CanWrite(c[i], f) =>
             \E j \in DOMAIN Written(c, f) : Written(c, f)[j] = Rendered(c[i])
      BY WrittenFacts
    <3>. QED
      BY <2>1, <3>1, <3>2
  <2>. QED
    BY <1>2, <2>1
<1>4. UpdateSize(f) = Total(counted) + IF bChecksumUsed THEN ChecksumSize ELSE 0
  BY <1>2 DEF UpdateSize, Counted
<1>. HIDE DEF w, counted
<1>5. UpdateSize(f) \in Nat
  BY <1>3, <1>4 DEF ChecksumSize, HeadSize
<1>6. w \in Seq(Covered) /\ Checksum' \in Seq(Covered)
  <2>1. \A c \in Child : c \in Covered
    BY DEF Child, Covered
  <2>2. w \in Seq(Covered)
    BY <1>3, <2>1
  <2>. QED
    BY <1>1, <2>2 DEF Inv, FileInv
<1>7. (IF bChecksumUsed THEN <<Checksum'>> ELSE << >>) \in Seq(Seq(Covered))
  <2>1. CASE bChecksumUsed
    BY <1>6, <2>1
  <2>2. CASE ~ bChecksumUsed
    BY <2>2
  <2>. QED
    BY <2>1, <2>2
<1>8. file' \in [written : BOOLEAN, size : Nat, crc : Seq(Seq(Covered)),
                 children : Seq(Child), complete : BOOLEAN, changed : BOOLEAN]
  BY <1>1, <1>3, <1>5, <1>7
<1>9. /\ file'.written = TRUE /\ file'.size = UpdateSize(f) /\ file'.children = w
      /\ file'.crc = IF bChecksumUsed THEN <<Checksum'>> ELSE << >>
      /\ file'.complete = ~ b /\ file'.changed = FALSE
  BY <1>1
<1>10. SizeIsWritten'
  <2>1. file'.crc = << >> <=> ~ bChecksumUsed
    <3>1. CASE bChecksumUsed
      BY <1>9, <3>1
    <3>2. CASE ~ bChecksumUsed
      BY <1>9, <3>2
    <3>. QED
      BY <3>1, <3>2
  <2>2. CASE bChecksumUsed
    BY <1>3, <1>4, <1>9, <2>1, <2>2 DEF SizeIsWritten
  <2>3. CASE ~ bChecksumUsed
    BY <1>3, <1>4, <1>9, <2>1, <2>3 DEF SizeIsWritten
  <2>. QED
    BY <2>2, <2>3
<1>11. ASSUME file'.crc # << >>, file'.children # << >>
       PROVE  file'.crc[1] = file'.children
  <2>1. bChecksumUsed
    BY <1>9, <1>11
  <2>2. file'.crc = <<Checksum'>>
    BY <1>9, <2>1
  <2>3. w # << >> /\ file'.children = w
    BY <1>9, <1>11
  <2>4. Checksum' = w
    BY <1>1, <2>1, <2>3
  <2>. QED
    BY <2>2, <2>3, <2>4
<1>12. ASSUME file'.crc # << >>
       PROVE  file'.crc = <<file'.crc[1]>>
  <2>1. file'.crc = <<Checksum'>>
    BY <1>9, <1>12
  <2>. QED
    BY <2>1
<1>13. ASSUME file'.complete, NEW c \in Mandatory \ HasDefault
       PROVE  \E i \in DOMAIN file'.children : file'.children[i].class = c
  <2>1. CheckMandatory
    BY <1>1, <1>9, <1>13
  <2>2. FindFirstElt(c) # 0
    BY <2>1 DEF CheckMandatory
  <2>3. PICK i \in 1 .. Len(ElementList) : element[ElementList[i]].class = c
    BY <2>2, FindFirstFacts
  <2>4. i \in DOMAIN Contents /\ Contents[i].class = c
    BY <1>2, <2>3 DEF Inv, ListInv
  <2>5. CanWrite(Contents[i], f)
    <3>1. c \notin Deprecated
      BY <1>13, SemanticAssumption
    <3>. QED
      BY <1>13, <2>4, <3>1 DEF CanWrite, IsDefaultValue
  <2>6. PICK j \in DOMAIN w : w[j] = Rendered(Contents[i])
    BY <1>3, <2>4, <2>5
  <2>7. w[j].class = c
    BY <2>4, <2>6 DEF Rendered
  <2>. QED
    BY <1>9, <2>7
<1>14. FileInv'
  BY <1>6, <1>8, <1>9, <1>10, <1>11, <1>12, <1>13 DEF FileInv
<1>15. ListInv'
  BY <1>1, SameList DEF Inv
<1>. QED
  BY <1>1, <1>14, <1>15 DEF Inv, FlagInv, ReadInv

(* A value of a child is another than the checksum is of.                  *)
LEMMA ChangeKeeps ==
  ASSUME Inv, Change
  PROVE  Inv'
<1>1. /\ file.written /\ ~ file.changed /\ asRead' = FALSE
      /\ UNCHANGED list /\ bChecksumUsed' = bChecksumUsed /\ Checksum' = Checksum
  BY DEF Change
<1>0. PICK i \in DOMAIN file.children :
        \E v \in Value[file.children[i].class] \ {file.children[i].value} :
          file' = [file EXCEPT !.children[i].value = v, !.changed = TRUE]
  BY DEF Change
<1>2. PICK v \in Value[file.children[i].class] \ {file.children[i].value} :
        file' = [file EXCEPT !.children[i].value = v, !.changed = TRUE]
  BY <1>0
<1>3. /\ file \in [written : BOOLEAN, size : Nat, crc : Seq(Seq(Covered)),
                   children : Seq(Child), complete : BOOLEAN, changed : BOOLEAN]
      /\ Checksum \in Seq(Covered)
      /\ file.children \in Seq(Child)
  BY DEF Inv, FileInv
<1>. DEFINE c == [file.children[i] EXCEPT !.value = v]
            children == [file.children EXCEPT ![i] = c]
<1>4. file.children[i] \in Child
  BY <1>0, <1>2, <1>3
<1>5. /\ c \in Child /\ c.class = file.children[i].class /\ c.value = v
      /\ c.octets = file.children[i].octets
  <2>1. /\ file.children[i] \in [class : Class, value : 0 .. 255, octets : 1 .. 8]
        /\ file.children[i].class \in Class /\ file.children[i].class \notin Deprecated
    BY <1>4 DEF Child
  <2>2. v \in 0 .. 255 /\ v \in Value[file.children[i].class]
    BY <1>2, <2>1, ClassFacts
  <2>3. /\ c \in [class : Class, value : 0 .. 255, octets : 1 .. 8]
        /\ c.class = file.children[i].class /\ c.value = v
        /\ c.octets = file.children[i].octets
    BY <2>1, <2>2
  <2>. QED
    BY <2>1, <2>2, <2>3 DEF Child
<1>6. file' = [file EXCEPT !.children = children, !.changed = TRUE]
  BY <1>0, <1>2, <1>3
<1>. HIDE DEF c
<1>7. /\ children \in Seq(Child) /\ DOMAIN children = DOMAIN file.children
      /\ \A k \in DOMAIN children : children[k] = IF k = i THEN c ELSE file.children[k]
  BY <1>0, <1>2, <1>3, <1>5
<1>. HIDE DEF children
<1>8. /\ file'.written = file.written /\ file'.size = file.size /\ file'.crc = file.crc
      /\ file'.children = children /\ file'.complete = file.complete
      /\ file'.changed = TRUE
      /\ file' \in [written : BOOLEAN, size : Nat, crc : Seq(Seq(Covered)),
                    children : Seq(Child), complete : BOOLEAN, changed : BOOLEAN]
  BY <1>3, <1>6, <1>7
<1>9. SizeIsWritten'
  <2>1. \A k \in DOMAIN children : HeadSize + children[k].octets
                                     = HeadSize + file.children[k].octets
    BY <1>0, <1>2, <1>5, <1>7
  <2>2. [k \in DOMAIN children |-> HeadSize + children[k].octets]
          = [k \in DOMAIN file.children |-> HeadSize + file.children[k].octets]
    BY <1>7, <2>1
  <2>3. Octets(children) = Octets(file.children)
    BY <2>2 DEF Octets
  <2>. QED
    BY <1>8, <2>3 DEF Inv, FileInv, SizeIsWritten
<1>10. \E k \in DOMAIN file'.children :
          file'.crc # << >> => file'.crc[1][k].value # file'.children[k].value
  <2>1. i \in DOMAIN children /\ children[i].value = v /\ v # file.children[i].value
    BY <1>0, <1>2, <1>5, <1>7
  <2>2. file.children # << >>
    BY <1>0, <1>2, <1>3
  <2>3. file.crc # << >> => file.crc[1] = file.children
    BY <1>1, <2>2 DEF Inv, FileInv
  <2>. QED
    BY <1>8, <2>1, <2>3
<1>11. ASSUME file'.complete, NEW d \in Mandatory \ HasDefault
       PROVE  \E k \in DOMAIN file'.children : file'.children[k].class = d
  <2>1. PICK k \in DOMAIN file.children : file.children[k].class = d
    BY <1>8, <1>11 DEF Inv, FileInv
  <2>2. k \in DOMAIN children /\ children[k].class = d
    BY <1>5, <1>7, <2>1
  <2>. QED
    BY <1>8, <2>2
<1>12. FileInv'
  <2>1. file'.crc # << >> => file'.crc = <<file'.crc[1]>>
    BY <1>8 DEF Inv, FileInv
  <2>. QED
    BY <1>1, <1>3, <1>8, <1>9, <1>10, <1>11, <2>1 DEF FileInv
<1>13. ListInv'
  BY <1>1, SameList DEF Inv
<1>. QED
  BY <1>1, <1>12, <1>13 DEF Inv, FlagInv, ReadInv

-----------------------------------------------------------------------------
(* The list of the new master: its elements have what they were given.     *)
LEMMA ReplacedFacts ==
  ASSUME ListInv, NEW n \in Nat, NEW objects \in New(n, Deleted),
         NEW contents, \A i \in 1 .. n : contents[i] \in Element,
         Replaced(objects, contents)
  PROVE  /\ ListInv' /\ Len(ElementList') = n /\ DOMAIN ElementList' = 1 .. n
         /\ \A i \in 1 .. n : element'[ElementList'[i]] = contents[i]
<1>1. /\ ElementList' = objects /\ caller' = caller
      /\ element' = [o \in Object |->
           CASE o \in ToSet(objects) -> contents[Place(objects, o)]
             [] o \in Deleted \ ToSet(objects) -> Freed
             [] OTHER -> element[o]]
  BY DEF Replaced, Place
<1>2. /\ ElementList \in Seq(Object) /\ caller \subseteq Object
      /\ element \in [Object -> Element]
  BY DEF ListInv
<1>3. /\ objects \in Seq(Deleted) /\ Len(objects) = n /\ DOMAIN objects = 1 .. n
      /\ IsInjective(objects) /\ ToSet(objects) \subseteq Deleted
  BY NewFacts
<1>4. objects \in Seq(Object) /\ ToSet(objects) \subseteq Object
  <2>1. Deleted \subseteq Object
    BY DEF Deleted
  <2>. QED
    BY <1>3, <2>1
<1>5. caller \cap ToSet(objects) = {}
  BY <1>3 DEF Deleted
<1>6. ASSUME NEW i \in 1 .. n
      PROVE  objects[i] \in ToSet(objects) /\ element'[objects[i]] = contents[i]
  <2>1. objects[i] \in ToSet(objects) /\ objects[i] \in Object
    BY <1>3, <1>4 DEF ToSet
  <2>2. Place(objects, objects[i]) = i
    BY <1>3, PlaceFacts
  <2>3. element'[objects[i]] = contents[Place(objects, objects[i])]
    BY <1>1, <2>1
  <2>. QED
    BY <2>1, <2>2, <2>3
<1>7. ASSUME NEW o \in Object \ ToSet(objects)
      PROVE  element'[o] = IF o \in Deleted THEN Freed ELSE element[o]
  BY <1>1
<1>8. \A o \in Object : element'[o] \in Element
  <2>1. \A o \in ToSet(objects) : \E i \in 1 .. n : o = objects[i]
    BY <1>3 DEF ToSet
  <2>. QED
    BY <1>2, <1>6, <1>7, <2>1, FreedIsElement
<1>9. element' \in [Object -> Element]
  <2>1. DOMAIN element' = Object /\ element' = [o \in Object |-> element'[o]]
    BY <1>1
  <2>. QED
    BY <1>8, <2>1
<1>10. \A o \in Free' : element'[o] = Freed
  BY <1>1, <1>7 DEF Free, Deleted
<1>11. ListInv'
  BY <1>1, <1>2, <1>3, <1>4, <1>5, <1>9, <1>10 DEF ListInv
<1>. QED
  BY <1>1, <1>3, <1>6, <1>11

(* The copy has what the original had.                                     *)
LEMMA CloneKeeps ==
  ASSUME Inv, Clone
  PROVE  Inv'
<1>1. PICK clones \in New(Len(ElementList), Free) : Replaced(clones, Contents)
  BY DEF Clone
<1>2. /\ bChecksumUsed' = bChecksumUsed /\ Checksum' = Checksum /\ file' = file
      /\ asRead' = asRead
  BY DEF Clone
<1>3. PICK n \in Nat : n = Len(ElementList)
  BY DEF Inv, ListInv
<1>4. /\ DOMAIN ElementList = 1 .. n
      /\ \A i \in 1 .. n : Contents[i] \in Element /\ Contents[i] = element[ElementList[i]]
  <2>1. Contents \in Seq(Element) /\ Len(Contents) = n
    BY <1>3, ContentsFacts DEF Inv
  <2>2. DOMAIN ElementList = 1 .. n
    BY <1>3 DEF Inv, ListInv
  <2>. QED
    BY <2>1, <2>2, ContentsFacts DEF Inv
<1>5. clones \in New(n, Deleted)
  BY <1>1, <1>3 DEF New, Free, Deleted
<1>6. /\ ListInv' /\ Len(ElementList') = n /\ DOMAIN ElementList' = 1 .. n
      /\ \A i \in 1 .. n : element'[ElementList'[i]] = Contents[i]
  <2>. HIDE DEF Contents
  <2>. QED
    BY <1>1, <1>3, <1>4, <1>5, ReplacedFacts DEF Inv
<1>7. FlagInv' /\ FileInv'
  BY <1>2 DEF Inv, FlagInv, FileInv, SizeIsWritten
<1>8. ReadInv'
  BY <1>2, <1>3, <1>4, <1>6 DEF Inv, ReadInv
<1>. QED
  BY <1>6, <1>7, <1>8 DEF Inv

(* The new master has what the file has.                                   *)
LEMMA ReadKeeps ==
  ASSUME Inv, Read
  PROVE  Inv'
<1>1. PICK made \in New(Len(file.children), Deleted) :
        Replaced(made, [i \in DOMAIN made |->
                          [class |-> file.children[i].class,
                           value |-> file.children[i].value, size |-> 0]])
  BY DEF Read
<1>2. /\ bChecksumUsed' = (file.crc # << >>)
      /\ Checksum' = IF file.crc # << >> THEN file.crc[1] ELSE << >>
      /\ asRead' = TRUE /\ file' = file
  BY DEF Read
<1>3. file.children \in Seq(Child) /\ file.crc \in Seq(Seq(Covered))
  BY DEF Inv, FileInv
<1>4. PICK n \in Nat : n = Len(file.children)
  BY <1>3
<1>5. DOMAIN made = 1 .. n /\ made \in New(n, Deleted)
  BY <1>1, <1>4, NewFacts
<1>. DEFINE contents == [i \in DOMAIN made |->
                           [class |-> file.children[i].class,
                            value |-> file.children[i].value, size |-> 0]]
<1>6. \A i \in 1 .. n : /\ contents[i] = ReadFrom(file.children[i])
                        /\ contents[i] \in Element
  <2>1. \A i \in 1 .. n : file.children[i] \in Child
    BY <1>3, <1>4
  <2>2. \A i \in 1 .. n : contents[i] = ReadFrom(file.children[i])
    BY <1>5 DEF ReadFrom
  <2>. HIDE DEF contents
  <2>. QED
    BY <2>1, <2>2, ReadFromIsElement
<1>7. Replaced(made, contents)
  BY <1>1
<1>. HIDE DEF contents
<1>8. /\ ListInv' /\ Len(ElementList') = n /\ DOMAIN ElementList' = 1 .. n
      /\ \A i \in 1 .. n : element'[ElementList'[i]] = contents[i]
  BY <1>4, <1>5, <1>6, <1>7, ReplacedFacts DEF Inv
<1>9. Checksum' \in Seq(Covered)
  <2>1. CASE file.crc = << >>
    BY <1>2, <2>1
  <2>2. CASE file.crc # << >>
    <3>1. file.crc[1] \in Seq(Covered)
      BY <1>3, <2>2
    <3>. QED
      BY <1>2, <2>2, <3>1
  <2>. QED
    BY <2>1, <2>2
<1>10. FileInv'
  BY <1>2, <1>9 DEF Inv, FileInv, SizeIsWritten
<1>11. FlagInv'
  BY <1>2 DEF FlagInv
<1>12. ReadInv'
  BY <1>2, <1>4, <1>6, <1>8 DEF ReadInv
<1>. QED
  BY <1>8, <1>10, <1>11, <1>12 DEF Inv

-----------------------------------------------------------------------------
(* Every step keeps the invariant.                                         *)
LEMMA StepKeeps == Inv /\ [Next]_vars => Inv'
<1>. SUFFICES ASSUME Inv, [Next]_vars
              PROVE  Inv'
  OBVIOUS
<1>1. CASE UNCHANGED vars
  BY <1>1 DEF vars, list, Inv, ListInv, FlagInv, FileInv, ReadInv, Free, SizeIsWritten
<1>2. ASSUME NEW c \in Class, AddNewElt(c) \/ FindFirstOrCreate(c)
      PROVE  Inv'
  BY <1>2, AddKeeps DEF FindFirstOrCreate
<1>3. ASSUME NEW i \in DOMAIN ElementList,
             FindNextOrCreate(i) \/ RemoveAtIndex(i)
      PROVE  Inv'
  <2>1. /\ ElementList \in Seq(Object) /\ element \in [Object -> Element]
        /\ DOMAIN ElementList = 1 .. Len(ElementList) /\ Len(ElementList) \in Nat
    BY DEF Inv, ListInv
  <2>2. CASE FindNextOrCreate(i)
    <3>1. element[ElementList[i]].class \in Class
      BY <2>1 DEF Element
    <3>. QED
      BY <2>2, <3>1, AddKeeps DEF FindNextOrCreate
  <2>3. CASE RemoveAtIndex(i)
    BY <2>3, EraseKeeps DEF RemoveAtIndex
  <2>. QED
    BY <1>3, <2>2, <2>3
<1>4. ASSUME NEW o \in caller,
             Delete(o) \/ \E i \in 1 .. Len(ElementList) + 1 : InsertElement(o, i)
      PROVE  Inv'
  BY <1>4, DeleteKeeps, InsertKeeps
<1>5. ASSUME NEW o \in ToSet(ElementList),
             \/ \E v \in Value[element[o].class] : SetValue(o, v)
             \/ \E n \in DefaultSize[element[o].class] : SetDefaultSize(o, n)
      PROVE  Inv'
  BY <1>5, SetValueKeeps, SetDefaultSizeKeeps
<1>6. ASSUME NEW b \in BOOLEAN, NEW f \in Filter, EnableChecksum(b) \/ Render(f, b)
      PROVE  Inv'
  BY <1>6, EnableChecksumKeeps, RenderKeeps
<1>7. CASE ForceChecksum
  BY <1>7, ForceChecksumKeeps
<1>8. CASE RemoveAll \/ Sort \/ Change \/ Clone \/ Read
  BY <1>8, RemoveAllKeeps, SortKeeps, ChangeKeeps, CloneKeeps, ReadKeeps
<1>. QED
  BY <1>1, <1>2, <1>3, <1>4, <1>5, <1>6, <1>7, <1>8 DEF Next

(* The invariant the theorems below follow from.                           *)
THEOREM Inductive == Spec => []Inv
<1>. QED
  BY InitEstablishes, StepKeeps, PTL DEF Spec

-----------------------------------------------------------------------------
(* Every element of a master is deleted by one owner: whatever is added,   *)
(* inserted, removed, sorted, cloned and read, it is in the list once, or  *)
(* with the program, and never both.  This is of the programs that do not  *)
(* call Remove of a reverse iterator, after which it does not hold.        *)
THEOREM Ownership == Spec => []OwnedOnce
<1>1. ASSUME Inv
      PROVE  OwnedOnce
  <2>1. /\ ElementList \in Seq(Object) /\ caller \subseteq Object
        /\ element \in [Object -> Element] /\ \A p \in Free : element[p] = Freed
        /\ IsInjective(ElementList) /\ caller \cap ToSet(ElementList) = {}
    BY <1>1 DEF Inv, ListInv
  <2>2. \A o \in Object : /\ element[o].class \in Class
                          /\ element[o].value \in Value[element[o].class]
                          /\ element[o].size \in DefaultSize[element[o].class]
    BY <2>1 DEF Element
  <2>3. \A i \in DOMAIN file.children : file.children[i].class \in Class
    <3>1. file.children \in Seq(Child)
      BY <1>1 DEF Inv, FileInv
    <3>2. \A i \in DOMAIN file.children : file.children[i] \in Child
      BY <3>1
    <3>. QED
      BY <3>2 DEF Child
  <2>. QED
    BY <1>1, <2>1, <2>2, <2>3 DEF OwnedOnce, TypeOK, Inv, FlagInv
<1>. QED
  BY <1>1, Inductive, PTL

(* The assertion of Render: the size UpdateSize puts in the head is that   *)
(* of what RenderData writes, for every filter and with a checksum or      *)
(* without one.                                                            *)
THEOREM Sizes == Spec => []SizeIsWritten
<1>1. Inv => SizeIsWritten
  BY DEF Inv, FileInv
<1>. QED
  BY <1>1, Inductive, PTL

(* What a reader renders again is what it read, in the shortest form.      *)
LEMMA RenderedAgain ==
  ASSUME Inv, asRead
  PROVE  RenderedList("WriteAll")
           = [i \in DOMAIN file.children |->
                [class |-> file.children[i].class, value |-> file.children[i].value,
                 octets |-> 1]]
<1>1. PICK n \in Nat : n = Len(file.children)
  <2>1. file.children \in Seq(Child)
    BY DEF Inv, FileInv
  <2>. QED
    BY <2>1
<1>2. /\ Len(ElementList) = n /\ DOMAIN ElementList = 1 .. n
      /\ DOMAIN file.children = 1 .. n /\ \A i \in 1 .. n : file.children[i] \in Child
      /\ \A i \in 1 .. n : element[ElementList[i]] = ReadFrom(file.children[i])
  <2>1. Len(ElementList) = n /\ ElementList \in Seq(Object) /\ file.children \in Seq(Child)
    BY <1>1 DEF Inv, ReadInv, ListInv, FileInv
  <2>2. DOMAIN ElementList = 1 .. n /\ DOMAIN file.children = 1 .. n
    BY <1>1, <2>1
  <2>3. \A i \in 1 .. n : file.children[i] \in Child
    BY <2>1, <2>2
  <2>4. \A i \in 1 .. n : element[ElementList[i]] = ReadFrom(file.children[i])
    BY <2>2 DEF Inv, ReadInv
  <2>. QED
    BY <2>1, <2>2, <2>3, <2>4
<1>3. ASSUME NEW c \in Seq(Element), c = Contents
      PROVE  Written(c, "WriteAll") = [i \in 1 .. n |-> Rendered(ReadFrom(file.children[i]))]
  <2>1. DOMAIN c = 1 .. n /\ \A i \in 1 .. n : c[i] = ReadFrom(file.children[i])
    BY <1>2, <1>3, ContentsFacts DEF Inv
  <2>2. "WriteAll" \in Filter
    BY DEF Filter
  <2>3. \A i \in DOMAIN c : CanWrite(c[i], "WriteAll")
    BY <1>2, <2>1, <2>2, ReadFromIsElement
  <2>4. Written(c, "WriteAll") = [i \in DOMAIN c |-> Rendered(c[i])]
    BY <2>3, WrittenFacts
  <2>. QED
    BY <2>1, <2>4
<1>4. RenderedList("WriteAll") = [i \in 1 .. n |-> Rendered(ReadFrom(file.children[i]))]
  BY <1>3, ContentsFacts DEF Inv, RenderedList
<1>5. \A i \in 1 .. n : Rendered(ReadFrom(file.children[i]))
         = [class |-> file.children[i].class, value |-> file.children[i].value, octets |-> 1]
  BY DEF Rendered, ReadFrom
<1>. QED
  BY <1>2, <1>4, <1>5

(* VerifyChecksum of what was read tells whether the file was changed,     *)
(* whatever filter it was written with, but for elements written in more   *)
(* octets than they need and for a stale checksum of an empty list.        *)
THEOREM Checksums == Spec => []ChecksumTells
<1>1. ASSUME Inv, asRead, file.crc # << >>
      PROVE  VerifyChecksum <=> ~ file.changed /\ IsShortest /\ ~ IsStale
  <2>. DEFINE short == [i \in DOMAIN file.children |->
                          [class |-> file.children[i].class,
                           value |-> file.children[i].value, octets |-> 1]]
  <2>1. VerifyChecksum <=> file.crc[1] = short
    BY <1>1, RenderedAgain DEF Inv, ReadInv, VerifyChecksum
  <2>2. /\ file.children \in Seq(Child)
        /\ \A i \in DOMAIN file.children :
             /\ file.children[i] \in [class : Class, value : 0 .. 255, octets : 1 .. 8]
             /\ short[i] = [class |-> file.children[i].class,
                            value |-> file.children[i].value, octets |-> 1]
    <3>1. file.children \in Seq(Child)
      BY <1>1 DEF Inv, FileInv
    <3>2. \A i \in DOMAIN file.children : file.children[i] \in Child
      BY <3>1
    <3>. QED
      BY <3>1, <3>2 DEF Child
  <2>3. CASE file.changed
    <3>1. PICK i \in DOMAIN file.children : file.crc[1][i].value # file.children[i].value
      BY <1>1, <2>3 DEF Inv, FileInv
    <3>2. short[i].value = file.children[i].value
      BY <2>2
    <3>. HIDE DEF short
    <3>. QED
      BY <2>1, <2>3, <3>1, <3>2
  <2>4. CASE ~ file.changed /\ file.children # << >>
    <3>1. file.crc[1] = file.children
      BY <1>1, <2>4 DEF Inv, FileInv
    <3>2. ASSUME file.children = short
          PROVE  IsShortest
      <4>1. \A i \in DOMAIN file.children : short[i].octets = 1
        BY <2>2
      <4>. HIDE DEF short
      <4>. QED
        BY <3>2, <4>1 DEF IsShortest
    <3>3. ASSUME IsShortest
          PROVE  file.children = short
      <4>1. ASSUME NEW i \in DOMAIN file.children
            PROVE  file.children[i] = short[i]
        <5>1. file.children[i].octets = 1
          BY <3>3 DEF IsShortest
        <5>2. file.children[i] \in [class : Class, value : 0 .. 255, octets : 1 .. 8]
          <6>. HIDE DEF short
          <6>1. file.children[i] \in Child
            BY <2>2
          <6>. QED
            BY <6>1 DEF Child
        <5>3. file.children[i] = [class |-> file.children[i].class,
                                  value |-> file.children[i].value, octets |-> 1]
          BY <5>1, <5>2
        <5>. QED
          BY <2>2, <5>3
      <4>2. file.children = [i \in DOMAIN file.children |-> file.children[i]]
        BY <2>2
      <4>3. short = [i \in DOMAIN file.children |-> short[i]]
        OBVIOUS
      <4>. HIDE DEF short
      <4>. QED
        BY <4>1, <4>2, <4>3
    <3>4. ~ IsStale
      BY <2>4 DEF IsStale
    <3>. HIDE DEF short
    <3>. QED
      BY <2>1, <2>4, <3>1, <3>2, <3>3, <3>4
  <2>5. CASE ~ file.changed /\ file.children = << >>
    <3>1. short = << >>
      BY <2>5
    <3>2. IsShortest
      BY <2>5 DEF IsShortest
    <3>3. file.crc = << << >> >> <=> file.crc[1] = << >>
      <4>1. file.crc = <<file.crc[1]>>
        BY <1>1 DEF Inv, FileInv
      <4>. QED
        BY <4>1
    <3>. HIDE DEF short
    <3>. QED
      BY <2>1, <2>5, <3>1, <3>2, <3>3 DEF IsStale
  <2>. QED
    BY <2>3, <2>4, <2>5
<1>2. Inv => ChecksumTells
  BY <1>1 DEF ChecksumTells
<1>. QED
  BY <1>2, Inductive, PTL

(* What was rendered after CheckMandatory still passes it when it is read  *)
(* by another master: the filter leaves out no mandatory element but one   *)
(* that has a default value.                                               *)
THEOREM Completeness == Spec => []CompleteWhenRead
<1>1. ASSUME Inv, asRead, file.complete
      PROVE  CheckMandatory
  <2>1. SUFFICES ASSUME NEW c \in Mandatory, c \notin HasDefault
                 PROVE  FindFirstElt(c) # 0
    BY DEF CheckMandatory
  <2>2. PICK i \in DOMAIN file.children : file.children[i].class = c
    BY <1>1, <2>1 DEF Inv, FileInv
  <2>3. /\ Len(ElementList) = Len(file.children) /\ file.children \in Seq(Child)
        /\ ElementList \in Seq(Object)
    BY <1>1 DEF Inv, ReadInv, FileInv, ListInv
  <2>4. i \in 1 .. Len(ElementList) /\ i \in DOMAIN ElementList
    BY <2>2, <2>3
  <2>5. element[ElementList[i]] = ReadFrom(file.children[i])
    BY <1>1, <2>4 DEF Inv, ReadInv
  <2>6. element[ElementList[i]].class = c
    BY <2>2, <2>5 DEF ReadFrom
  <2>. QED
    BY <2>4, <2>6, FindFirstFacts
<1>2. Inv => CompleteWhenRead
  BY <1>1 DEF CompleteWhenRead
<1>. QED
  BY <1>2, Inductive, PTL

=============================================================================
