------------------------- MODULE ElementValue_proofs -------------------------
(***************************************************************************)
(* Proofs about the values of elements, for every width of an octet, of a  *)
(* word and of a float, and any builds that exchange files.                *)
(***************************************************************************)
EXTENDS ElementValue, Induction, SequenceTheorems, TLAPS

-----------------------------------------------------------------------------
(***************************************************************************)
(* Division, and the powers of the base.                                   *)
(***************************************************************************)

(* A number has one quotient and one remainder.                            *)
LEMMA Quotient ==
  ASSUME NEW y \in Int, NEW q \in Int, NEW w \in Nat \ {0}, NEW r \in 0 .. w - 1,
         y = q * w + r
  PROVE  y \div w = q /\ y % w = r
<1>. DEFINE p == y \div w
            s == y % w
<1>1. p \in Int /\ s \in 0 .. w - 1 /\ y = w * p + s
  OBVIOUS
<1>. HIDE DEF p, s
<1>2. p \in Int /\ s \in Int /\ w * p = p * w /\ (p - q) * w = p * w - q * w
  BY <1>1
<1>3. r - s = (p - q) * w /\ r - s < w /\ s - r < w
  BY <1>1, <1>2
<1>4. PICK d \in Int : d = p - q
  BY <1>1
<1>5. ASSUME d >= 1
      PROVE  FALSE
  <2>1. d * w >= w
    BY <1>5
  <2>. QED
    BY <1>1, <1>3, <1>4, <2>1
<1>6. ASSUME d <= -1
      PROVE  FALSE
  <2>1. PICK e \in Nat : e = -d /\ e >= 1
    BY <1>6
  <2>2. e * w >= w /\ d * w = -(e * w)
    BY <2>1
  <2>. QED
    BY <1>1, <1>3, <1>4, <2>2
<1>7. d = 0
  BY <1>5, <1>6
<1>8. p = q /\ r = s
  BY <1>1, <1>3, <1>4, <1>7
<1>. QED
  BY <1>8 DEF p, s

(* A number is its quotient and its remainder.                             *)
LEMMA Divided ==
  ASSUME NEW y \in Int, NEW w \in Nat \ {0}
  PROVE  y \div w \in Int /\ y % w \in 0 .. w - 1 /\ y = (y \div w) * w + (y % w)
OBVIOUS

(* Multiples of w do not count modulo w.                                   *)
LEMMA Multiples ==
  ASSUME NEW y \in Int, NEW k \in Int, NEW w \in Nat \ {0}
  PROVE  (y + k * w) % w = y % w
<1>1. PICK q \in Int : q = y \div w
  BY Divided
<1>2. PICK r \in 0 .. w - 1 : r = y % w
  BY Divided
<1>3. y = q * w + r
  BY <1>1, <1>2, Divided
<1>4. y + k * w = (q + k) * w + r /\ q + k \in Int
  BY <1>3
<1>5. PICK z \in Int : z = y + k * w
  OBVIOUS
<1>6. PICK p \in Int : p = q + k
  OBVIOUS
<1>7. z % w = r
  BY <1>4, <1>5, <1>6, Quotient
<1>. QED
  BY <1>2, <1>5, <1>7

(* What is known of the constants.                                         *)
LEMMA Parameters ==
  /\ Base \in Nat \ {0} /\ Base > 1 /\ Base \in Int
  /\ Base \div 2 \in Nat \ {0} /\ Base = 2 * (Base \div 2)
  /\ WordOctets \in Nat /\ WordOctets > 0
  /\ FloatOctets \in Nat /\ FloatOctets >= 2 /\ FloatOctets < WordOctets
  /\ FloatOctets % 2 = 0 /\ LengthMax \in Nat
BY BaseAssumption, WidthAssumption, BuildsAssumption

(* Each power of the base is that many times the one before.               *)
LEMMA PowerIs ==
  /\ Power \in [0 .. WordOctets -> Nat \ {0}] /\ Power[0] = 1
  /\ \A k \in 1 .. WordOctets : Power[k] = Base * Power[k - 1]
<1>. DEFINE N == Nat \ {0}
            step == [k \in 1 .. WordOctets |-> [p \in N |-> Base * p]]
            P(f) == f = [k \in 0 .. WordOctets |-> IF k = 0 THEN 1 ELSE Base * f[k - 1]]
<1>1. Base \in Nat /\ Base > 1 /\ WordOctets \in Nat /\ 1 \in N
  BY Parameters
<1>2. step \in [1 .. WordOctets -> [N -> N]]
  <2>1. \A p \in N : Base * p \in N
    BY <1>1
  <2>. HIDE DEF N
  <2>. QED
    BY <2>1
<1>3. PICK f : Runs(f, N, 1, step, WordOctets)
  <2>. HIDE DEF step, N
  <2>. QED
    BY <1>1, <1>2, RunExists
<1>4. /\ f \in [0 .. WordOctets -> N] /\ f[0] = 1
      /\ \A k \in 1 .. WordOctets : f[k] = step[k][f[k - 1]]
  <2>. HIDE DEF step, N
  <2>. QED
    BY <1>3 DEF Runs
<1>5. P(f)
  <2>1. ASSUME NEW k \in 0 .. WordOctets
        PROVE  f[k] = IF k = 0 THEN 1 ELSE Base * f[k - 1]
    <3>1. CASE k = 0
      BY <1>4, <3>1
    <3>2. CASE k # 0
      <4>1. k \in 1 .. WordOctets /\ k - 1 \in 0 .. WordOctets
        BY <1>1, <3>2
      <4>. HIDE DEF N
      <4>2. f[k - 1] \in N /\ f[k] = step[k][f[k - 1]]
        BY <1>4, <4>1
      <4>3. step[k] = [p \in N |-> Base * p]
        BY <4>1
      <4>. QED
        BY <3>2, <4>2, <4>3
    <3>. QED
      BY <3>1, <3>2
  <2>2. f = [k \in 0 .. WordOctets |-> f[k]]
    BY <1>4
  <2>. HIDE DEF step, N
  <2>. QED
    BY <2>1, <2>2
<1>. HIDE DEF step
<1>6. P(Power)
  <2>1. Power = CHOOSE g : P(g)
    BY DEF Power
  <2>. HIDE DEF P
  <2>. QED
    BY <1>5, <2>1
<1>7. Power[0] = 1 /\ \A k \in 1 .. WordOctets : Power[k] = Base * Power[k - 1]
  <2>1. ASSUME NEW k \in 0 .. WordOctets
        PROVE  Power[k] = IF k = 0 THEN 1 ELSE Base * Power[k - 1]
    BY <1>6
  <2>2. 0 \in 0 .. WordOctets /\ \A k \in 1 .. WordOctets : k \in 0 .. WordOctets /\ k # 0
    BY <1>1
  <2>. QED
    BY <2>1, <2>2
<1>8. Power = [k \in 0 .. WordOctets |-> Power[k]]
  BY <1>6, Zenon
<1>9. \A k \in 1 .. WordOctets : Power[k - 1] \in N => Power[k] \in N
  BY <1>1, <1>7
<1>. HIDE DEF P
<1>10. Power \in [0 .. WordOctets -> N]
  <2>. HIDE DEF N
  <2>. QED
    BY <1>1, <1>7, <1>8, <1>9, StaysIn
<1>. QED
  BY <1>7, <1>10

(* A power of at least one octet is even, and its half grows like it.      *)
LEMMA Halves ==
  /\ \A k \in 1 .. WordOctets :
       Power[k] \div 2 \in Nat \ {0} /\ Power[k] = 2 * (Power[k] \div 2)
  /\ \A k \in 1 .. WordOctets : Power[k] \div 2 = (Base \div 2) * Power[k - 1]
<1>1. ASSUME NEW k \in 1 .. WordOctets
      PROVE  /\ Power[k] \div 2 \in Nat \ {0} /\ Power[k] = 2 * (Power[k] \div 2)
             /\ Power[k] \div 2 = (Base \div 2) * Power[k - 1]
  <2>1. k - 1 \in 0 .. WordOctets
    BY Parameters
  <2>2. PICK p \in Nat \ {0} : p = Power[k - 1]
    BY <2>1, PowerIs
  <2>3. PICK h \in Nat \ {0} : h = Base \div 2 /\ Base = 2 * h
    BY Parameters
  <2>4. Power[k] = Base * p
    BY <2>2, PowerIs
  <2>5. PICK x \in Nat \ {0} : x = h * p
    OBVIOUS
  <2>6. Base * p = x * 2 + 0
    BY <2>3, <2>5
  <2>7. (Base * p) \div 2 = x
    <3>1. PICK y \in Int : y = Base * p
      BY <2>3
    <3>. QED
      BY <2>6, <3>1, Quotient
  <2>. QED
    BY <2>2, <2>3, <2>4, <2>5, <2>6, <2>7
<1>. QED
  BY <1>1

(* A power of more octets is as great at least.                            *)
LEMMA PowersGrow ==
  ASSUME NEW m \in 0 .. WordOctets, NEW n \in m .. WordOctets
  PROVE  Power[m] <= Power[n]
<1>. DEFINE A == {k \in 0 .. n - m : Power[m] <= Power[m + k]}
<1>1. m \in Nat /\ n \in Nat /\ n - m \in Nat /\ m + 0 = m /\ WordOctets \in Nat
  BY Parameters
<1>2. 0 \in A
  BY <1>1, PowerIs
<1>3. ASSUME NEW k \in 1 .. n - m, k - 1 \in A
      PROVE  k \in A
  <2>1. m + k \in 1 .. WordOctets /\ m + k - 1 \in 0 .. WordOctets /\ m + k - 1 = m + (k - 1)
    BY <1>1
  <2>2. PICK p \in Nat \ {0} : p = Power[m + (k - 1)]
    BY <2>1, PowerIs
  <2>3. PICK q \in Nat \ {0} : q = Power[m]
    BY PowerIs
  <2>4. Power[m + k] = Base * p /\ q <= p
    BY <1>3, <2>1, <2>2, <2>3, PowerIs
  <2>5. Base * p >= p
    BY Parameters
  <2>. QED
    BY <2>3, <2>4, <2>5, Parameters
<1>. HIDE DEF A
<1>4. \A k \in 0 .. n - m : k \in A
  BY <1>1, <1>2, <1>3, UpTo
<1>5. n - m \in A /\ m + (n - m) = n
  BY <1>1, <1>4
<1>. QED
  BY <1>5 DEF A

(* Exponents are added.                                                    *)
LEMMA PowerOfSum ==
  ASSUME NEW m \in 0 .. WordOctets, NEW n \in 0 .. WordOctets - m
  PROVE  Power[m + n] = Power[m] * Power[n]
<1>. DEFINE A == {k \in 0 .. n : Power[m + k] = Power[m] * Power[k]}
<1>1. m \in Nat /\ n \in Nat /\ WordOctets \in Nat /\ m + 0 = m
  BY Parameters
<1>2. 0 \in A
  BY <1>1, PowerIs
<1>3. ASSUME NEW k \in 1 .. n, k - 1 \in A
      PROVE  k \in A
  <2>1. /\ m + k \in 1 .. WordOctets /\ m + k - 1 = m + (k - 1)
        /\ k \in 1 .. WordOctets /\ k - 1 \in 0 .. WordOctets
    BY <1>1
  <2>2. PICK p \in Nat \ {0} : p = Power[m]
    BY PowerIs
  <2>3. PICK q \in Nat \ {0} : q = Power[k - 1]
    BY <2>1, PowerIs
  <2>4. Power[m + k] = Base * (p * q) /\ Power[k] = Base * q
    BY <1>3, <2>1, <2>2, <2>3, PowerIs
  <2>5. Base * (p * q) = p * (Base * q)
    BY Parameters
  <2>. QED
    BY <2>2, <2>4, <2>5
<1>. HIDE DEF A
<1>4. n \in A
  BY <1>1, <1>2, <1>3, UpTo
<1>. QED
  BY <1>4 DEF A


-----------------------------------------------------------------------------
(***************************************************************************)
(* Numbers as octets.                                                      *)
(***************************************************************************)

(* What is left of v after each octet is taken from it, and the word after *)
(* each octet is shifted into it.                                          *)
AreRests(f, v, n) ==
  /\ f \in [0 .. n -> Int] /\ f[0] = v
  /\ \A k \in 1 .. n : f[k] = f[k - 1] \div Base

AreWords(f, octets, word) ==
  /\ f \in [0 .. Len(octets) -> 0 .. Word - 1] /\ f[0] = word
  /\ \A k \in 1 .. Len(octets) : f[k] = (f[k - 1] * Base + octets[k]) % Word

(* Encoded takes the octets of v one by one.                               *)
LEMMA RestsIs ==
  ASSUME NEW v \in Int, NEW n \in Nat
  PROVE  \E f : AreRests(f, v, n) /\ Encoded(v, n) = [i \in 1 .. n |-> f[n - i] % Base]
<1>. DEFINE P(f) == f = [k \in 0 .. n |-> IF k = 0 THEN v ELSE f[k - 1] \div Base]
            F == CHOOSE f : P(f)
            step == [k \in 1 .. n |-> [y \in Int |-> y \div Base]]
<1>1. step \in [1 .. n -> [Int -> Int]]
  BY Parameters
<1>2. PICK f : Runs(f, Int, v, step, n)
  <2>. HIDE DEF step
  <2>. QED
    BY <1>1, RunExists
<1>3. f \in [0 .. n -> Int] /\ f[0] = v /\ \A k \in 1 .. n : f[k] = step[k][f[k - 1]]
  <2>. HIDE DEF step
  <2>. QED
    BY <1>2 DEF Runs
<1>4. P(f)
  <2>1. ASSUME NEW k \in 0 .. n
        PROVE  f[k] = IF k = 0 THEN v ELSE f[k - 1] \div Base
    <3>1. CASE k = 0
      BY <1>3, <3>1
    <3>2. CASE k # 0
      <4>1. k \in 1 .. n /\ k - 1 \in 0 .. n
        BY <3>2
      <4>2. f[k - 1] \in Int /\ f[k] = step[k][f[k - 1]]
        BY <1>3, <4>1
      <4>3. step[k] = [y \in Int |-> y \div Base]
        BY <4>1
      <4>. QED
        BY <3>2, <4>2, <4>3
    <3>. QED
      BY <3>1, <3>2
  <2>2. f = [k \in 0 .. n |-> f[k]]
    BY <1>3
  <2>. HIDE DEF step
  <2>. QED
    BY <2>1, <2>2
<1>. HIDE DEF step
<1>5. P(F)
  BY <1>4
<1>6. Encoded(v, n) = [i \in 1 .. n |-> F[n - i] % Base]
  BY DEF Encoded
<1>. HIDE DEF F
<1>7. F[0] = v
  BY <1>5
<1>8. ASSUME NEW k \in 1 .. n
      PROVE  F[k] = F[k - 1] \div Base
  <2>1. k \in 0 .. n /\ k # 0
    OBVIOUS
  <2>2. F[k] = IF k = 0 THEN v ELSE F[k - 1] \div Base
    BY <1>5, <2>1
  <2>. QED
    BY <2>1, <2>2
<1>9. F = [k \in 0 .. n |-> F[k]]
  BY <1>5, Zenon
<1>. HIDE DEF P
<1>10. F \in [0 .. n -> Int]
  <2>1. \A k \in 1 .. n : F[k - 1] \in Int => F[k] \in Int
    BY <1>8, Parameters
  <2>. QED
    BY <1>7, <1>9, <2>1, StaysIn
<1>. QED
  BY <1>6, <1>7, <1>8, <1>10 DEF AreRests

(* The word is the first of the powers that a word has.                    *)
LEMMA WordFacts ==
  /\ Word \in Nat \ {0} /\ Word \div 2 \in Nat \ {0} /\ Word = 2 * (Word \div 2)
  /\ Word = Power[WordOctets]
BY Parameters, PowerIs, Halves DEF Word

(* Shifted takes the octets one by one.                                    *)
LEMMA ShiftsIs ==
  ASSUME NEW octets \in Seq(Nat), NEW word \in 0 .. Word - 1
  PROVE  \E f : AreWords(f, octets, word) /\ Shifted(octets, word) = f[Len(octets)]
<1>. DEFINE V == 0 .. Word - 1
            P(f) == f = [k \in 0 .. Len(octets) |->
                          IF k = 0 THEN word ELSE (f[k - 1] * Base + octets[k]) % Word]
            F == CHOOSE f : P(f)
            step == [k \in 1 .. Len(octets) |->
                      [w \in V |-> (w * Base + octets[k]) % Word]]
<1>1. /\ Len(octets) \in Nat /\ word \in V
      /\ \A k \in 1 .. Len(octets) : \A w \in V : (w * Base + octets[k]) % Word \in V
  <2>1. ASSUME NEW k \in 1 .. Len(octets), NEW w \in V
        PROVE  (w * Base + octets[k]) % Word \in V
    <3>1. octets[k] \in Nat
      OBVIOUS
    <3>2. PICK b \in Nat : b = Base
      BY Parameters
    <3>3. PICK x \in Nat : x = w
      OBVIOUS
    <3>4. PICK y \in Int : y = x * b + octets[k]
      BY <3>1
    <3>. QED
      BY <3>2, <3>3, <3>4, Divided, WordFacts
  <2>. QED
    BY <2>1
<1>. HIDE DEF V
<1>2. step \in [1 .. Len(octets) -> [V -> V]]
  BY <1>1
<1>3. PICK f : Runs(f, V, word, step, Len(octets))
  <2>. HIDE DEF step
  <2>. QED
    BY <1>1, <1>2, RunExists
<1>4. /\ f \in [0 .. Len(octets) -> V] /\ f[0] = word
      /\ \A k \in 1 .. Len(octets) : f[k] = step[k][f[k - 1]]
  <2>. HIDE DEF step
  <2>. QED
    BY <1>3 DEF Runs
<1>5. P(f)
  <2>1. ASSUME NEW k \in 0 .. Len(octets)
        PROVE  f[k] = IF k = 0 THEN word ELSE (f[k - 1] * Base + octets[k]) % Word
    <3>1. CASE k = 0
      BY <1>4, <3>1
    <3>2. CASE k # 0
      <4>1. k \in 1 .. Len(octets) /\ k - 1 \in 0 .. Len(octets)
        BY <1>1, <3>2
      <4>2. f[k - 1] \in V /\ f[k] = step[k][f[k - 1]]
        BY <1>4, <4>1
      <4>3. step[k] = [w \in V |-> (w * Base + octets[k]) % Word]
        BY <4>1
      <4>. QED
        BY <3>2, <4>2, <4>3
    <3>. QED
      BY <3>1, <3>2
  <2>2. f = [k \in 0 .. Len(octets) |-> f[k]]
    BY <1>4
  <2>. HIDE DEF step
  <2>. QED
    BY <2>1, <2>2
<1>. HIDE DEF step
<1>6. P(F)
  BY <1>5
<1>7. Shifted(octets, word) = F[Len(octets)]
  BY DEF Shifted
<1>. HIDE DEF F
<1>8. F[0] = word
  BY <1>1, <1>6
<1>9. ASSUME NEW k \in 1 .. Len(octets)
      PROVE  F[k] = (F[k - 1] * Base + octets[k]) % Word
  <2>1. k \in 0 .. Len(octets) /\ k # 0
    BY <1>1
  <2>2. F[k] = IF k = 0 THEN word ELSE (F[k - 1] * Base + octets[k]) % Word
    BY <1>6, <2>1
  <2>. QED
    BY <2>1, <2>2
<1>10. F = [k \in 0 .. Len(octets) |-> F[k]]
  BY <1>6, Zenon
<1>. HIDE DEF P
<1>11. F \in [0 .. Len(octets) -> V]
  <2>1. F[0] \in V /\ \A k \in 1 .. Len(octets) : F[k - 1] \in V => F[k] \in V
    BY <1>1, <1>8, <1>9
  <2>. QED
    BY <1>1, <1>10, <2>1, StaysIn
<1>. QED
  BY <1>7, <1>8, <1>9, <1>11 DEF AreWords, V

(* Encoded gives octets, as many as it is asked for.                       *)
LEMMA EncodedIsOctets ==
  ASSUME NEW v \in Int, NEW n \in Nat
  PROVE  Encoded(v, n) \in Seq(Octet) /\ Len(Encoded(v, n)) = n
<1>1. PICK f : AreRests(f, v, n) /\ Encoded(v, n) = [i \in 1 .. n |-> f[n - i] % Base]
  BY RestsIs
<1>2. ASSUME NEW i \in 1 .. n
      PROVE  f[n - i] % Base \in Octet
  <2>1. n - i \in 0 .. n
    OBVIOUS
  <2>2. PICK y \in Int : y = f[n - i]
    BY <1>1, <2>1 DEF AreRests
  <2>. QED
    BY <2>2, Parameters DEF Octet
<1>3. PICK s : s = [i \in 1 .. n |-> f[n - i] % Base]
  OBVIOUS
<1>4. s \in [1 .. n -> Octet]
  BY <1>2, <1>3
<1>. QED
  BY <1>1, <1>3, <1>4

(* Shifted gives a word.                                                   *)
LEMMA ShiftedIsWord ==
  ASSUME NEW octets \in Seq(Octet), NEW word \in 0 .. Word - 1
  PROVE  Shifted(octets, word) \in 0 .. Word - 1
<1>1. octets \in Seq(Nat)
  BY Parameters DEF Octet
<1>2. PICK f : AreWords(f, octets, word) /\ Shifted(octets, word) = f[Len(octets)]
  BY <1>1, ShiftsIs
<1>3. Len(octets) \in 0 .. Len(octets)
  OBVIOUS
<1>. QED
  BY <1>2, <1>3 DEF AreWords

(* What is left of v is its quotient by the power of what was taken.       *)
LEMMA RestOf ==
  ASSUME NEW v \in Int, NEW n \in 0 .. WordOctets, NEW f, AreRests(f, v, n)
  PROVE  \A k \in 0 .. n : f[k] = v \div Power[k]
<1>. DEFINE A == {k \in 0 .. n : f[k] = v \div Power[k]}
<1>1. n \in Nat /\ WordOctets \in Nat
  BY Parameters
<1>2. 0 \in A
  <2>1. v = v * 1 + 0 /\ 0 \in 0 .. 1 - 1
    OBVIOUS
  <2>2. v \div 1 = v
    BY <2>1
  <2>. QED
    BY <1>1, <2>2, PowerIs DEF AreRests
<1>3. ASSUME NEW k \in 1 .. n, k - 1 \in A
      PROVE  k \in A
  <2>1. k - 1 \in 0 .. WordOctets /\ k \in 1 .. WordOctets /\ k - 1 \in 0 .. n
    BY <1>1
  <2>2. PICK p \in Nat \ {0} : p = Power[k - 1]
    BY <2>1, PowerIs
  <2>3. PICK b \in Nat \ {0} : b = Base
    BY Parameters
  <2>4. PICK q \in Int : q = v \div p
    BY <2>2, Divided
  <2>5. PICK r \in 0 .. p - 1 : r = v % p
    BY <2>2, Divided
  <2>6. PICK q2 \in Int : q2 = q \div b
    BY <2>3, Divided
  <2>7. PICK d \in 0 .. b - 1 : d = q % b
    BY <2>3, Divided
  <2>8. v = q * p + r /\ q = q2 * b + d
    BY <2>4, <2>5, <2>6, <2>7, Divided
  <2>9. PICK w \in Nat \ {0} : w = b * p
    <3>1. b * p \in Nat /\ b * p >= 1
      BY <2>2, <2>3
    <3>. QED
      BY <3>1
  <2>10. PICK s \in 0 .. w - 1 : s = d * p + r
    <3>1. d * p + r >= 0
      BY <2>5, <2>7, <2>2
    <3>2. (d + 1) * p <= b * p
      BY <2>2, <2>3, <2>7
    <3>3. d * p + r < d * p + p /\ d * p + p = (d + 1) * p /\ d * p + r \in Int
      BY <2>2, <2>5, <2>7
    <3>4. PICK x \in Int : x = d * p + r
      BY <3>3
    <3>5. PICK y \in Int : y = (d + 1) * p
      OBVIOUS
    <3>6. x < y /\ y <= w /\ x >= 0
      BY <2>9, <3>1, <3>2, <3>3, <3>4, <3>5
    <3>. QED
      BY <3>4, <3>6
  <2>11. v = q2 * w + s
    BY <2>8, <2>9, <2>10
  <2>12. v \div w = q2
    BY <2>11, Quotient
  <2>13. f[k] = f[k - 1] \div Base /\ Power[k] = w
    BY <2>1, <2>2, <2>3, <2>9, PowerIs DEF AreRests
  <2>14. f[k - 1] = q
    BY <1>3, <2>2, <2>4
  <2>. QED
    BY <1>1, <2>3, <2>6, <2>12, <2>13, <2>14
<1>. HIDE DEF A
<1>4. \A k \in 0 .. n : k \in A
  BY <1>1, <1>2, <1>3, UpTo
<1>. QED
  BY <1>4 DEF A

(* An octet of v is the quotient by the power of those after it, modulo    *)
(* the base, and what comes before it is that quotient without it.         *)
LEMMA EncodedIs ==
  ASSUME NEW v \in Int, NEW n \in 0 .. WordOctets
  PROVE  /\ \A i \in 1 .. n : Encoded(v, n)[i] = (v \div Power[n - i]) % Base
         /\ \A i \in 1 .. n : /\ v \div Power[n - i] \in Int
                              /\ v \div Power[n - (i - 1)] = (v \div Power[n - i]) \div Base
<1>1. n \in Nat /\ WordOctets \in Nat
  BY Parameters
<1>2. PICK f : AreRests(f, v, n) /\ Encoded(v, n) = [i \in 1 .. n |-> f[n - i] % Base]
  BY <1>1, RestsIs
<1>3. \A k \in 0 .. n : f[k] = v \div Power[k]
  BY <1>2, RestOf
<1>4. ASSUME NEW i \in 1 .. n
      PROVE  /\ Encoded(v, n)[i] = (v \div Power[n - i]) % Base
             /\ v \div Power[n - i] \in Int
             /\ v \div Power[n - (i - 1)] = (v \div Power[n - i]) \div Base
  <2>1. /\ n - i \in 0 .. n /\ n - (i - 1) \in 1 .. n /\ n - (i - 1) \in 0 .. n
        /\ n - (i - 1) - 1 = n - i
    BY <1>1
  <2>2. f[n - i] = v \div Power[n - i] /\ f[n - (i - 1)] = v \div Power[n - (i - 1)]
    BY <1>3, <2>1
  <2>3. f[n - (i - 1)] = f[n - i] \div Base /\ f[n - i] \in Int
    BY <1>2, <2>1 DEF AreRests
  <2>4. Encoded(v, n)[i] = f[n - i] % Base
    BY <1>2
  <2>. QED
    BY <2>2, <2>3, <2>4
<1>. QED
  BY <1>4

(* The octets of v, shifted into a word, give v plus what the word had     *)
(* before, less what v has above them, moved to the left of them.          *)
LEMMA ShiftedEncoded ==
  ASSUME NEW v \in Int, NEW n \in 0 .. WordOctets, NEW word \in 0 .. Word - 1
  PROVE  Shifted(Encoded(v, n), word) = (v + (word - v \div Power[n]) * Power[n]) % Word
<1>1. n \in Nat /\ WordOctets \in Nat /\ n \in 0 .. n
  BY Parameters
<1>2. PICK s : s = Encoded(v, n)
  OBVIOUS
<1>3. s \in Seq(Octet) /\ Len(s) = n /\ s \in Seq(Nat)
  <2>1. s \in Seq(Octet) /\ Len(s) = n
    BY <1>1, <1>2, EncodedIsOctets
  <2>. QED
    BY <2>1, Parameters DEF Octet
<1>4. PICK g : AreWords(g, s, word) /\ Shifted(s, word) = g[Len(s)]
  BY <1>3, ShiftsIs
<1>5. PICK R \in Int : R = v \div Power[n]
  BY PowerIs, Divided
<1>6. PICK D \in Int : D = word - R
  BY WordFacts
<1>7. PICK w \in Nat \ {0} : w = Word
  BY WordFacts
<1>. DEFINE A == {i \in 0 .. n : g[i] = (v \div Power[n - i] + D * Power[i]) % w}
<1>8. 0 \in A
  <2>1. R + D * 1 = word /\ word \in 0 .. w - 1 /\ word = 0 * w + word
    BY <1>5, <1>6, <1>7
  <2>2. word % w = word
    BY <2>1, Quotient
  <2>3. g[0] = word /\ n - 0 = n
    BY <1>1, <1>4 DEF AreWords
  <2>4. v \div Power[n - 0] = R /\ D * Power[0] = D * 1
    BY <1>5, <2>3, PowerIs
  <2>5. g[0] = (v \div Power[n - 0] + D * Power[0]) % w
    BY <2>1, <2>2, <2>3, <2>4
  <2>6. 0 \in 0 .. n
    BY <1>1
  <2>. QED
    BY <2>5, <2>6
<1>9. ASSUME NEW i \in 1 .. n, i - 1 \in A
      PROVE  i \in A
  <2>1. i \in 1 .. WordOctets /\ i - 1 \in 0 .. WordOctets /\ n - i \in 0 .. WordOctets
    BY <1>1
  <2>2. PICK b \in Nat \ {0} : b = Base
    BY Parameters
  <2>3. PICK q \in Int : q = v \div Power[n - i]
    BY EncodedIs
  <2>4. PICK q1 \in Int : q1 = q \div b
    BY <2>2, Divided
  <2>5. PICK o \in 0 .. b - 1 : o = q % b
    BY <2>2, Divided
  <2>6. q = q1 * b + o
    BY <2>4, <2>5, Divided
  <2>7. PICK p \in Nat \ {0} : p = Power[i - 1]
    BY <2>1, PowerIs
  <2>8. Power[i] = b * p /\ s[i] = o /\ v \div Power[n - (i - 1)] = q1
    BY <1>2, <2>1, <2>2, <2>3, <2>4, <2>5, <2>7, EncodedIs, PowerIs
  <2>9. PICK X \in Int : X = q1 + D * p
    OBVIOUS
  <2>10. PICK m \in Int : m = X \div w
    BY <1>7, Divided
  <2>11. PICK y \in 0 .. w - 1 : y = X % w
    BY <1>7, Divided
  <2>12. X = m * w + y
    BY <2>10, <2>11, Divided
  <2>13. g[i - 1] = y
    BY <1>9, <2>7, <2>8, <2>9, <2>11
  <2>14. g[i] = (y * b + o) % w
    BY <1>3, <1>4, <1>7, <2>2, <2>8, <2>13 DEF AreWords
  <2>15. PICK Y \in Int : Y = y * b + o
    OBVIOUS
  <2>16. PICK M \in Int : M = m * b
    OBVIOUS
  <2>17. Y + M * w = q + D * (b * p)
    <3>1. X * b = (m * w + y) * b /\ (m * w + y) * b = (m * b) * w + y * b
      BY <2>12
    <3>2. X * b = q1 * b + (D * p) * b /\ (D * p) * b = D * (b * p)
      BY <2>9
    <3>. QED
      BY <2>6, <2>15, <2>16, <3>1, <3>2
  <2>18. (Y + M * w) % w = Y % w
    BY Multiples
  <2>. QED
    BY <1>1, <2>3, <2>8, <2>14, <2>15, <2>17, <2>18
<1>. HIDE DEF A
<1>10. n \in A
  <2>1. \A i \in 0 .. n : i \in A
    BY <1>1, <1>8, <1>9, UpTo
  <2>. QED
    BY <1>1, <2>1
<1>11. v \div Power[0] = v
  <2>1. v = v * 1 + 0 /\ 0 \in 0 .. 1 - 1 /\ v \div 1 = v
    OBVIOUS
  <2>. QED
    BY <2>1, PowerIs
<1>12. n - n = 0
  BY <1>1
<1>. QED
  BY <1>2, <1>3, <1>4, <1>5, <1>6, <1>7, <1>10, <1>11, <1>12 DEF A

(* What a word holds comes back as it was.                                 *)
LEMMA Remainder ==
  ASSUME NEW v \in 0 .. Word - 1
  PROVE  v % Word = v
<1>1. v = 0 * Word + v
  BY WordFacts
<1>. QED
  BY <1>1, WordFacts, Quotient

(* An unsigned number that fits is read as it was written.                 *)
LEMMA UnsignedReadBack ==
  ASSUME NEW n \in 0 .. WordOctets, NEW v \in 0 .. Power[n] - 1
  PROVE  Shifted(Encoded(v, n), 0) = v
<1>1. PICK p \in Nat \ {0} : p = Power[n]
  BY PowerIs
<1>2. v = 0 * p + v /\ v \in 0 .. p - 1 /\ v \in Int
  BY <1>1
<1>3. v \div p = 0
  BY <1>2, Quotient
<1>4. p <= Word
  <2>1. WordOctets \in n .. WordOctets
    BY Parameters
  <2>. QED
    BY <1>1, <2>1, PowersGrow, WordFacts
<1>5. v \in 0 .. Word - 1 /\ 0 \in 0 .. Word - 1
  BY <1>2, <1>4, WordFacts
<1>6. Shifted(Encoded(v, n), 0) = (v + (0 - 0) * p) % Word
  BY <1>1, <1>2, <1>3, <1>5, ShiftedEncoded
<1>7. v + (0 - 0) * p = v
  BY <1>1, <1>2
<1>. QED
  BY <1>5, <1>6, <1>7, Remainder

(* A whole word is read as it was written, but for its sign.               *)
LEMMA WordReadBack ==
  ASSUME NEW v \in Int
  PROVE  Shifted(Encoded(v, WordOctets), 0) = v % Word
<1>1. PICK w \in Nat \ {0} : w = Word /\ w = Power[WordOctets]
  BY WordFacts
<1>2. PICK q \in Int : q = v \div w
  BY Divided
<1>3. PICK m \in Int : m = 0 - q
  OBVIOUS
<1>4. WordOctets \in 0 .. WordOctets /\ 0 \in 0 .. Word - 1
  BY Parameters, WordFacts
<1>5. Shifted(Encoded(v, WordOctets), 0) = (v + m * w) % w
  BY <1>1, <1>2, <1>3, <1>4, ShiftedEncoded
<1>6. (v + m * w) % w = v % w
  BY Multiples
<1>. QED
  BY <1>1, <1>5, <1>6

(* A word is read as a signed number.                                      *)
LEMMA SignedOfWord ==
  /\ \A u \in 0 .. Word - 1 : ToSigned(u) \in -(Word \div 2) .. Word \div 2 - 1
  /\ \A v \in -(Word \div 2) .. Word \div 2 - 1 : ToSigned(v % Word) = v
<1>1. PICK w \in Nat \ {0} : w = Word
  BY WordFacts
<1>2. PICK h \in Nat \ {0} : h = Word \div 2 /\ w = 2 * h
  BY <1>1, WordFacts
<1>3. ASSUME NEW u \in 0 .. w - 1
      PROVE  ToSigned(u) \in -h .. h - 1
  BY <1>1, <1>2 DEF ToSigned
<1>4. ASSUME NEW v \in -h .. h - 1
      PROVE  ToSigned(v % w) = v
  <2>1. CASE v >= 0
    <3>1. v = 0 * w + v /\ v \in 0 .. w - 1
      BY <1>2, <2>1
    <3>2. v % w = v
      BY <3>1, Quotient
    <3>. QED
      BY <1>1, <1>2, <3>2 DEF ToSigned
  <2>2. CASE v < 0
    <3>1. PICK r \in 0 .. w - 1 : r = v + w
      BY <1>2, <2>2
    <3>2. v = (-1) * w + r
      BY <3>1
    <3>3. v % w = r
      BY <3>2, Quotient
    <3>4. ~ (r < h) /\ r - w = v
      BY <1>2, <3>1
    <3>. QED
      BY <1>1, <1>2, <3>3, <3>4 DEF ToSigned
  <2>. QED
    BY <2>1, <2>2
<1>. QED
  BY <1>1, <1>2, <1>3, <1>4

(* A signed number that fits is read as it was written: its first octet    *)
(* has its sign, which the word starts with.                               *)
LEMMA SignedReadBack ==
  ASSUME NEW n \in 1 .. WordOctets, NEW v \in -(Power[n] \div 2) .. Power[n] \div 2 - 1
  PROVE  \E init \in 0 .. Word - 1 :
           /\ Sign(Encoded(v, n)) = {init}
           /\ ToSigned(Shifted(Encoded(v, n), init)) = v
<1>1. /\ n \in Nat /\ WordOctets \in Nat /\ n \in 0 .. WordOctets /\ n - 1 \in 0 .. WordOctets
      /\ WordOctets \in n .. WordOctets /\ 1 \in 1 .. n /\ n # 0
  BY Parameters
<1>2. PICK b \in Nat \ {0} : b = Base
  BY Parameters
<1>3. PICK c \in Nat \ {0} : c = Base \div 2 /\ b = 2 * c
  BY <1>2, Parameters
<1>4. PICK p \in Nat \ {0} : p = Power[n - 1]
  BY <1>1, PowerIs
<1>5. PICK h \in Nat \ {0} : h = Power[n] \div 2 /\ h = c * p /\ Power[n] = 2 * h
  BY <1>1, <1>3, <1>4, Halves
<1>6. PICK w \in Nat \ {0} : w = Word /\ 2 * h <= w
  BY <1>1, <1>5, PowersGrow, WordFacts
<1>7. PICK H \in Nat \ {0} : H = Word \div 2 /\ w = 2 * H
  BY <1>6, WordFacts
<1>8. v \in Int /\ v >= -h /\ v < h
  BY <1>5
<1>9. PICK q \in Int : q = v \div p
  BY <1>4, <1>8, Divided
<1>10. PICK r \in 0 .. p - 1 : r = v % p
  BY <1>4, <1>8, Divided
<1>11. v = q * p + r
  BY <1>8, <1>9, <1>10, Divided
<1>12. PICK s : s = Encoded(v, n)
  OBVIOUS
<1>13. s # << >> /\ s[1] = q % b
  <2>1. Len(s) = n /\ s \in Seq(Octet)
    BY <1>1, <1>8, <1>12, EncodedIsOctets
  <2>2. s[1] = (v \div Power[n - 1]) % Base
    BY <1>1, <1>8, <1>12, EncodedIs
  <2>. QED
    BY <1>1, <1>2, <1>4, <1>9, <2>1, <2>2
<1>14. ToSigned(v % w) = v
  <2>1. v \in -H .. H - 1
    BY <1>6, <1>7, <1>8
  <2>. QED
    BY <1>6, <1>7, <2>1, SignedOfWord
<1>15. CASE v >= 0
  <2>1. q >= 0
    <3>1. ASSUME q <= -1
          PROVE  FALSE
      <4>1. q * p <= -p
        <5>1. PICK e \in Nat : e = -q /\ e >= 1
          BY <3>1
        <5>2. e * p >= p /\ q * p = -(e * p)
          BY <5>1
        <5>. QED
          BY <5>2
      <4>. QED
        BY <1>10, <1>11, <1>15, <4>1
    <3>. QED
      BY <3>1
  <2>2. q < c
    <3>1. ASSUME q >= c
          PROVE  FALSE
      <4>1. PICK e \in Nat : e = q - c
        BY <3>1
      <4>2. q * p = c * p + e * p /\ e * p >= 0
        BY <4>1
      <4>. QED
        BY <1>5, <1>8, <1>10, <1>11, <4>2
    <3>. QED
      BY <3>1
  <2>3. s[1] = q /\ q < c
    <3>1. q = 0 * b + q /\ q \in 0 .. b - 1
      BY <1>3, <2>1, <2>2
    <3>2. q % b = q
      BY <3>1, Quotient
    <3>. QED
      BY <1>13, <2>2, <3>2
  <2>4. Sign(s) = {0}
    BY <1>3, <1>13, <2>3 DEF Sign
  <2>5. v \div (2 * h) = 0
    <3>1. v = 0 * (2 * h) + v /\ v \in 0 .. 2 * h - 1
      BY <1>8, <1>15
    <3>2. PICK k \in Nat \ {0} : k = 2 * h
      OBVIOUS
    <3>. QED
      BY <3>1, <3>2, Quotient
  <2>6. Shifted(s, 0) = (v + (0 - 0) * (2 * h)) % w
    <3>1. 0 \in 0 .. Word - 1
      BY WordFacts
    <3>2. Shifted(s, 0) = (v + (0 - v \div Power[n]) * Power[n]) % Word
      BY <1>1, <1>8, <1>12, <3>1, ShiftedEncoded
    <3>. QED
      BY <1>5, <1>6, <2>5, <3>2
  <2>7. v + (0 - 0) * (2 * h) = v
    BY <1>8
  <2>. QED
    BY <1>6, <1>12, <1>14, <2>4, <2>6, <2>7
<1>16. CASE v < 0
  <2>1. q <= -1
    <3>1. ASSUME q >= 0
          PROVE  FALSE
      <4>1. q * p >= 0
        BY <3>1
      <4>. QED
        BY <1>10, <1>11, <1>16, <4>1
    <3>. QED
      BY <3>1
  <2>2. q >= -c
    <3>1. ASSUME q <= -c - 1
          PROVE  FALSE
      <4>1. PICK e \in Nat : e = -c - 1 - q
        BY <3>1
      <4>2. q * p = -(c * p) - p - e * p /\ e * p >= 0
        BY <4>1
      <4>. QED
        BY <1>5, <1>8, <1>10, <1>11, <4>2
    <3>. QED
      BY <3>1
  <2>3. s[1] >= c /\ s[1] \in Int
    <3>1. PICK d \in 0 .. b - 1 : d = q + b /\ d >= c
      BY <1>3, <2>1, <2>2
    <3>2. q = (-1) * b + d
      BY <3>1
    <3>3. q % b = d
      BY <3>2, Quotient
    <3>. QED
      BY <1>13, <3>1, <3>3
  <2>4. Sign(s) = {w - 1}
    BY <1>3, <1>6, <1>13, <2>3 DEF Sign
  <2>5. v \div (2 * h) = -1
    <3>1. PICK k \in Nat \ {0} : k = 2 * h
      OBVIOUS
    <3>2. PICK d \in 0 .. k - 1 : d = v + k
      BY <1>8, <1>16, <3>1
    <3>3. v = (-1) * k + d
      BY <3>2
    <3>4. v \div k = -1
      BY <1>8, <3>3, Quotient
    <3>. QED
      BY <3>1, <3>4
  <2>6. PICK k \in Int : k = 2 * h
    OBVIOUS
  <2>7. Shifted(s, w - 1) = (v + k * w) % w
    <3>1. w - 1 \in 0 .. Word - 1
      BY <1>6
    <3>2. Shifted(s, w - 1) = (v + ((w - 1) - v \div Power[n]) * Power[n]) % Word
      BY <1>1, <1>8, <1>12, <3>1, ShiftedEncoded
    <3>3. (w - 1) - v \div Power[n] = w /\ Power[n] = k
      BY <1>5, <2>5, <2>6
    <3>4. w * k = k * w
      OBVIOUS
    <3>. QED
      BY <1>6, <3>2, <3>3, <3>4
  <2>8. (v + k * w) % w = v % w
    BY <1>8, Multiples
  <2>9. w - 1 \in 0 .. Word - 1
    BY <1>6
  <2>. QED
    BY <1>12, <1>14, <2>4, <2>7, <2>8, <2>9
<1>. QED
  BY <1>8, <1>15, <1>16

(* An octet shifted into a word that has few enough does not overflow it,  *)
(* be the number without a sign or with one.                               *)
LEMMA ShiftOne ==
  ASSUME NEW b \in Nat \ {0}, NEW p \in Nat \ {0}, NEW o \in 0 .. b - 1,
         NEW w \in Nat \ {0}, b * p <= w
  PROVE  /\ \A u \in 0 .. p - 1 : (u * b + o) % w \in 0 .. b * p - 1
         /\ p <= w => \A u \in w - p .. w - 1 : (u * b + o) % w \in w - b * p .. w - 1
<1>1. PICK P \in Nat \ {0} : P = b * p
  <2>1. b * p \in Nat /\ b * p >= 1
    OBVIOUS
  <2>. QED
    BY <2>1
<1>2. ASSUME NEW u \in 0 .. p - 1
      PROVE  (u * b + o) % w \in 0 .. P - 1
  <2>1. u * b + o >= 0 /\ u * b + o \in Int
    OBVIOUS
  <2>2. PICK e \in Nat : e = p - 1 - u
    OBVIOUS
  <2>3. b * p = (u + e + 1) * b /\ (u + e + 1) * b = u * b + e * b + b /\ e * b >= 0
    BY <2>2
  <2>4. PICK y \in Int : y = u * b + o
    BY <2>1
  <2>5. y < P /\ y >= 0
    BY <1>1, <2>1, <2>3, <2>4
  <2>6. y = 0 * w + y /\ y \in 0 .. w - 1
    BY <1>1, <2>5
  <2>7. y % w = y
    BY <2>6, Quotient
  <2>. QED
    BY <2>4, <2>5, <2>7
<1>3. ASSUME p <= w, NEW u \in w - p .. w - 1
      PROVE  (u * b + o) % w \in w - P .. w - 1
  <2>1. PICK x \in Nat : x = w - u /\ x >= 1 /\ x <= p
    BY <1>3
  <2>2. PICK e \in Nat : e = p - x
    BY <2>1
  <2>3. PICK f \in Nat : f = x - 1
    BY <2>1
  <2>4. P = x * b + e * b /\ e * b >= 0 /\ x * b = f * b + b /\ f * b >= 0
    BY <1>1, <2>2, <2>3
  <2>5. PICK z \in Int : z = x * b - o
    BY <2>1
  <2>6. z >= 1 /\ z <= P
    BY <2>4, <2>5
  <2>7. PICK y \in 0 .. w - 1 : y = w - z
    BY <1>1, <2>6
  <2>8. PICK k \in Int : k = b - 1
    OBVIOUS
  <2>9. u * b + o = k * w + y
    <3>1. u * b = w * b - x * b
      BY <2>1
    <3>2. k * w = b * w - w
      BY <2>8
    <3>. QED
      BY <2>5, <2>7, <3>1, <3>2
  <2>10. PICK t \in Int : t = u * b + o
    OBVIOUS
  <2>11. t % w = y
    BY <2>9, <2>10, Quotient
  <2>. QED
    BY <1>1, <2>6, <2>7, <2>10, <2>11
<1>. QED
  BY <1>1, <1>2, <1>3

(* Octets give a number below the power of as many octets.                 *)
LEMMA UnsignedDecoded ==
  ASSUME NEW s \in Seq(Octet), Len(s) \in 0 .. WordOctets
  PROVE  Shifted(s, 0) \in 0 .. Power[Len(s)] - 1
<1>1. PICK n \in Nat : n = Len(s) /\ n \in 0 .. WordOctets
  OBVIOUS
<1>2. s \in Seq(Nat) /\ 0 \in 0 .. Word - 1
  BY Parameters, WordFacts DEF Octet
<1>3. PICK g : AreWords(g, s, 0) /\ Shifted(s, 0) = g[Len(s)]
  BY <1>2, ShiftsIs
<1>4. PICK w \in Nat \ {0} : w = Word
  BY WordFacts
<1>. DEFINE A == {i \in 0 .. n : g[i] \in 0 .. Power[i] - 1}
<1>5. 0 \in A
  BY <1>1, <1>3, PowerIs DEF AreWords
<1>6. ASSUME NEW i \in 1 .. n, i - 1 \in A
      PROVE  i \in A
  <2>1. /\ i \in 1 .. WordOctets /\ i - 1 \in 0 .. WordOctets /\ i \in 0 .. WordOctets
        /\ WordOctets \in i .. WordOctets
    BY <1>1, Parameters
  <2>2. PICK b \in Nat \ {0} : b = Base
    BY Parameters
  <2>3. PICK p \in Nat \ {0} : p = Power[i - 1]
    BY <2>1, PowerIs
  <2>4. PICK o \in 0 .. b - 1 : o = s[i]
    BY <1>1, <2>2 DEF Octet
  <2>5. PICK u \in 0 .. p - 1 : u = g[i - 1]
    BY <1>6, <2>3
  <2>6. Power[i] = b * p
    BY <2>1, <2>2, <2>3, PowerIs
  <2>7. PICK P \in Nat \ {0} : P = b * p /\ P <= w
    <3>1. Power[i] <= w /\ Power[i] \in Nat \ {0}
      BY <1>4, <2>1, PowersGrow, PowerIs, WordFacts
    <3>. QED
      BY <2>6, <3>1
  <2>8. (u * b + o) % w \in 0 .. b * p - 1
    BY <2>7, ShiftOne
  <2>9. g[i] = (u * b + o) % w
    BY <1>1, <1>3, <1>4, <2>2, <2>4, <2>5 DEF AreWords
  <2>. QED
    BY <2>6, <2>8, <2>9
<1>. HIDE DEF A
<1>7. n \in A
  BY <1>5, <1>6, UpTo
<1>. QED
  BY <1>1, <1>3, <1>7 DEF A

(* Octets with a sign give a number between the halves of that power.      *)
LEMMA SignedDecoded ==
  ASSUME NEW s \in Seq(Octet), Len(s) \in 1 .. WordOctets, NEW init \in Sign(s)
  PROVE  ToSigned(Shifted(s, init))
           \in -(Power[Len(s)] \div 2) .. Power[Len(s)] \div 2 - 1
<1>1. PICK n \in Nat : n = Len(s) /\ n \in 1 .. WordOctets
  OBVIOUS
<1>2. PICK w \in Nat \ {0} : w = Word
  BY WordFacts
<1>3. PICK W \in Nat \ {0} : W = Word \div 2 /\ w = 2 * W
  BY <1>2, WordFacts
<1>4. PICK b \in Nat \ {0} : b = Base
  BY Parameters
<1>5. PICK c \in Nat \ {0} : c = Base \div 2 /\ b = 2 * c
  BY <1>4, Parameters
<1>6. PICK o \in 0 .. b - 1 : o = s[1] /\ s # << >>
  BY <1>1, <1>4 DEF Octet
<1>7. init \in 0 .. w - 1 /\ init = IF o >= c THEN w - 1 ELSE 0
  BY <1>2, <1>5, <1>6 DEF Sign
<1>8. s \in Seq(Nat) /\ init \in 0 .. Word - 1
  BY <1>2, <1>7, Parameters DEF Octet
<1>9. PICK g : AreWords(g, s, init) /\ Shifted(s, init) = g[Len(s)]
  BY <1>8, ShiftsIs
<1>. DEFINE Half(i) == Power[i] \div 2
            A == {k \in 0 .. n - 1 :
                   IF o >= c THEN g[k + 1] \in w - Half(k + 1) .. w - 1
                   ELSE g[k + 1] \in 0 .. Half(k + 1) - 1}
<1>10. \A i \in 1 .. n : /\ Half(i) \in Nat \ {0} /\ Half(i) <= W
                         /\ i > 1 => Half(i) = b * Half(i - 1)
  <2>1. ASSUME NEW i \in 1 .. n
        PROVE  /\ Half(i) \in Nat \ {0} /\ Half(i) <= W
               /\ i > 1 => Half(i) = b * Half(i - 1)
    <3>1. i \in 1 .. WordOctets /\ i \in 0 .. WordOctets /\ WordOctets \in i .. WordOctets
      BY <1>1, Parameters
    <3>2. PICK h \in Nat \ {0} : h = Half(i) /\ Power[i] = 2 * h
      BY <3>1, Halves
    <3>3. 2 * h <= w
      BY <1>2, <3>1, <3>2, PowersGrow, WordFacts
    <3>4. ASSUME i > 1
          PROVE  h = b * Half(i - 1)
      <4>1. i - 1 \in 1 .. WordOctets
        BY <3>1, <3>4
      <4>2. PICK p \in Nat \ {0} : p = Half(i - 1) /\ Power[i - 1] = 2 * p
        BY <4>1, Halves
      <4>3. 2 * h = b * (2 * p)
        BY <1>4, <3>1, <3>2, <4>2, PowerIs
      <4>4. b * (2 * p) = 2 * (b * p)
        OBVIOUS
      <4>. QED
        BY <4>2, <4>3, <4>4
    <3>. QED
      BY <1>3, <3>2, <3>3, <3>4
  <2>. HIDE DEF Half
  <2>. QED
    BY <2>1
<1>11. Half(1) = c
  <2>1. 1 \in 1 .. WordOctets /\ 1 - 1 = 0
    BY Parameters
  <2>2. Half(1) = c * 1
    BY <1>5, <2>1, Halves, PowerIs
  <2>. QED
    BY <2>2
<1>12. b <= w
  BY <1>1, <1>3, <1>5, <1>10, <1>11
<1>. HIDE DEF Half
<1>13. 0 \in A
  <2>1. g[1] = (init * b + o) % w
    <3>1. 1 \in 1 .. Len(s) /\ 1 - 1 = 0
      BY <1>1
    <3>. QED
      BY <1>2, <1>4, <1>6, <1>9, <3>1 DEF AreWords
  <2>2. CASE o >= c
    <3>1. PICK u \in w - 1 .. w - 1 : u = init
      BY <1>7, <2>2
    <3>2. PICK y \in 0 .. w - 1 : y = w - b + o /\ y >= w - c
      <4>1. w - b >= 0 /\ o <= b - 1 /\ c - b = - c
        BY <1>5, <1>12
      <4>2. w - b + o \in 0 .. w - 1 /\ w - b + o >= w - c
        BY <2>2, <4>1
      <4>. QED
        BY <4>2
    <3>3. PICK k \in Int : k = b - 1
      OBVIOUS
    <3>4. PICK t \in Int : t = init * b + o
      BY <1>7
    <3>5. t = k * w + y
      <4>1. u = w - 1 /\ u * b = w * b - b /\ k * w = b * w - w /\ t = u * b + o
        BY <3>1, <3>3, <3>4
      <4>. QED
        BY <3>2, <4>1
    <3>6. t % w = y
      BY <3>5, Quotient
    <3>. QED
      BY <1>1, <1>11, <2>1, <2>2, <3>2, <3>4, <3>6
  <2>3. CASE ~ (o >= c)
    <3>1. init * b + o = o
      BY <1>7, <2>3
    <3>2. o = 0 * w + o /\ o \in 0 .. w - 1
      BY <1>12
    <3>3. o % w = o
      BY <3>2, Quotient
    <3>. QED
      BY <1>1, <1>11, <2>1, <2>3, <3>1, <3>3
  <2>. QED
    BY <2>2, <2>3
<1>14. ASSUME NEW k \in 1 .. n - 1, k - 1 \in A
       PROVE  k \in A
  <2>1. /\ k \in 1 .. n /\ k + 1 \in 1 .. n /\ k + 1 > 1 /\ k + 1 - 1 = k /\ k - 1 + 1 = k
        /\ k \in 0 .. n - 1
    BY <1>1
  <2>2. PICK p \in Nat \ {0} : p = Half(k) /\ p <= W
    BY <1>10, <2>1
  <2>3. Half(k + 1) = b * p /\ b * p <= w /\ p <= w
    BY <1>3, <1>10, <2>1, <2>2
  <2>4. PICK d \in 0 .. b - 1 : d = s[k + 1]
    BY <1>1, <1>4, <2>1 DEF Octet
  <2>5. g[k + 1] = (g[k] * b + d) % w
    BY <1>1, <1>2, <1>4, <1>9, <2>1, <2>4 DEF AreWords
  <2>6. IF o >= c THEN g[k] \in w - p .. w - 1 ELSE g[k] \in 0 .. p - 1
    BY <1>14, <2>1, <2>2
  <2>7. /\ \A u \in 0 .. p - 1 : (u * b + d) % w \in 0 .. b * p - 1
        /\ \A u \in w - p .. w - 1 : (u * b + d) % w \in w - b * p .. w - 1
    BY <2>3, ShiftOne
  <2>. QED
    BY <2>1, <2>3, <2>5, <2>6, <2>7
<1>15. n - 1 \in A /\ n - 1 + 1 = n
  <2>1. n - 1 \in Nat /\ n - 1 \in 0 .. n - 1 /\ n - 1 + 1 = n
    BY <1>1
  <2>. HIDE DEF A
  <2>2. \A k \in 0 .. n - 1 : k \in A
    BY <1>13, <1>14, <2>1, UpTo
  <2>. QED
    BY <2>1, <2>2
<1>16. PICK h \in Nat \ {0} : h = Half(n) /\ h <= W
  BY <1>1, <1>10
<1>17. IF o >= c THEN g[n] \in w - h .. w - 1 ELSE g[n] \in 0 .. h - 1
  BY <1>15, <1>16
<1>18. PICK u : u = g[n]
  OBVIOUS
<1>19. ToSigned(u) \in -h .. h - 1
  BY <1>2, <1>3, <1>16, <1>17, <1>18 DEF ToSigned
<1>. QED
  BY <1>1, <1>9, <1>16, <1>18, <1>19 DEF Half

-----------------------------------------------------------------------------
(***************************************************************************)
(* The order of the octets.                                                *)
(***************************************************************************)

(* Turned over twice octets are as they were.                              *)
LEMMA ReverseFacts ==
  ASSUME NEW S, NEW s \in Seq(S)
  PROVE  Reverse(s) \in Seq(S) /\ Len(Reverse(s)) = Len(s) /\ Reverse(Reverse(s)) = s
<1>1. Len(s) \in Nat /\ \A i \in 1 .. Len(s) : Len(s) - i + 1 \in 1 .. Len(s)
  OBVIOUS
<1>2. PICK r : r = [i \in 1 .. Len(s) |-> s[(Len(s) - i) + 1]]
  OBVIOUS
<1>3. Reverse(s) = r
  BY <1>2 DEF Reverse
<1>4. r \in [1 .. Len(s) -> S]
  BY <1>1, <1>2
<1>5. r \in Seq(S) /\ Len(r) = Len(s)
  BY <1>1, <1>4
<1>6. PICK t : t = [i \in 1 .. Len(r) |-> r[(Len(r) - i) + 1]]
  OBVIOUS
<1>7. Reverse(r) = t
  BY <1>6 DEF Reverse
<1>8. ASSUME NEW i \in 1 .. Len(s)
      PROVE  t[i] = s[i]
  <2>1. PICK j \in 1 .. Len(s) : j = Len(s) - i + 1 /\ Len(s) - j + 1 = i
    BY <1>1
  <2>2. t[i] = r[j] /\ r[j] = s[(Len(s) - j) + 1]
    BY <1>2, <1>5, <1>6, <2>1
  <2>. QED
    BY <2>1, <2>2
<1>9. t \in [1 .. Len(s) -> S]
  BY <1>1, <1>4, <1>5, <1>6
<1>10. t = s
  BY <1>1, <1>8, <1>9
<1>. QED
  BY <1>3, <1>5, <1>7, <1>10

(* The half of a number of octets and its sign are octets, as many.        *)
LEMMA LowerHalfIsOctets ==
  ASSUME NEW s \in Seq(Octet)
  PROVE  LowerHalf(s) \in Seq(Octet) /\ Len(LowerHalf(s)) = Len(s)
<1>. DEFINE n == Len(s) \div 2
            sign == IF s[n] >= Base \div 2 THEN Base - 1 ELSE 0
<1>1. sign \in Octet
  BY Parameters DEF Octet
<1>2. PICK h : h = [i \in 1 .. Len(s) |-> IF i <= n THEN s[i] ELSE sign]
  OBVIOUS
<1>3. LowerHalf(s) = h
  BY <1>2 DEF LowerHalf
<1>. HIDE DEF n, sign
<1>4. h \in [1 .. Len(s) -> Octet]
  BY <1>1, <1>2
<1>. QED
  BY <1>3, <1>4

(* A swap gives octets, as many.                                           *)
LEMMA SwapIsOctets ==
  ASSUME NEW build \in Build, NEW s \in Seq(Octet)
  PROVE  SwapBig(build, s) \in Seq(Octet) /\ Len(SwapBig(build, s)) = Len(s)
<1>1. PICK r : r = Reverse(s)
  OBVIOUS
<1>2. r \in Seq(Octet) /\ Len(r) = Len(s)
  BY <1>1, ReverseFacts
<1>3. LowerHalf(r) \in Seq(Octet) /\ Len(LowerHalf(r)) = Len(s)
  BY <1>2, LowerHalfIsOctets
<1>4. SwapBig(build, s) \in {s, r, LowerHalf(r)}
  <2>1. CASE build = "big"
    BY <2>1 DEF SwapBig
  <2>2. CASE build # "big" /\ build = "msvc" /\ Len(s) = FloatOctets
    BY <1>1, <2>2 DEF SwapBig
  <2>3. CASE build # "big" /\ ~ (build = "msvc" /\ Len(s) = FloatOctets)
    BY <1>1, <2>3 DEF SwapBig
  <2>. QED
    BY <2>1, <2>2, <2>3
<1>. QED
  BY <1>2, <1>3, <1>4

(* What a build writes of an object is octets, as many as it has.          *)
LEMMA ToBigIsOctets ==
  ASSUME NEW build \in Build, NEW v \in Int, NEW n \in Nat
  PROVE  ToBig(build, v, n) \in Seq(Octet) /\ Len(ToBig(build, v, n)) = n
<1>1. PICK e : e = Encoded(v, n)
  OBVIOUS
<1>2. e \in Seq(Octet) /\ Len(e) = n
  BY <1>1, EncodedIsOctets
<1>3. PICK m : m = InMemory(build, v, n)
  OBVIOUS
<1>4. m \in Seq(Octet) /\ Len(m) = n
  BY <1>1, <1>2, <1>3, ReverseFacts DEF InMemory
<1>. QED
  BY <1>3, <1>4, SwapIsOctets DEF ToBig

(* What a build reads is some octets shifted into a word.                  *)
LEMMA FromBigIsShifted ==
  ASSUME NEW build \in Build, NEW s \in Seq(Octet)
  PROVE  \E t \in Seq(Octet) : Len(t) = Len(s) /\ FromBig(build, s) = Shifted(t, 0)
<1>1. PICK m : m = SwapBig(build, s)
  OBVIOUS
<1>2. m \in Seq(Octet) /\ Len(m) = Len(s)
  BY <1>1, SwapIsOctets
<1>3. PICK t : t = IF build = "big" THEN m ELSE Reverse(m)
  OBVIOUS
<1>4. t \in Seq(Octet) /\ Len(t) = Len(s)
  BY <1>2, <1>3, ReverseFacts
<1>5. FromBig(build, s) = Shifted(t, 0)
  BY <1>1, <1>3 DEF FromBig, FromMemory
<1>. QED
  BY <1>4, <1>5

(* All builds write and read the octets of a number, but msvc a short one. *)
LEMMA BuildsAgree ==
  ASSUME NEW build \in Build, NEW n \in Nat, build # "msvc" \/ n # FloatOctets
  PROVE  /\ \A v \in Int : ToBig(build, v, n) = Encoded(v, n)
         /\ \A s \in Seq(Octet) : Len(s) = n => FromBig(build, s) = Shifted(s, 0)
<1>1. ASSUME NEW s, Len(s) = n
      PROVE  SwapBig(build, s) = IF build = "big" THEN s ELSE Reverse(s)
  <2>1. CASE build = "big"
    BY <2>1 DEF SwapBig
  <2>2. CASE build # "big"
    <3>1. ~ (build = "msvc" /\ Len(s) = FloatOctets)
      BY <1>1
    <3>. QED
      BY <2>2, <3>1 DEF SwapBig
  <2>. QED
    BY <2>1, <2>2
<1>2. ASSUME NEW v \in Int
      PROVE  ToBig(build, v, n) = Encoded(v, n)
  <2>1. PICK e : e = Encoded(v, n)
    OBVIOUS
  <2>2. PICK r : r = Reverse(e)
    OBVIOUS
  <2>3. Len(e) = n /\ Len(r) = n /\ Reverse(r) = e
    BY <2>1, <2>2, EncodedIsOctets, ReverseFacts
  <2>4. PICK m : m = IF build = "big" THEN e ELSE r
    OBVIOUS
  <2>5. SwapBig(build, m) = e
    BY <1>1, <2>3, <2>4
  <2>. QED
    BY <2>1, <2>2, <2>4, <2>5 DEF ToBig, InMemory
<1>3. ASSUME NEW s \in Seq(Octet), Len(s) = n
      PROVE  FromBig(build, s) = Shifted(s, 0)
  <2>1. Reverse(Reverse(s)) = s
    BY ReverseFacts
  <2>. QED
    BY <1>1, <1>3, <2>1 DEF FromBig, FromMemory
<1>. QED
  BY <1>2, <1>3

-----------------------------------------------------------------------------
(***************************************************************************)
(* Floats, dates, strings and integers.                                    *)
(***************************************************************************)

(* A word is that many floats, an even number, for each value of a float.  *)
LEMMA UnitFacts ==
  /\ FloatUnit \in Nat \ {0} /\ FloatUnit \div 2 \in Nat \ {0}
  /\ FloatUnit = 2 * (FloatUnit \div 2)
  /\ Power[FloatOctets] \in Nat \ {0} /\ Word = Power[FloatOctets] * FloatUnit
<1>1. /\ FloatOctets \in 0 .. WordOctets
      /\ WordOctets - FloatOctets \in 0 .. WordOctets - FloatOctets
      /\ WordOctets - FloatOctets \in 1 .. WordOctets
      /\ FloatOctets + (WordOctets - FloatOctets) = WordOctets
  BY Parameters
<1>2. PICK k : k = WordOctets - FloatOctets
  OBVIOUS
<1>3. Power[FloatOctets + k] = Power[FloatOctets] * Power[k]
  BY <1>1, <1>2, PowerOfSum
<1>4. /\ Power[k] \in Nat \ {0} /\ Power[k] \div 2 \in Nat \ {0}
      /\ Power[k] = 2 * (Power[k] \div 2)
  BY <1>1, <1>2, Halves, PowerIs
<1>5. Power[FloatOctets] \in Nat \ {0}
  BY <1>1, PowerIs
<1>6. Word = Power[FloatOctets] * Power[k]
  BY <1>1, <1>2, <1>3, WordFacts
<1>. QED
  BY <1>2, <1>4, <1>5, <1>6 DEF FloatUnit

(* A word divided by the unit, rounded, is the float nearest to it.        *)
LEMMA NarrowedFacts ==
  ASSUME NEW v \in 0 .. Word - 1
  PROVE  /\ Narrowed(v) \in 0 .. Power[FloatOctets] - 1
         /\ \A f \in 0 .. Power[FloatOctets] - 1 :
              Distance(Narrowed(v) * FloatUnit, v) <= Distance(f * FloatUnit, v)
<1>1. PICK u \in Nat \ {0} : u = FloatUnit
  BY UnitFacts
<1>2. PICK h \in Nat \ {0} : h = FloatUnit \div 2 /\ u = 2 * h
  BY <1>1, UnitFacts
<1>3. PICK p \in Nat \ {0} : p = Power[FloatOctets] /\ Word = p * u
  BY <1>1, UnitFacts
<1>4. PICK x \in Nat : x = v /\ x < p * u
  BY <1>3
<1>5. PICK y \in Int : y = x + h
  OBVIOUS
<1>6. PICK q \in Int : q = y \div u
  BY Divided
<1>7. PICK r \in 0 .. u - 1 : r = y % u
  BY Divided
<1>8. x + h = q * u + r
  BY <1>5, <1>6, <1>7, Divided
<1>9. q >= 0
  <2>1. ASSUME q <= -1
        PROVE  FALSE
    <3>1. PICK e \in Nat : e = -q - 1
      BY <2>1
    <3>2. q * u = -u - e * u /\ e * u >= 0
      BY <3>1
    <3>. QED
      BY <1>7, <1>8, <3>2
  <2>. QED
    BY <2>1
<1>10. q <= p
  <2>1. ASSUME q >= p + 1
        PROVE  FALSE
    <3>1. PICK e \in Nat : e = q - p - 1
      BY <2>1
    <3>2. q * u = p * u + u + e * u /\ e * u >= 0
      BY <3>1
    <3>3. PICK t \in Int : t = p * u
      OBVIOUS
    <3>. QED
      BY <1>2, <1>4, <1>7, <1>8, <3>2, <3>3
  <2>. QED
    BY <2>1
<1>11. PICK m \in 0 .. p - 1 : m = IF q < p THEN q ELSE q - 1
  BY <1>9, <1>10
<1>12. Narrowed(v) = m
  BY <1>1, <1>2, <1>3, <1>4, <1>5, <1>6, <1>11 DEF Narrowed
<1>13. ASSUME NEW f \in 0 .. p - 1
       PROVE  Distance(m * u, x) <= Distance(f * u, x)
  <2>1. PICK a \in Int : a = q * u
    OBVIOUS
  <2>2. PICK c \in Int : c = f * u
    OBVIOUS
  <2>3. CASE f = m
    BY <2>2, <2>3 DEF Distance
  <2>4. CASE f < q /\ m = q
    <3>1. PICK e \in Nat : e = q - f - 1
      BY <2>4
    <3>2. a = c + u + e * u /\ e * u >= 0
      BY <2>1, <2>2, <3>1
    <3>3. c <= a - u
      BY <2>1, <2>2, <3>2
    <3>4. x - a <= h /\ a - x <= h
      BY <1>2, <1>7, <1>8, <2>1
    <3>. QED
      BY <1>2, <2>1, <2>2, <2>4, <3>3, <3>4 DEF Distance
  <2>5. CASE f > q /\ m = q
    <3>1. PICK e \in Nat : e = f - q - 1
      BY <2>5
    <3>2. c = a + u + e * u /\ e * u >= 0
      BY <2>1, <2>2, <3>1
    <3>3. c >= a + u
      BY <2>1, <2>2, <3>2
    <3>4. x - a <= h /\ a - x <= h
      BY <1>2, <1>7, <1>8, <2>1
    <3>. QED
      BY <1>2, <2>1, <2>2, <2>5, <3>3, <3>4 DEF Distance
  <2>6. CASE m = q - 1
    <3>1. q = p
      BY <1>10, <1>11, <2>6
    <3>2. PICK e \in Nat : e = m - f
      BY <1>11, <2>6, <3>1
    <3>3. m * u = a - u /\ a - u = c + e * u /\ e * u >= 0
      BY <2>1, <2>2, <2>6, <3>2
    <3>4. a - u <= x /\ c <= a - u
      BY <1>2, <1>7, <1>8, <2>1, <2>2, <3>3
    <3>. QED
      BY <2>1, <2>2, <3>3, <3>4 DEF Distance
  <2>. QED
    BY <1>11, <2>3, <2>4, <2>5, <2>6
<1>. QED
  BY <1>1, <1>3, <1>4, <1>11, <1>12, <1>13

(* A date is kept as a word with a sign, and comes back when its           *)
(* nanoseconds are one.                                                    *)
LEMMA DateFacts ==
  ASSUME NEW v \in Int
  PROVE  /\ EpochToEbml(v) \in -(Word \div 2) .. Word \div 2 - 1
         /\ IsRepresentable(v) => EbmlToEpoch(EpochToEbml(v)) = v
         /\ IsRepresentable(v) /\ EpochToEbml(v) = 0 => v = UnixEpochDelay
<1>1. PICK a \in Nat \ {0} : a = Nanos
  BY DateAssumption
<1>2. PICK u \in Nat : u = UnixEpochDelay
  BY DateAssumption
<1>3. PICK d \in Int : d = v - u
  OBVIOUS
<1>4. PICK x \in Int : x = d * a
  OBVIOUS
<1>5. EpochToEbml(v) = ToSigned(x % Word)
  BY <1>1, <1>2, <1>3, <1>4 DEF EpochToEbml
<1>6. x % Word \in 0 .. Word - 1
  BY Divided, WordFacts
<1>7. IsRepresentable(v) <=> x \in -(Word \div 2) .. Word \div 2 - 1
  BY <1>1, <1>2, <1>3, <1>4 DEF IsRepresentable
<1>8. ASSUME IsRepresentable(v)
      PROVE  /\ EpochToEbml(v) = x
             /\ EbmlToEpoch(x) = v
             /\ x = 0 => v = u
  <2>1. EpochToEbml(v) = x
    BY <1>5, <1>7, <1>8, SignedOfWord
  <2>2. CASE x < 0
    <3>1. PICK e \in Int : e = -d
      OBVIOUS
    <3>2. PICK y \in Int : y = -x
      OBVIOUS
    <3>3. y = e * a + 0 /\ 0 \in 0 .. a - 1
      BY <1>4, <3>1, <3>2
    <3>4. y \div a = e
      BY <3>3, Quotient
    <3>. QED
      BY <1>1, <1>2, <1>3, <2>1, <2>2, <3>1, <3>2, <3>4 DEF EbmlToEpoch
  <2>3. CASE x >= 0
    <3>1. x = d * a + 0 /\ 0 \in 0 .. a - 1
      BY <1>4
    <3>2. x \div a = d
      BY <3>1, Quotient
    <3>3. x = 0 => d = 0
      BY <3>2
    <3>. QED
      BY <1>1, <1>2, <1>3, <2>1, <2>3, <3>2, <3>3 DEF EbmlToEpoch
  <2>. QED
    BY <2>2, <2>3
<1>. QED
  BY <1>2, <1>5, <1>6, <1>8, SignedOfWord

(* The octets before the first NUL, and where they end.                    *)
IsCut(s, k) ==
  /\ k \in 0 .. Len(s) /\ \A i \in 1 .. k : s[i] # 0
  /\ k = Len(s) \/ s[k + 1] = 0

(* Cut keeps them.                                                         *)
LEMMA CutIs ==
  ASSUME NEW s \in Seq(Octet)
  PROVE  \E k : IsCut(s, k) /\ Cut(s) = SubSeq(s, 1, k)
<1>. DEFINE I == {i \in 1 .. Len(s) : s[i] = 0}
            nul == SelectInSeq(s, LAMBDA octet : octet = 0)
<1>1. Len(s) \in Nat
  OBVIOUS
<1>2. nul = IF I # {} THEN Min(I) ELSE 0
  BY DEF SelectInSeq
<1>3. Cut(s) = IF nul = 0 THEN s ELSE SubSeq(s, 1, nul - 1)
  BY DEF Cut
<1>. HIDE DEF nul
<1>4. CASE I = {}
  <2>1. Cut(s) = s /\ SubSeq(s, 1, Len(s)) = s
    BY <1>1, <1>2, <1>3, <1>4
  <2>2. IsCut(s, Len(s))
    BY <1>1, <1>4 DEF IsCut
  <2>. QED
    BY <2>1, <2>2
<1>5. CASE I # {}
  <2>1. I \in SUBSET Nat
    OBVIOUS
  <2>2. PICK m \in I : \A i \in I : m <= i
    <3>. HIDE DEF I
    <3>. QED
      BY <1>5, <2>1, LeastNatural
  <2>3. Min(I) \in I /\ \A i \in I : Min(I) <= i
    <3>. HIDE DEF I
    <3>. QED
      BY <2>2 DEF Min
  <2>4. nul \in 1 .. Len(s) /\ s[nul] = 0 /\ \A i \in 1 .. nul - 1 : s[i] # 0
    <3>1. PICK n \in I : n = nul /\ \A i \in I : n <= i
      <4>. HIDE DEF I
      <4>. QED
        BY <1>2, <1>5, <2>3
    <3>. QED
      BY <3>1
  <2>5. PICK k \in Nat : k = nul - 1
    BY <2>4
  <2>6. IsCut(s, k)
    BY <1>1, <2>4, <2>5 DEF IsCut
  <2>. QED
    BY <1>3, <2>4, <2>5, <2>6
<1>. QED
  BY <1>4, <1>5

(* What is cut is octets, no more than before, and has no NUL.             *)
LEMMA CutFacts ==
  ASSUME NEW s \in Seq(Octet)
  PROVE  Cut(s) \in Seq(Octet) /\ Len(Cut(s)) <= Len(s) /\ Cut(Cut(s)) = Cut(s)
<1>1. PICK k : IsCut(s, k) /\ Cut(s) = SubSeq(s, 1, k)
  BY CutIs
<1>2. k \in 0 .. Len(s) /\ Len(s) \in Nat /\ \A i \in 1 .. k : s[i] # 0
  BY <1>1 DEF IsCut
<1>3. PICK t : t = SubSeq(s, 1, k)
  OBVIOUS
<1>4. t \in Seq(Octet) /\ Len(t) = k /\ \A i \in 1 .. k : t[i] = s[i]
  BY <1>2, <1>3
<1>5. PICK j : IsCut(t, j) /\ Cut(t) = SubSeq(t, 1, j)
  BY <1>4, CutIs
<1>6. j = k
  BY <1>2, <1>4, <1>5 DEF IsCut
<1>7. SubSeq(t, 1, k) = t
  BY <1>2, <1>4
<1>. QED
  BY <1>1, <1>2, <1>3, <1>4, <1>5, <1>6, <1>7

(* A string is padded with NULs up to the default size.                    *)
LEMMA PaddedIs ==
  ASSUME NEW s \in Seq(Octet), NEW n \in Nat
  PROVE  /\ Padded(s, n) \in Seq(Octet)
         /\ Len(Padded(s, n)) = IF Len(s) < n THEN n ELSE Len(s)
         /\ \A i \in 1 .. Len(s) : Padded(s, n)[i] = s[i]
         /\ \A i \in Len(s) + 1 .. n : Padded(s, n)[i] = 0
<1>1. PICK l \in Nat : l = Len(s)
  OBVIOUS
<1>2. PICK m \in Nat : m = IF l < n THEN n - l ELSE 0
  <2>1. (IF l < n THEN n - l ELSE 0) \in Nat
    OBVIOUS
  <2>. QED
    BY <2>1
<1>3. PICK z : z = [i \in 1 .. m |-> 0]
  OBVIOUS
<1>4. z \in Seq(Octet) /\ Len(z) = m /\ \A i \in 1 .. m : z[i] = 0
  <2>1. 0 \in Octet
    BY Parameters DEF Octet
  <2>. QED
    BY <1>3, <2>1
<1>5. Padded(s, n) = s \o z
  BY <1>1, <1>2, <1>3 DEF Padded
<1>6. s \o z \in Seq(Octet) /\ Len(s \o z) = l + m
  BY <1>1, <1>4
<1>7. /\ \A i \in 1 .. l : (s \o z)[i] = s[i]
      /\ \A i \in l + 1 .. l + m : (s \o z)[i] = 0
  <2>1. \A i \in 1 .. l : (s \o z)[i] = s[i]
    BY <1>1, <1>4
  <2>2. ASSUME NEW i \in l + 1 .. l + m
        PROVE  (s \o z)[i] = 0
    <3>1. (s \o z)[i] = z[i - l] /\ i - l \in 1 .. m
      BY <1>1, <1>4
    <3>. QED
      BY <1>4, <3>1
  <2>. QED
    BY <2>1, <2>2
<1>8. l + m = IF l < n THEN n ELSE l
  BY <1>2
<1>9. \A i \in l + 1 .. n : i \in l + 1 .. l + m
  BY <1>2
<1>. QED
  BY <1>1, <1>5, <1>6, <1>7, <1>8, <1>9

(* The NULs come off again.                                                *)
LEMMA CutPadded ==
  ASSUME NEW s \in Seq(Octet), NEW n \in Nat
  PROVE  Cut(Padded(s, n)) = Cut(s)
<1>1. PICK t : t = Padded(s, n)
  OBVIOUS
<1>2. PICK l \in Nat : l = Len(s)
  OBVIOUS
<1>3. /\ t \in Seq(Octet) /\ Len(t) = IF l < n THEN n ELSE l
      /\ \A i \in 1 .. l : t[i] = s[i]
      /\ \A i \in l + 1 .. n : t[i] = 0
  BY <1>1, <1>2, PaddedIs
<1>4. PICK k : IsCut(s, k) /\ Cut(s) = SubSeq(s, 1, k)
  BY CutIs
<1>5. PICK j : IsCut(t, j) /\ Cut(t) = SubSeq(t, 1, j)
  BY <1>3, CutIs
<1>6. k \in 0 .. l /\ (\A i \in 1 .. k : s[i] # 0) /\ (k = l \/ s[k + 1] = 0)
  BY <1>2, <1>4 DEF IsCut
<1>7. j \in 0 .. Len(t) /\ (\A i \in 1 .. j : t[i] # 0) /\ (j = Len(t) \/ t[j + 1] = 0)
  BY <1>5 DEF IsCut
<1>8. PICK m \in Nat : m = Len(t) /\ l <= m /\ (m = l \/ m = n)
  BY <1>3
<1>9. ~ (k < j)
  <2>1. ASSUME k < j
        PROVE  FALSE
    <3>1. k + 1 \in 1 .. j
      BY <1>6, <1>7, <1>8, <2>1
    <3>2. CASE k < l
      BY <1>3, <1>6, <1>7, <3>1, <3>2
    <3>3. CASE k = l
      BY <1>3, <1>7, <1>8, <2>1, <3>1, <3>3
    <3>. QED
      BY <1>6, <3>2, <3>3
  <2>. QED
    BY <2>1
<1>10. ~ (j < k)
  BY <1>3, <1>6, <1>7, <1>8
<1>11. j = k
  BY <1>6, <1>7, <1>8, <1>9, <1>10
<1>12. SubSeq(t, 1, k) = SubSeq(s, 1, k)
  BY <1>2, <1>3, <1>6, <1>8
<1>. QED
  BY <1>1, <1>4, <1>5, <1>11, <1>12

(* The values an integer of n octets may have; all have those of a word.   *)
Bottom(c, n) == IF c = "EbmlUInteger" THEN 0 ELSE -(Power[n] \div 2)
Top(c, n) == IF c = "EbmlUInteger" THEN Power[n] - 1 ELSE Power[n] \div 2 - 1

(* Fits asks for them, more octets have more, and a word has the domain.   *)
LEMMA FitsFacts ==
  ASSUME NEW c \in Integers_
  PROVE  /\ \A v \in Domain(c), n \in 1 .. WordOctets :
              Fits(c, v, n) <=> v \in Bottom(c, n) .. Top(c, n)
         /\ \A v \in Domain(c), n \in 1 .. WordOctets : \A m \in n .. WordOctets :
              Fits(c, v, n) => Fits(c, v, m)
         /\ Domain(c) = Bottom(c, WordOctets) .. Top(c, WordOctets)
<1>1. c = "EbmlUInteger" \/ c = "EbmlSInteger"
  BY DEF Integers_
<1>2. Domain(c) = Bottom(c, WordOctets) .. Top(c, WordOctets)
  BY <1>1, WordFacts DEF Domain, Bottom, Top
<1>3. ASSUME NEW v \in Domain(c), NEW n \in 1 .. WordOctets
      PROVE  Fits(c, v, n) <=> v \in Bottom(c, n) .. Top(c, n)
  <2>1. n \in 0 .. WordOctets
    BY Parameters
  <2>2. PICK p \in Nat \ {0} : p = Power[n]
    BY <2>1, PowerIs
  <2>3. PICK h \in Nat \ {0} : h = Power[n] \div 2
    BY Halves
  <2>4. CASE c = "EbmlUInteger"
    <3>1. v \in Nat
      BY <2>4, WordFacts DEF Domain
    <3>. QED
      BY <2>2, <2>4, <3>1 DEF Fits, Bottom, Top
  <2>5. CASE c = "EbmlSInteger"
    <3>1. v \in Int
      BY <2>5, WordFacts DEF Domain
    <3>. QED
      BY <2>3, <2>5, <3>1 DEF Fits, Bottom, Top
  <2>. QED
    BY <1>1, <2>4, <2>5
<1>4. ASSUME NEW v \in Domain(c), NEW n \in 1 .. WordOctets, NEW m \in n .. WordOctets,
             Fits(c, v, n)
      PROVE  Fits(c, v, m)
  <2>1. /\ n \in 0 .. WordOctets /\ m \in 0 .. WordOctets /\ m \in 1 .. WordOctets
    BY Parameters
  <2>2. Power[n] <= Power[m] /\ Power[n] \in Nat \ {0} /\ Power[m] \in Nat \ {0}
    BY <2>1, PowersGrow, PowerIs
  <2>3. /\ Power[n] \div 2 \in Nat /\ Power[m] \div 2 \in Nat
        /\ Power[n] = 2 * (Power[n] \div 2) /\ Power[m] = 2 * (Power[m] \div 2)
    BY <2>1, Halves
  <2>4. Bottom(c, n) .. Top(c, n) \subseteq Bottom(c, m) .. Top(c, m)
    BY <2>2, <2>3 DEF Bottom, Top
  <2>. QED
    BY <1>3, <1>4, <2>1, <2>4
<1>. QED
  BY <1>2, <1>3, <1>4

(* IntegerSize is the least size a value fits in.                          *)
LEMMA IntegerSizeIs ==
  ASSUME NEW c \in Integers_, NEW v \in Domain(c)
  PROVE  /\ IntegerSize(c, v) \in 1 .. WordOctets
         /\ Fits(c, v, IntegerSize(c, v))
         /\ \A k \in 1 .. IntegerSize(c, v) - 1 : ~ Fits(c, v, k)
<1>. DEFINE S == {n \in 1 .. WordOctets : Fits(c, v, n)}
            P(n) == /\ n = WordOctets \/ Fits(c, v, n)
                    /\ \A k \in 1 .. n - 1 : ~ Fits(c, v, k)
<1>1. WordOctets \in 1 .. WordOctets
  BY Parameters
<1>2. Fits(c, v, WordOctets)
  BY <1>1, FitsFacts
<1>3. WordOctets \in S /\ S \in SUBSET Nat
  BY <1>1, <1>2
<1>4. PICK n \in S : \A m \in S : n <= m
  <2>. HIDE DEF S
  <2>. QED
    BY <1>3, LeastNatural
<1>5. n \in 1 .. WordOctets /\ P(n)
  <2>1. n \in 1 .. WordOctets /\ Fits(c, v, n) /\ n \in Nat
    BY <1>4
  <2>2. ASSUME NEW k \in 1 .. n - 1, Fits(c, v, k)
        PROVE  FALSE
    <3>1. k \in S
      BY <2>1, <2>2, Parameters
    <3>2. n <= k
      BY <1>4, <3>1
    <3>. QED
      BY <2>1, <3>2
  <2>. QED
    BY <2>1, <2>2
<1>6. IntegerSize(c, v) = CHOOSE k \in 1 .. WordOctets : P(k)
  BY DEF IntegerSize
<1>. HIDE DEF P
<1>7. IntegerSize(c, v) \in 1 .. WordOctets /\ P(IntegerSize(c, v))
  BY <1>5, <1>6
<1>. QED
  BY <1>2, <1>7 DEF P

(* The values an integer is given by its octets: those of that many, and a *)
(* value that fits them is the only one.                                   *)
LEMMA IntegersReadBack ==
  ASSUME NEW c \in Integers_, NEW n \in 1 .. WordOctets, NEW build
  PROVE  /\ \A v \in Domain(c) : Fits(c, v, n) => Decoded(c, Encoded(v, n), build) = {v}
         /\ \A s \in Seq(Octet) : Len(s) = n =>
              Decoded(c, s, build) \subseteq Bottom(c, n) .. Top(c, n)
<1>1. c = "EbmlUInteger" \/ c = "EbmlSInteger"
  BY DEF Integers_
<1>2. n \in 0 .. WordOctets
  BY Parameters
<1>3. ASSUME NEW v \in Domain(c), Fits(c, v, n)
      PROVE  Decoded(c, Encoded(v, n), build) = {v}
  <2>1. v \in Bottom(c, n) .. Top(c, n)
    BY <1>3, FitsFacts
  <2>2. CASE c = "EbmlUInteger"
    <3>1. v \in 0 .. Power[n] - 1
      BY <2>1, <2>2 DEF Bottom, Top
    <3>2. Shifted(Encoded(v, n), 0) = v
      BY <1>2, <3>1, UnsignedReadBack
    <3>. QED
      BY <2>2, <3>2 DEF Decoded
  <2>3. CASE c = "EbmlSInteger"
    <3>1. v \in -(Power[n] \div 2) .. Power[n] \div 2 - 1 /\ c # "EbmlUInteger"
      BY <2>1, <2>3 DEF Bottom, Top
    <3>2. PICK init \in 0 .. Word - 1 : /\ Sign(Encoded(v, n)) = {init}
                                        /\ ToSigned(Shifted(Encoded(v, n), init)) = v
      BY <3>1, SignedReadBack
    <3>3. Decoded(c, Encoded(v, n), build)
            = {ToSigned(Shifted(Encoded(v, n), i)) : i \in Sign(Encoded(v, n))}
      BY <2>3 DEF Decoded
    <3>. QED
      BY <3>2, <3>3
  <2>. QED
    BY <1>1, <2>2, <2>3
<1>4. ASSUME NEW s \in Seq(Octet), Len(s) = n
      PROVE  Decoded(c, s, build) \subseteq Bottom(c, n) .. Top(c, n)
  <2>1. CASE c = "EbmlUInteger"
    <3>1. Shifted(s, 0) \in 0 .. Power[n] - 1
      BY <1>2, <1>4, UnsignedDecoded
    <3>2. Decoded(c, s, build) = {Shifted(s, 0)}
      BY <2>1 DEF Decoded
    <3>. QED
      BY <2>1, <3>1, <3>2 DEF Bottom, Top
  <2>2. CASE c = "EbmlSInteger"
    <3>1. \A init \in Sign(s) : ToSigned(Shifted(s, init))
                                  \in -(Power[n] \div 2) .. Power[n] \div 2 - 1
      BY <1>4, SignedDecoded
    <3>2. Decoded(c, s, build) = {ToSigned(Shifted(s, init)) : init \in Sign(s)}
      BY <2>2 DEF Decoded
    <3>. QED
      BY <2>2, <3>1, <3>2 DEF Bottom, Top
  <2>. QED
    BY <1>1, <2>1, <2>2
<1>. QED
  BY <1>3, <1>4

-----------------------------------------------------------------------------
(***************************************************************************)
(* The values of the classes, and the invariant.                           *)
(***************************************************************************)

(* The classes, and what SeqOf has.                                        *)
LEMMA Classes ==
  /\ Class = Integers_ \cup Strings \cup {"EbmlDate", "EbmlFloat", "EbmlBinary"}
  /\ \A s : s \in SeqOf(Octet, LengthMax) <=> s \in Seq(Octet) /\ Len(s) \in 0 .. LengthMax
  /\ \A c \in Class : c \notin Strings \cup {"EbmlBinary"} =>
       Domain(c) \subseteq Int /\ 0 \in Domain(c)
  /\ \A c \in Strings \cup {"EbmlBinary"} : Domain(c) = SeqOf(Octet, LengthMax)
<1>1. ASSUME NEW s
      PROVE  s \in SeqOf(Octet, LengthMax) <=> s \in Seq(Octet) /\ Len(s) \in 0 .. LengthMax
  <2>1. ASSUME s \in SeqOf(Octet, LengthMax)
        PROVE  s \in Seq(Octet) /\ Len(s) \in 0 .. LengthMax
    <3>1. PICK m \in 0 .. LengthMax : s \in [1 .. m -> Octet]
      BY <2>1 DEF SeqOf
    <3>. QED
      BY <3>1, Parameters
  <2>2. ASSUME s \in Seq(Octet), Len(s) \in 0 .. LengthMax
        PROVE  s \in SeqOf(Octet, LengthMax)
    <3>1. s \in [1 .. Len(s) -> Octet]
      BY <2>2
    <3>. QED
      BY <2>2, <3>1 DEF SeqOf
  <2>. QED
    BY <2>1, <2>2
<1>2. ASSUME NEW c \in Class, c \notin Strings \cup {"EbmlBinary"}
      PROVE  Domain(c) \subseteq Int /\ 0 \in Domain(c)
  BY <1>2, WordFacts DEF Class, Integers_, Domain
<1>3. ASSUME NEW c \in Strings \cup {"EbmlBinary"}
      PROVE  Domain(c) = SeqOf(Octet, LengthMax)
  BY <1>3 DEF Strings, Domain
<1>. QED
  BY <1>1, <1>2, <1>3 DEF Class

(* What is kept of a value is one, of a default too; but for a string and  *)
(* a date it is that value.                                                *)
LEMMA KeptFacts ==
  ASSUME NEW c \in Class
  PROVE  /\ \A v \in Domain(c) : Kept(c, v) \in Domain(c)
         /\ DefaultValue(c) \in Domain(c)
         /\ c # "EbmlDate" => Kept(c, DefaultValue(c)) = DefaultValue(c)
<1>1. ASSUME NEW v \in Domain(c)
      PROVE  Kept(c, v) \in Domain(c)
  <2>1. CASE c = "EbmlDate"
    <3>1. v \in Int
      BY <2>1, WordFacts DEF Domain
    <3>2. EpochToEbml(v) \in -(Word \div 2) .. Word \div 2 - 1
      BY <3>1, DateFacts
    <3>. QED
      BY <2>1, <3>2 DEF Kept, Domain
  <2>2. CASE c = "EbmlUnicodeString"
    <3>1. v \in Seq(Octet) /\ Len(v) \in 0 .. LengthMax /\ Domain(c) = SeqOf(Octet, LengthMax)
      BY <1>1, <2>2, Classes DEF Strings
    <3>2. PICK t : t = Cut(v)
      OBVIOUS
    <3>3. t \in Seq(Octet) /\ Len(t) <= Len(v) /\ Len(t) \in Nat
      BY <3>1, <3>2, CutFacts
    <3>4. Kept(c, v) = t
      BY <2>2, <3>2 DEF Kept
    <3>5. Len(t) \in 0 .. LengthMax
      BY <3>1, <3>3, Parameters
    <3>. QED
      BY <3>1, <3>3, <3>4, <3>5, Classes
  <2>3. CASE c \notin {"EbmlDate", "EbmlUnicodeString"}
    BY <1>1, <2>3 DEF Kept
  <2>. QED
    BY <2>1, <2>2, <2>3
<1>2. << >> \in Seq(Octet) /\ Len(<< >>) = 0 /\ LengthMax \in Nat
  BY Parameters
<1>3. << >> \in SeqOf(Octet, LengthMax)
  <2>1. Len(<< >>) \in 0 .. LengthMax
    BY <1>2
  <2>. QED
    BY <1>2, <2>1, Classes
<1>4. CASE c \in Strings \cup {"EbmlBinary"}
  <2>1. DefaultValue(c) = << >> /\ Domain(c) = SeqOf(Octet, LengthMax)
    BY <1>4, Classes DEF DefaultValue
  <2>2. Cut(<< >>) = << >>
    <3>1. PICK e : e = << >>
      OBVIOUS
    <3>2. PICK t : t = Cut(e)
      OBVIOUS
    <3>3. e \in Seq(Octet) /\ Len(e) = 0
      BY <1>2, <3>1
    <3>4. t \in Seq(Octet) /\ Len(t) <= Len(e)
      BY <3>2, <3>3, CutFacts
    <3>5. Len(t) \in Nat
      BY <3>4
    <3>6. Len(t) = 0
      BY <3>3, <3>4, <3>5
    <3>7. t = << >>
      BY <3>4, <3>6
    <3>. QED
      BY <3>1, <3>2, <3>7
  <2>3. Kept(c, << >>) = << >>
    BY <1>4, <2>2 DEF Kept, Strings
  <2>. QED
    BY <1>1, <1>3, <2>1, <2>3
<1>5. CASE c \notin Strings \cup {"EbmlBinary"}
  <2>1. DefaultValue(c) = 0 /\ 0 \in Domain(c)
    BY <1>5, Classes DEF DefaultValue
  <2>2. c # "EbmlDate" => Kept(c, 0) = 0
    BY <1>5 DEF Kept, Strings
  <2>. QED
    BY <1>1, <2>1, <2>2
<1>. QED
  BY <1>4, <1>5

(* How long the data of an element may be.                                 *)
LengthOf(c) == IF c \in Strings \cup {"EbmlBinary"} THEN 0 .. LengthMax ELSE 0 .. WordOctets

(* The sizes that are written of a class: its valid ones, and any of those *)
(* classes whose size is not checked before it is written.                 *)
Sized(c, n) == c \in Strings \cup {"EbmlBinary"} \/ SizeIsValid(c, n)

(* Reading gives a value of the class, whichever octets were written.      *)
LEMMA DecodedInDomain ==
  ASSUME NEW c \in Class, NEW s \in Seq(Octet), NEW build \in Build,
         Len(s) \in LengthOf(c), Sized(c, Len(s)),
         NEW v \in Decoded(c, s, build), c # "EbmlBinary"
  PROVE  v \in Domain(c)
<1>1. CASE c = "EbmlUInteger"
  <2>1. v = Shifted(s, 0)
    BY <1>1 DEF Decoded
  <2>2. v \in 0 .. Word - 1
    <3>1. 0 \in 0 .. Word - 1
      BY WordFacts
    <3>. QED
      BY <2>1, <3>1, ShiftedIsWord
  <2>. QED
    BY <1>1, <2>2 DEF Domain
<1>2. CASE c = "EbmlSInteger"
  <2>1. PICK init \in Sign(s) : v = ToSigned(Shifted(s, init))
    BY <1>2 DEF Decoded
  <2>2. init \in 0 .. Word - 1
    BY <2>1, WordFacts DEF Sign
  <2>3. Shifted(s, init) \in 0 .. Word - 1
    BY <2>2, ShiftedIsWord
  <2>4. v \in -(Word \div 2) .. Word \div 2 - 1
    BY <2>1, <2>3, SignedOfWord
  <2>. QED
    BY <1>2, <2>4 DEF Domain
<1>3. PICK t \in Seq(Octet) : Len(t) = Len(s) /\ FromBig(build, s) = Shifted(t, 0)
  BY FromBigIsShifted
<1>4. Shifted(t, 0) \in 0 .. Word - 1
  <2>1. 0 \in 0 .. Word - 1
    BY WordFacts
  <2>. QED
    BY <2>1, ShiftedIsWord
<1>5. CASE c = "EbmlDate"
  <2>1. v = ToSigned(Shifted(t, 0))
    BY <1>3, <1>5 DEF Decoded
  <2>2. v \in -(Word \div 2) .. Word \div 2 - 1
    BY <1>4, <2>1, SignedOfWord
  <2>. QED
    BY <1>5, <2>2 DEF Domain
<1>6. CASE c = "EbmlFloat"
  <2>1. v = Shifted(t, 0) * (IF Len(s) = FloatOctets THEN FloatUnit ELSE 1)
    BY <1>3, <1>6 DEF Decoded
  <2>2. CASE Len(s) = FloatOctets
    <3>1. FloatOctets \in 0 .. WordOctets
      BY Parameters
    <3>2. Shifted(t, 0) \in 0 .. Power[FloatOctets] - 1
      BY <1>3, <2>2, <3>1, UnsignedDecoded
    <3>3. PICK p \in Nat \ {0} : p = Power[FloatOctets]
      BY UnitFacts
    <3>4. PICK u \in Nat \ {0} : u = FloatUnit /\ Word = p * u
      BY <3>3, UnitFacts
    <3>5. PICK x \in 0 .. p - 1 : x = Shifted(t, 0)
      BY <3>2, <3>3
    <3>6. x * u \in 0 .. p * u - 1
      <4>1. PICK e \in Nat : e = p - 1 - x
        BY <3>5
      <4>2. p * u = (x + e + 1) * u /\ (x + e + 1) * u = x * u + e * u + u /\ e * u >= 0
        BY <4>1
      <4>3. x * u >= 0 /\ x * u \in Int
        OBVIOUS
      <4>. QED
        BY <4>2, <4>3
    <3>7. v = x * u
      BY <2>1, <2>2, <3>4, <3>5
    <3>. QED
      BY <1>6, <3>4, <3>6, <3>7 DEF Domain
  <2>3. CASE Len(s) # FloatOctets
    <3>1. v = Shifted(t, 0) * 1
      BY <2>1, <2>3
    <3>2. v = Shifted(t, 0)
      BY <1>4, <3>1, WordFacts
    <3>. QED
      BY <1>4, <1>6, <3>2 DEF Domain
  <2>. QED
    BY <2>2, <2>3
<1>7. CASE c \in Strings
  <2>1. v = Cut(s)
    BY <1>7 DEF Decoded, Strings
  <2>2. v \in Seq(Octet) /\ Len(v) <= Len(s) /\ Len(v) \in Nat
    BY <2>1, CutFacts
  <2>3. Len(s) \in 0 .. LengthMax
    BY <1>7 DEF LengthOf
  <2>4. Len(v) \in 0 .. LengthMax
    BY <2>2, <2>3, Parameters
  <2>. QED
    BY <1>7, <2>2, <2>4, Classes
<1>. QED
  BY <1>1, <1>2, <1>5, <1>6, <1>7 DEF Class, Integers_

(* What rendering gives: a size the scan takes the element for and as many *)
(* octets; an integer fits them.                                           *)
RenderOK(c, v, isSet, default, n, d) ==
  /\ n \in Nat /\ n \in LengthOf(c) /\ Sized(c, n)
  /\ d \in Seq(Octet) /\ Len(d) = n
  /\ c \in Integers_ => n \in 1 .. WordOctets /\ Fits(c, v, n)
  /\ c = "EbmlDate" /\ isSet => n = WordOctets
  /\ c \in {"EbmlDate", "EbmlFloat"} => n \in {0, FloatOctets, WordOctets}

(* UpdateSize gives the number of octets that RenderData writes.           *)
LEMMA RenderFacts ==
  ASSUME NEW c \in Class, NEW v \in Domain(c), NEW isSet \in BOOLEAN, NEW default \in Nat,
         c \in Integers_ \cup Strings => default \in LengthOf(c),
         NEW size, c = "EbmlFloat" => size \in {FloatOctets, WordOctets},
         NEW build \in Build, NEW n, n = UpdateSize(c, v, isSet, default, size)
  PROVE  RenderOK(c, v, isSet, default, n, RenderData(c, v, n, default, build))
<1>. DEFINE d == RenderData(c, v, n, default, build)
<1>. SUFFICES RenderOK(c, v, isSet, default, n, d)
  OBVIOUS
<1>1. CASE c \in Integers_
  <2>1. PICK l \in 1 .. WordOctets : l = IntegerSize(c, v)
    BY <1>1, IntegerSizeIs
  <2>2. c \notin Strings \cup {"EbmlBinary", "EbmlDate", "EbmlFloat"} /\ c \in Integers_
    BY <1>1 DEF Integers_, Strings
  <2>3. n = IF default > l THEN default ELSE l
    BY <2>1, <2>2 DEF UpdateSize
  <2>4. default \in 0 .. WordOctets
    BY <1>1, <2>2 DEF LengthOf
  <2>5. n \in l .. WordOctets /\ n \in 1 .. WordOctets /\ n \in 0 .. WordOctets /\ n \in Nat
    BY <2>1, <2>3, <2>4, Parameters
  <2>6. Fits(c, v, n)
    BY <1>1, <2>1, <2>5, FitsFacts, IntegerSizeIs
  <2>7. v \in Int
    BY <2>2, Classes
  <2>8. d = Encoded(v, n)
    BY <2>2 DEF RenderData
  <2>9. d \in Seq(Octet) /\ Len(d) = n
    BY <2>5, <2>7, <2>8, EncodedIsOctets
  <2>10. Sized(c, n)
    BY <2>2, <2>5, Parameters DEF Sized, SizeIsValid, Strings
  <2>. HIDE DEF d
  <2>. QED
    BY <2>2, <2>5, <2>6, <2>9, <2>10 DEF LengthOf, RenderOK
<1>2. CASE c \in Strings
  <2>1. c \notin Integers_ \cup {"EbmlBinary", "EbmlDate", "EbmlFloat"}
    BY <1>2 DEF Integers_, Strings
  <2>2. v \in Seq(Octet) /\ Len(v) \in 0 .. LengthMax
    BY <1>2, Classes
  <2>3. n = IF default > Len(v) THEN default ELSE Len(v)
    BY <1>2, <2>1 DEF UpdateSize
  <2>4. default \in 0 .. LengthMax
    BY <1>2 DEF LengthOf
  <2>5. n \in 0 .. LengthMax /\ n \in Nat
    BY <2>2, <2>3, <2>4, Parameters
  <2>6. d = Padded(v, default)
    BY <1>2, <2>1 DEF RenderData
  <2>7. d \in Seq(Octet) /\ Len(d) = IF Len(v) < default THEN default ELSE Len(v)
    BY <2>2, <2>6, PaddedIs
  <2>8. Len(d) = n
    BY <2>2, <2>3, <2>4, <2>7, Parameters
  <2>9. Sized(c, n)
    BY <1>2 DEF Sized
  <2>. HIDE DEF d
  <2>. QED
    BY <1>2, <2>1, <2>5, <2>7, <2>8, <2>9 DEF LengthOf, RenderOK
<1>3. CASE c = "EbmlBinary"
  <2>1. v \in Seq(Octet) /\ Len(v) \in 0 .. LengthMax
    BY <1>3, Classes
  <2>2. n = Len(v) /\ d = v
    BY <1>3 DEF UpdateSize, RenderData, Integers_, Strings
  <2>3. Sized(c, n)
    BY <1>3 DEF Sized, SizeIsValid, Integers_
  <2>4. LengthOf(c) = 0 .. LengthMax
    BY <1>3 DEF LengthOf
  <2>5. c \notin Integers_ \cup {"EbmlDate", "EbmlFloat"}
    BY <1>3 DEF Integers_
  <2>. HIDE DEF d
  <2>. QED
    BY <2>1, <2>2, <2>3, <2>4, <2>5, Parameters DEF RenderOK
<1>4. CASE c \in {"EbmlDate", "EbmlFloat"}
  <2>1. c \notin Integers_ \cup Strings \cup {"EbmlBinary"}
    BY <1>4 DEF Integers_, Strings
  <2>2. v \in Int
    BY <2>1, Classes
  <2>3. n = IF c = "EbmlDate" THEN (IF isSet THEN WordOctets ELSE 0) ELSE size
    BY <1>4, <2>1 DEF UpdateSize
  <2>4. n \in Nat /\ n \in 0 .. WordOctets /\ Sized(c, n)
    <3>1. CASE c = "EbmlDate"
      BY <2>1, <2>3, <3>1, Parameters DEF Sized, SizeIsValid
    <3>2. CASE c = "EbmlFloat"
      BY <2>1, <2>3, <3>2, Parameters DEF Sized, SizeIsValid
    <3>. QED
      BY <1>4, <3>1, <3>2
  <2>5. PICK x \in Int : d = ToBig(build, x, n)
    <3>1. CASE c = "EbmlDate"
      <4>1. d = ToBig(build, v, n)
        BY <2>1, <3>1 DEF RenderData
      <4>. QED
        BY <2>2, <4>1
    <3>2. CASE c = "EbmlFloat"
      <4>1. PICK x : x = IF n = FloatOctets THEN Narrowed(v) ELSE v
        OBVIOUS
      <4>2. d = ToBig(build, x, n)
        BY <2>1, <3>2, <4>1 DEF RenderData
      <4>3. v \in 0 .. Word - 1
        BY <3>2 DEF Domain
      <4>4. Narrowed(v) \in Int
        <5>1. PICK y : y = Narrowed(v)
          OBVIOUS
        <5>2. y \in 0 .. Power[FloatOctets] - 1
          BY <4>3, <5>1, NarrowedFacts
        <5>. QED
          BY <5>1, <5>2, UnitFacts
      <4>5. x \in Int
        BY <2>2, <4>1, <4>4
      <4>. QED
        BY <4>2, <4>5
    <3>. QED
      BY <1>4, <3>1, <3>2
  <2>6. d \in Seq(Octet) /\ Len(d) = n
    BY <2>4, <2>5, ToBigIsOctets
  <2>7. n \in LengthOf(c)
    BY <2>1, <2>4 DEF LengthOf
  <2>8. n \in {0, FloatOctets, WordOctets} /\ (c = "EbmlDate" /\ isSet => n = WordOctets)
    BY <1>4, <2>3
  <2>. HIDE DEF d
  <2>. QED
    BY <2>1, <2>4, <2>6, <2>7, <2>8 DEF RenderOK
<1>. QED
  BY <1>1, <1>2, <1>3, <1>4 DEF Class

-----------------------------------------------------------------------------
Done == {"made", "sized", "set", "left out", "rendered", "thrown", "skipped", "read"}

(* The value the program gave is one of the class.                         *)
IsAsked == asked = << >> \/ \E v \in Domain(class) : asked = <<v>>

(* The sizes an element may have before it is rendered, and after.         *)
SizeInv ==
  /\ class \in Integers_ \cup Strings => DefaultSize \in LengthOf(class)
  /\ done \in {"made", "sized", "set"} /\ class = "EbmlFloat" =>
       Size \in {FloatOctets, WordOctets}
  /\ done = "rendered" => /\ Size = Len(data) /\ Size \in LengthOf(class)
                          /\ Sized(class, Size)

(* A value that was read is that of the whole data, with its size.         *)
ReadOnce ==
  done = "read" /\ class # "EbmlBinary" =>
    /\ available = Len(data) /\ Size = Len(data)
    /\ Size \in LengthOf(class) /\ Sized(class, Size)
    /\ \E build \in Builds : value \in Decoded(class, data, build)

IInv == TypeOK /\ done \in Done /\ IsAsked /\ SizeInv /\ WholeOrNothing /\ ReadOnce

(* A new element holds a value of its class.                               *)
LEMMA MadeInDomain ==
  ASSUME class \in Class
  PROVE  Made \in Domain(class)
BY KeptFacts DEF Made

(* The sizes of a new element.                                             *)
LEMMA InitialSizes ==
  ASSUME NEW c \in Class
  PROVE  InitialSize(c) \in Nat /\ (c \in Integers_ \cup Strings => InitialSize(c) \in LengthOf(c))
BY Parameters DEF Class, Integers_, Strings, InitialSize, LengthOf

(* The invariant holds of a new element.                                   *)
LEMMA InitInv ==
  ASSUME Init
  PROVE  IInv
<1>1. class \in Class /\ bHasDefault \in BOOLEAN /\ bValueIsSet \in BOOLEAN
  BY DEF Init
<1>2. value \in Domain(class)
  BY <1>1, MadeInDomain DEF Init
<1>3. DefaultSize \in Nat /\ (class \in Integers_ \cup Strings => DefaultSize \in LengthOf(class))
  BY <1>1, InitialSizes DEF Init
<1>4. Size \in Nat /\ (class = "EbmlFloat" => Size = FloatOctets)
  BY <1>3, Parameters DEF Init
<1>5. data \in Seq(Octet) /\ available \in 0 .. Len(data)
  BY DEF Init
<1>6. IsAsked
  BY <1>1, KeptFacts DEF Init, IsAsked
<1>7. done = "made"
  BY DEF Init
<1>8. TypeOK
  BY <1>1, <1>2, <1>3, <1>4, <1>5 DEF TypeOK
<1>9. SizeInv
  BY <1>3, <1>4, <1>7 DEF SizeInv
<1>10. WholeOrNothing /\ ReadOnce
  BY <1>7 DEF WholeOrNothing, ReadOnce
<1>. QED
  BY <1>6, <1>7, <1>8, <1>9, <1>10 DEF IInv, Done

(* Reading keeps it: what fails before the end leaves a value as well.     *)
LEMMA ReadInv ==
  ASSUME IInv, ReadData
  PROVE  IInv'
<1>1. /\ class \in Class /\ bHasDefault \in BOOLEAN /\ bValueIsSet \in BOOLEAN
      /\ value \in Domain(class) /\ DefaultSize \in Nat /\ Size \in Nat
      /\ data \in Seq(Octet) /\ available \in 0 .. Len(data)
  BY DEF IInv, TypeOK
<1>2. /\ class' = class /\ bHasDefault' = bHasDefault /\ DefaultSize' = InitialSize(class)
      /\ Size' = Size /\ data' = data /\ available' = available /\ asked' = asked
  BY DEF ReadData
<1>3. Made \in Domain(class) /\ Made' = Made
  BY <1>1, <1>2, MadeInDomain DEF Made
<1>4. Size = Len(data) /\ Size \in LengthOf(class) /\ Sized(class, Size)
  BY DEF ReadData, IInv, SizeInv
<1>5. IsAsked'
  <2>1. IsAsked
    BY DEF IInv
  <2>. QED
    BY <1>2, <2>1 DEF IsAsked
<1>6. done' \in {"thrown", "skipped", "read"}
  BY DEF ReadData, ReadThrows, ReadNothing, ReadValue
<1>7. SizeInv'
  BY <1>1, <1>2, <1>6, InitialSizes DEF SizeInv
<1>8. ASSUME value' \in Domain(class), bValueIsSet' \in BOOLEAN
      PROVE  TypeOK'
  BY <1>1, <1>2, <1>8, InitialSizes DEF TypeOK
<1>9. CASE ReadThrows
  <2>1. done' = "thrown" /\ bValueIsSet' = bHasDefault /\ available < Size
    BY <1>9 DEF ReadThrows, Throws
  <2>2. value' \in Domain(class)
    <3>1. CASE class = "EbmlString"
      <4>1. PICK s : s = SubSeq(data, 1, available)
        OBVIOUS
      <4>2. s \in Seq(Octet) /\ Len(s) = available
        BY <1>1, <4>1
      <4>3. value' = Padded(s, Size)
        BY <1>9, <3>1, <4>1 DEF ReadThrows
      <4>4. value' \in Seq(Octet) /\ Len(value') = Size
        BY <1>1, <2>1, <4>2, <4>3, PaddedIs
      <4>5. Size \in 0 .. LengthMax
        BY <1>4, <3>1 DEF LengthOf, Strings
      <4>6. class \in Strings
        BY <3>1 DEF Strings
      <4>. QED
        BY <4>4, <4>5, <4>6, Classes
    <3>2. CASE class # "EbmlString"
      BY <1>3, <1>9, <3>2 DEF ReadThrows
    <3>. QED
      BY <3>1, <3>2
  <2>3. TypeOK'
    BY <1>1, <1>8, <2>1, <2>2
  <2>4. WholeOrNothing'
    <3>1. class # "EbmlString" => value' = Made
      BY <1>9 DEF ReadThrows
    <3>. QED
      BY <1>2, <1>3, <2>1, <3>1 DEF WholeOrNothing
  <2>5. ReadOnce'
    BY <2>1 DEF ReadOnce
  <2>. QED
    BY <1>5, <1>6, <1>7, <2>3, <2>4, <2>5 DEF IInv, Done
<1>10. CASE ReadNothing
  <2>1. done' = "skipped" /\ bValueIsSet' = bHasDefault /\ value' = Made
    BY <1>10 DEF ReadNothing
  <2>2. TypeOK'
    BY <1>1, <1>3, <1>8, <2>1
  <2>3. WholeOrNothing' /\ ReadOnce'
    BY <1>2, <1>3, <2>1 DEF WholeOrNothing, ReadOnce
  <2>. QED
    BY <1>5, <1>6, <1>7, <2>2, <2>3 DEF IInv, Done
<1>11. CASE ReadValue
  <2>1. done' = "read" /\ bValueIsSet' = TRUE /\ ~ Throws
    BY <1>11 DEF ReadValue
  <2>2. CASE class = "EbmlBinary"
    <3>1. PICK rest \in [1 .. Size - available -> Octet] :
            value' = SubSeq(data, 1, available) \o rest
      BY <1>11, <2>2 DEF ReadValue
    <3>2. PICK s : s = SubSeq(data, 1, available)
      OBVIOUS
    <3>3. s \in Seq(Octet) /\ Len(s) = available
      BY <1>1, <3>2
    <3>4. rest \in Seq(Octet) /\ Len(rest) = Size - available
      <4>1. PICK m \in Nat : m = Size - available
        BY <1>1, <1>4
      <4>2. rest \in [1 .. m -> Octet]
        BY <3>1, <4>1
      <4>. QED
        BY <4>1, <4>2
    <3>5. s \o rest \in Seq(Octet) /\ Len(s \o rest) = available + (Size - available)
      BY <3>3, <3>4
    <3>6. Len(s \o rest) = Size
      BY <1>1, <3>5
    <3>7. Size \in 0 .. LengthMax
      BY <1>4, <2>2 DEF LengthOf
    <3>8. value' \in Domain(class)
      BY <2>2, <3>1, <3>2, <3>5, <3>6, <3>7, Classes
    <3>9. TypeOK'
      BY <1>8, <2>1, <3>8
    <3>10. WholeOrNothing' /\ ReadOnce'
      BY <1>2, <2>1, <2>2 DEF WholeOrNothing, ReadOnce
    <3>. QED
      BY <1>5, <1>6, <1>7, <3>9, <3>10 DEF IInv, Done
  <2>3. CASE class # "EbmlBinary"
    <3>1. PICK build \in Builds : value' \in Decoded(class, data, build)
      BY <1>11, <2>3 DEF ReadValue
    <3>2. available = Len(data)
      BY <1>1, <1>4, <2>1, <2>3 DEF Throws
    <3>3. build \in Build
      BY <3>1, BuildsAssumption
    <3>4. value' \in Domain(class)
      BY <1>1, <1>4, <2>3, <3>1, <3>3, DecodedInDomain
    <3>5. TypeOK'
      BY <1>8, <2>1, <3>4
    <3>6. WholeOrNothing'
      BY <1>2, <2>1, <3>2 DEF WholeOrNothing
    <3>7. ReadOnce'
      BY <1>2, <1>4, <3>1, <3>2 DEF ReadOnce
    <3>. QED
      BY <1>5, <1>6, <1>7, <3>5, <3>6, <3>7 DEF IInv, Done
  <2>. QED
    BY <2>2, <2>3
<1>. QED
  BY <1>9, <1>10, <1>11 DEF ReadData

(* Rendering keeps it.                                                     *)
LEMMA RenderInv ==
  ASSUME IInv, NEW build \in Builds, Render(build)
  PROVE  IInv'
<1>1. /\ class \in Class /\ bHasDefault \in BOOLEAN /\ bValueIsSet \in BOOLEAN
      /\ value \in Domain(class) /\ DefaultSize \in Nat /\ build \in Build
  BY BuildsAssumption DEF IInv, TypeOK
<1>2. /\ class' = class /\ bHasDefault' = bHasDefault /\ value' = value
      /\ bValueIsSet' = bValueIsSet /\ DefaultSize' = DefaultSize /\ asked' = asked
      /\ done' = "rendered" /\ available' = Len(data')
      /\ Size' = UpdateSize(class, value, bValueIsSet, DefaultSize, Size)
      /\ data' = RenderData(class, value, Size', DefaultSize, build)
  BY DEF Render
<1>3. /\ class \in Integers_ \cup Strings => DefaultSize \in LengthOf(class)
      /\ class = "EbmlFloat" => Size \in {FloatOctets, WordOctets}
  BY DEF IInv, SizeInv, Render
<1>4. PICK n : n = Size'
  OBVIOUS
<1>5. PICK d : d = data'
  OBVIOUS
<1>6. RenderOK(class, value, bValueIsSet, DefaultSize, n, d)
  <2>1. n = UpdateSize(class, value, bValueIsSet, DefaultSize, Size)
    BY <1>2, <1>4
  <2>2. d = RenderData(class, value, n, DefaultSize, build)
    BY <1>2, <1>4, <1>5
  <2>. QED
    BY <1>1, <1>3, <2>1, <2>2, RenderFacts
<1>7. /\ n \in Nat /\ n \in LengthOf(class) /\ Sized(class, n)
      /\ d \in Seq(Octet) /\ Len(d) = n
  BY <1>6 DEF RenderOK
<1>8. TypeOK'
  BY <1>1, <1>2, <1>4, <1>5, <1>7 DEF TypeOK
<1>9. SizeInv'
  BY <1>2, <1>3, <1>4, <1>5, <1>7 DEF SizeInv
<1>10. IsAsked'
  <2>1. IsAsked
    BY DEF IInv
  <2>. QED
    BY <1>2, <2>1 DEF IsAsked
<1>11. WholeOrNothing' /\ ReadOnce'
  BY <1>2 DEF WholeOrNothing, ReadOnce
<1>. QED
  BY <1>2, <1>8, <1>9, <1>10, <1>11 DEF IInv, Done

(* Every step keeps the invariant.                                         *)
LEMMA NextInv ==
  ASSUME IInv, [Next]_vars
  PROVE  IInv'
<1>1. /\ class \in Class /\ bHasDefault \in BOOLEAN /\ bValueIsSet \in BOOLEAN
      /\ value \in Domain(class) /\ DefaultSize \in Nat /\ Size \in Nat
      /\ data \in Seq(Octet) /\ available \in 0 .. Len(data)
  BY DEF IInv, TypeOK
<1>2. SizeInv /\ IsAsked /\ Made \in Domain(class)
  BY <1>1, MadeInDomain DEF IInv
<1>3. ASSUME NEW v \in Domain(class), SetValue(v)
      PROVE  IInv'
  <2>1. /\ class' = class /\ bHasDefault' = bHasDefault /\ DefaultSize' = DefaultSize
        /\ Size' = Size /\ data' = data /\ available' = available /\ asked' = <<v>>
        /\ value' = Kept(class, v) /\ bValueIsSet' = TRUE /\ done' = "set"
        /\ done \in {"made", "sized"}
    BY <1>3 DEF SetValue
  <2>2. value' \in Domain(class)
    BY <1>1, <2>1, KeptFacts
  <2>3. TypeOK'
    BY <1>1, <2>1, <2>2 DEF TypeOK
  <2>4. SizeInv'
    BY <1>2, <2>1 DEF SizeInv
  <2>5. IsAsked' /\ WholeOrNothing' /\ ReadOnce'
    BY <2>1 DEF IsAsked, WholeOrNothing, ReadOnce
  <2>. QED
    BY <2>1, <2>3, <2>4, <2>5 DEF IInv, Done
<1>4. ASSUME NEW n \in 0 .. LengthMax, SetDefaultSize(n)
      PROVE  IInv'
  <2>1. /\ class' = class /\ bHasDefault' = bHasDefault /\ value' = value
        /\ bValueIsSet' = bValueIsSet /\ data' = data /\ available' = available
        /\ asked' = asked /\ DefaultSize' = n /\ done' = "sized"
        /\ Size' = IF class \in Integers_ THEN n ELSE Size
        /\ done = "made" /\ class \in Integers_ \cup Strings
        /\ class \in Integers_ => n <= WordOctets
    BY <1>4 DEF SetDefaultSize
  <2>2. n \in Nat
    BY Parameters
  <2>3. TypeOK'
    BY <1>1, <2>1, <2>2 DEF TypeOK
  <2>4. n \in LengthOf(class)
    BY <2>1, <2>2, Parameters DEF LengthOf, Integers_, Strings
  <2>5. class # "EbmlFloat"
    BY <2>1 DEF Integers_, Strings
  <2>6. SizeInv'
    BY <2>1, <2>4, <2>5 DEF SizeInv
  <2>7. IsAsked' /\ WholeOrNothing' /\ ReadOnce'
    BY <1>2, <2>1 DEF IsAsked, WholeOrNothing, ReadOnce
  <2>. QED
    BY <2>1, <2>3, <2>6, <2>7 DEF IInv, Done
<1>5. ASSUME NEW n \in 0 .. LengthMax, Truncate(n)
      PROVE  IInv'
  <2>1. /\ class' = class /\ bHasDefault' = bHasDefault /\ value' = value
        /\ bValueIsSet' = bValueIsSet /\ data' = data /\ available' = n
        /\ asked' = asked /\ DefaultSize' = DefaultSize /\ done' = done
        /\ Size' = Size /\ done = "rendered" /\ available = Len(data) /\ n < available
    BY <1>5 DEF Truncate
  <2>2. n \in 0 .. Len(data)
    BY <1>1, <2>1, Parameters
  <2>3. TypeOK'
    BY <1>1, <2>1, <2>2 DEF TypeOK
  <2>4. SizeInv'
    BY <1>2, <2>1 DEF SizeInv
  <2>5. IsAsked' /\ WholeOrNothing' /\ ReadOnce'
    BY <1>2, <2>1 DEF IsAsked, WholeOrNothing, ReadOnce
  <2>. QED
    BY <2>1, <2>3, <2>4, <2>5 DEF IInv, Done
<1>6. ASSUME NEW octets \in SeqOf(Octet, LengthMax), OtherData(octets)
      PROVE  IInv'
  <2>1. /\ class' = class /\ bHasDefault' = bHasDefault /\ value' = value
        /\ bValueIsSet' = bValueIsSet /\ DefaultSize' = DefaultSize
        /\ data' = octets /\ available' = Len(octets) /\ Size' = Len(octets)
        /\ asked' = << >> /\ done' = "rendered" /\ Sized(class, Len(octets))
    BY <1>6 DEF OtherData, Sized
  <2>2. octets \in Seq(Octet) /\ Len(octets) \in 0 .. LengthMax /\ Len(octets) \in Nat
    <3>1. octets \in Seq(Octet) /\ Len(octets) \in 0 .. LengthMax
      BY Classes
    <3>. QED
      BY <3>1
  <2>3. TypeOK'
    BY <1>1, <2>1, <2>2 DEF TypeOK
  <2>4. Len(octets) \in LengthOf(class)
    <3>1. CASE class \in Strings \cup {"EbmlBinary"}
      BY <2>2, <3>1 DEF LengthOf
    <3>2. CASE class \in Integers_
      BY <2>1, <2>2, <3>2, Parameters DEF LengthOf, Sized, SizeIsValid, Integers_, Strings
    <3>3. CASE class = "EbmlDate"
      BY <2>1, <2>2, <3>3, Parameters DEF LengthOf, Sized, SizeIsValid, Integers_, Strings
    <3>4. CASE class = "EbmlFloat"
      BY <2>1, <2>2, <3>4, Parameters DEF LengthOf, Sized, SizeIsValid, Integers_, Strings
    <3>. QED
      BY <1>1, <3>1, <3>2, <3>3, <3>4 DEF Class
  <2>5. SizeInv'
    BY <1>2, <2>1, <2>4 DEF SizeInv
  <2>6. IsAsked' /\ WholeOrNothing' /\ ReadOnce'
    BY <2>1 DEF IsAsked, WholeOrNothing, ReadOnce
  <2>. QED
    BY <2>1, <2>3, <2>5, <2>6 DEF IInv, Done
<1>7. ASSUME NEW n \in {FloatOctets, WordOctets}, SetPrecision(n)
      PROVE  IInv'
  <2>1. /\ class' = class /\ bHasDefault' = bHasDefault /\ value' = value
        /\ bValueIsSet' = bValueIsSet /\ data' = data /\ available' = available
        /\ asked' = asked /\ DefaultSize' = DefaultSize /\ done' = "sized" /\ Size' = n
    BY <1>7 DEF SetPrecision
  <2>2. TypeOK'
    BY <1>1, <2>1, Parameters DEF TypeOK
  <2>3. SizeInv'
    BY <1>2, <2>1 DEF SizeInv
  <2>4. IsAsked' /\ WholeOrNothing' /\ ReadOnce'
    BY <1>2, <2>1 DEF IsAsked, WholeOrNothing, ReadOnce
  <2>. QED
    BY <2>1, <2>2, <2>3, <2>4 DEF IInv, Done
<1>8. ASSUME LeaveOut
      PROVE  IInv'
  <2>1. /\ class' = class /\ bHasDefault' = bHasDefault /\ value' = Made
        /\ bValueIsSet' = TRUE /\ data' = data /\ available' = available
        /\ asked' = asked /\ DefaultSize' = DefaultSize /\ done' = "left out"
        /\ Size' = Size
    BY <1>8 DEF LeaveOut
  <2>2. TypeOK'
    BY <1>1, <1>2, <2>1 DEF TypeOK
  <2>3. SizeInv'
    BY <1>2, <2>1 DEF SizeInv
  <2>4. IsAsked' /\ WholeOrNothing' /\ ReadOnce'
    BY <1>2, <2>1 DEF IsAsked, WholeOrNothing, ReadOnce
  <2>. QED
    BY <2>1, <2>2, <2>3, <2>4 DEF IInv, Done
<1>9. CASE UNCHANGED vars
  <2>1. /\ class' = class /\ bHasDefault' = bHasDefault /\ value' = value
        /\ bValueIsSet' = bValueIsSet /\ data' = data /\ available' = available
        /\ asked' = asked /\ DefaultSize' = DefaultSize /\ done' = done /\ Size' = Size
    BY <1>9 DEF vars
  <2>2. Made' = Made
    BY <2>1 DEF Made
  <2>3. TypeOK' /\ SizeInv' /\ IsAsked'
    BY <1>1, <1>2, <2>1 DEF TypeOK, SizeInv, IsAsked
  <2>4. WholeOrNothing' /\ ReadOnce' /\ done' \in Done
    BY <2>1, <2>2 DEF IInv, WholeOrNothing, ReadOnce
  <2>. QED
    BY <2>3, <2>4 DEF IInv
<1>. QED
  BY <1>3, <1>4, <1>5, <1>6, <1>7, <1>8, <1>9, RenderInv, ReadInv DEF Next

(* Always.                                                                 *)
THEOREM Inductive == Spec => []IInv
<1>1. Init => IInv
  BY InitInv
<1>2. IInv /\ [Next]_vars => IInv'
  BY NextInv
<1>. QED
  BY <1>1, <1>2, PTL DEF Spec

(* The value is always one the class can hold, whatever was read.          *)
THEOREM TypeCorrect == Spec => []TypeOK
<1>1. IInv => TypeOK
  BY DEF IInv
<1>. QED
  BY <1>1, Inductive, PTL

(* UpdateSize says how many octets RenderData writes.                      *)
THEOREM SizesMatch == Spec => []SizeIsWritten
<1>1. IInv => SizeIsWritten
  BY DEF IInv, SizeInv, SizeIsWritten
<1>. QED
  BY <1>1, Inductive, PTL

(* A value was read from the whole data or the element is as it was made.  *)
THEOREM NoPartOfAValue == Spec => []WholeOrNothing
<1>1. IInv => WholeOrNothing
  BY DEF IInv
<1>. QED
  BY <1>1, Inductive, PTL

(* An integer that was read is written again in the fewest octets that     *)
(* give it back: its size is the least it fits in.                         *)
THEOREM RewritesAreShortest == Spec => []RewriteIsShortest
<1>1. ASSUME IInv, done = "read", class \in Integers_, Size > 0
      PROVE  LET n == UpdateSize(class, value, TRUE, InitialSize(class), Size)
             IN  /\ n <= Size
                 /\ \A build \in Builds : Decoded(class, Encoded(value, n), build) = {value}
                 /\ \A k \in 1 .. n - 1 : \A octets \in [1 .. k -> Octet] :
                      value \notin Decoded(class, octets, "little")
  <2>. DEFINE n == UpdateSize(class, value, TRUE, InitialSize(class), Size)
  <2>1. value \in Domain(class) /\ class \in Class /\ data \in Seq(Octet)
    BY <1>1 DEF IInv, TypeOK
  <2>2. class \notin Strings \cup {"EbmlBinary", "EbmlDate", "EbmlFloat"} /\ class \in Integers_
    BY <1>1 DEF Integers_, Strings
  <2>3. PICK l \in 1 .. WordOctets : /\ l = IntegerSize(class, value)
                                     /\ Fits(class, value, l)
                                     /\ \A k \in 1 .. l - 1 : ~ Fits(class, value, k)
    BY <1>1, <2>1, IntegerSizeIs
  <2>4. n = l
    <3>1. InitialSize(class) \in {0, 1}
      BY <2>2 DEF InitialSize
    <3>2. n = IF InitialSize(class) > l THEN InitialSize(class) ELSE l
      BY <2>2, <2>3 DEF UpdateSize
    <3>3. l \in Int /\ l >= 1
      BY <2>3, Parameters
    <3>4. ~ (InitialSize(class) > l)
      BY <3>1, <3>3
    <3>. HIDE DEF n
    <3>. QED
      BY <3>2, <3>4
  <2>. HIDE DEF n
  <2>5. PICK s \in 1 .. WordOctets : s = Size /\ s = Len(data)
    <3>1. Size \in 0 .. WordOctets /\ Size = Len(data)
      BY <1>1, <2>2 DEF IInv, ReadOnce, LengthOf
    <3>. QED
      BY <1>1, <3>1
  <2>6. PICK build \in Builds : value \in Decoded(class, data, build)
    BY <1>1, <2>2 DEF IInv, ReadOnce
  <2>7. value \in Bottom(class, s) .. Top(class, s)
    BY <1>1, <2>1, <2>5, <2>6, IntegersReadBack
  <2>8. Fits(class, value, s)
    BY <1>1, <2>1, <2>7, FitsFacts
  <2>9. l <= s
    BY <2>3, <2>8
  <2>10. \A b \in Builds : Decoded(class, Encoded(value, n), b) = {value}
    BY <1>1, <2>1, <2>3, <2>4, IntegersReadBack
  <2>11. ASSUME NEW k \in 1 .. n - 1, NEW octets \in [1 .. k -> Octet],
                value \in Decoded(class, octets, "little")
         PROVE  FALSE
    <3>1. k \in 1 .. WordOctets /\ k \in 1 .. l - 1 /\ k \in Nat
      BY <2>3, <2>4, Parameters
    <3>2. octets \in Seq(Octet) /\ Len(octets) = k
      BY <3>1
    <3>3. value \in Bottom(class, k) .. Top(class, k)
      BY <1>1, <2>11, <3>1, <3>2, IntegersReadBack
    <3>4. Fits(class, value, k)
      BY <1>1, <2>1, <3>1, <3>3, FitsFacts
    <3>. QED
      BY <2>3, <3>1, <3>4
  <2>. QED
    BY <2>4, <2>5, <2>9, <2>10, <2>11 DEF n
<1>2. IInv => RewriteIsShortest
  BY <1>1 DEF RewriteIsShortest
<1>. QED
  BY <1>2, Inductive, PTL

-----------------------------------------------------------------------------
(***************************************************************************)
(* What was written is read.                                               *)
(***************************************************************************)

(* That octets hold the value v of a class.                                *)
Holds(c, v, octets, n) ==
  CASE c \in Integers_ -> n \in 1 .. WordOctets /\ Fits(c, v, n) /\ octets = Encoded(v, n)
    [] c \in Strings -> Cut(octets) = Cut(v)
    [] c = "EbmlDate" -> n = WordOctets /\ octets = Encoded(v, n)
    [] c = "EbmlFloat" -> octets = Encoded(IF n = FloatOctets THEN Narrowed(v) ELSE v, n)
    [] OTHER -> octets = v

(* What RenderData writes holds the value, in all builds but that one.     *)
LEMMA RenderHolds ==
  ASSUME NEW c \in Class, NEW v \in Domain(c), NEW default \in Nat,
         c \in Integers_ \cup Strings => default \in LengthOf(c),
         NEW size, c = "EbmlFloat" => size \in {FloatOctets, WordOctets},
         NEW build \in Build, NEW n, n = UpdateSize(c, v, TRUE, default, size),
         c = "EbmlFloat" /\ n = FloatOctets => build # "msvc"
  PROVE  Holds(c, v, RenderData(c, v, n, default, build), n)
<1>. DEFINE d == RenderData(c, v, n, default, build)
<1>. SUFFICES Holds(c, v, d, n)
  OBVIOUS
<1>1. RenderOK(c, v, TRUE, default, n, d)
  <2>1. TRUE \in BOOLEAN
    OBVIOUS
  <2>. QED
    BY <2>1, RenderFacts
<1>2. CASE c \in Integers_
  <2>1. c \notin Strings \cup {"EbmlBinary", "EbmlDate", "EbmlFloat"} /\ c \in Integers_
    BY <1>2 DEF Integers_, Strings
  <2>2. d = Encoded(v, n)
    BY <2>1 DEF RenderData
  <2>3. n \in 1 .. WordOctets /\ Fits(c, v, n)
    BY <1>1, <1>2 DEF RenderOK
  <2>. HIDE DEF d
  <2>. QED
    BY <2>1, <2>2, <2>3 DEF Holds
<1>3. CASE c \in Strings
  <2>1. c \notin Integers_ \cup {"EbmlBinary", "EbmlDate", "EbmlFloat"} /\ c \in Strings
    BY <1>3 DEF Integers_, Strings
  <2>2. d = Padded(v, default)
    BY <2>1 DEF RenderData
  <2>3. v \in Seq(Octet)
    BY <1>3, Classes
  <2>. HIDE DEF d
  <2>4. Cut(d) = Cut(v)
    BY <2>2, <2>3, CutPadded
  <2>. QED
    BY <2>1, <2>4 DEF Holds
<1>4. CASE c = "EbmlDate"
  <2>1. c \notin Integers_ \cup Strings \cup {"EbmlBinary", "EbmlFloat"}
    BY <1>4 DEF Integers_, Strings
  <2>2. n = WordOctets /\ n \in Nat /\ n # FloatOctets
    <3>. HIDE DEF d
    <3>1. n = WordOctets
      BY <1>1, <1>4 DEF RenderOK
    <3>2. WordOctets \in Nat /\ WordOctets # FloatOctets
      BY Parameters
    <3>. QED
      BY <3>1, <3>2
  <2>3. v \in Int
    BY <1>4, WordFacts DEF Domain
  <2>4. d = ToBig(build, v, n)
    BY <1>4, <2>1 DEF RenderData
  <2>. HIDE DEF d
  <2>5. d = Encoded(v, n)
    BY <2>2, <2>3, <2>4, BuildsAgree
  <2>. QED
    BY <1>4, <2>1, <2>2, <2>5 DEF Holds
<1>5. CASE c = "EbmlFloat"
  <2>1. c \notin Integers_ \cup Strings \cup {"EbmlBinary", "EbmlDate"}
    BY <1>5 DEF Integers_, Strings
  <2>2. n \in Nat /\ (build # "msvc" \/ n # FloatOctets)
    BY <1>1, <1>5 DEF RenderOK
  <2>3. PICK x : x = IF n = FloatOctets THEN Narrowed(v) ELSE v
    OBVIOUS
  <2>4. x \in Int
    <3>1. v \in 0 .. Word - 1
      BY <1>5 DEF Domain
    <3>2. Narrowed(v) \in 0 .. Power[FloatOctets] - 1
      BY <3>1, NarrowedFacts
    <3>3. PICK y : y = Narrowed(v)
      OBVIOUS
    <3>4. y \in Int /\ v \in Int
      BY <3>1, <3>2, <3>3, UnitFacts, WordFacts
    <3>. QED
      BY <2>3, <3>3, <3>4
  <2>5. d = ToBig(build, x, n)
    BY <1>5, <2>1, <2>3 DEF RenderData
  <2>. HIDE DEF d
  <2>6. d = Encoded(x, n)
    BY <2>2, <2>4, <2>5, BuildsAgree
  <2>. QED
    BY <1>5, <2>1, <2>3, <2>6 DEF Holds
<1>6. CASE c = "EbmlBinary"
  <2>1. c \notin Integers_ \cup Strings
    BY <1>6 DEF Integers_, Strings
  <2>2. d = v
    BY <1>6, <2>1 DEF RenderData
  <2>. HIDE DEF d
  <2>. QED
    BY <1>6, <2>1, <2>2 DEF Holds
<1>. QED
  BY <1>2, <1>3, <1>4, <1>5, <1>6 DEF Class

(* That x was read for the value v the program gave, from n octets.        *)
ReadAs(c, v, x, n) ==
  CASE c \in Strings -> x = Cut(v)
    [] c = "EbmlDate" -> IsRepresentable(v) => EbmlToEpoch(x) = v
    [] c = "EbmlFloat" /\ n = FloatOctets ->
         \A f \in 0 .. Power[FloatOctets] - 1 :
           Distance(x, v) <= Distance(f * FloatUnit, v)
    [] OTHER -> x = v

(* Octets that hold what is kept of a value are read as it.                *)
LEMMA HeldIsRead ==
  ASSUME NEW c \in Class, c # "EbmlBinary", NEW v \in Domain(c), NEW s \in Seq(Octet),
         NEW n \in Nat, n = Len(s), Holds(c, Kept(c, v), s, n), Sized(c, n),
         NEW build \in Build, c = "EbmlFloat" /\ n = FloatOctets => build # "msvc",
         NEW x \in Decoded(c, s, build)
  PROVE  ReadAs(c, v, x, n)
<1>1. CASE c \in Integers_
  <2>1. c \notin Strings \cup {"EbmlBinary", "EbmlDate", "EbmlFloat"} /\ c \in Integers_
    BY <1>1 DEF Integers_, Strings
  <2>2. Kept(c, v) = v
    BY <1>1 DEF Kept, Integers_
  <2>3. n \in 1 .. WordOctets /\ Fits(c, v, n) /\ s = Encoded(v, n)
    BY <2>1, <2>2 DEF Holds
  <2>4. Decoded(c, s, build) = {v}
    BY <1>1, <2>3, IntegersReadBack
  <2>. QED
    BY <2>1, <2>4 DEF ReadAs
<1>2. CASE c \in Strings
  <2>1. c \notin Integers_ \cup {"EbmlBinary", "EbmlDate", "EbmlFloat"} /\ c \in Strings
    BY <1>2 DEF Integers_, Strings
  <2>2. Cut(s) = Cut(Kept(c, v))
    BY <2>1 DEF Holds
  <2>3. Kept(c, v) = v \/ Kept(c, v) = Cut(v)
    BY <1>2 DEF Kept, Strings
  <2>4. v \in Seq(Octet)
    BY <1>2, Classes
  <2>5. Cut(s) = Cut(v)
    BY <2>2, <2>3, <2>4, CutFacts
  <2>6. x = Cut(s)
    BY <1>2 DEF Decoded, Strings
  <2>. QED
    BY <2>1, <2>5, <2>6 DEF ReadAs
<1>3. CASE c = "EbmlDate"
  <2>1. c \notin Integers_ \cup Strings
    BY <1>3 DEF Integers_, Strings
  <2>2. PICK e : e = EpochToEbml(v)
    OBVIOUS
  <2>3. v \in Int
    BY <1>3, WordFacts DEF Domain
  <2>4. e \in -(Word \div 2) .. Word \div 2 - 1 /\ e \in Int
    BY <2>2, <2>3, DateFacts, WordFacts
  <2>5. n = WordOctets /\ s = Encoded(e, WordOctets) /\ n # FloatOctets
    BY <1>3, <2>1, <2>2, Parameters DEF Holds, Kept
  <2>6. FromBig(build, s) = e % Word
    BY <2>4, <2>5, BuildsAgree, WordReadBack
  <2>7. x = ToSigned(FromBig(build, s))
    BY <1>3 DEF Decoded
  <2>8. x = e
    BY <2>4, <2>6, <2>7, SignedOfWord
  <2>9. IsRepresentable(v) => EbmlToEpoch(x) = v
    BY <2>2, <2>3, <2>8, DateFacts
  <2>. QED
    BY <1>3, <2>1, <2>9 DEF ReadAs
<1>4. CASE c = "EbmlFloat"
  <2>1. c \notin Integers_ \cup Strings
    BY <1>4 DEF Integers_, Strings
  <2>2. v \in 0 .. Word - 1 /\ v \in Int
    BY <1>4, WordFacts DEF Domain
  <2>3. Kept(c, v) = v
    BY <1>4 DEF Kept
  <2>4. FromBig(build, s) = Shifted(s, 0)
    BY <1>4, BuildsAgree
  <2>5. x = Shifted(s, 0) * (IF n = FloatOctets THEN FloatUnit ELSE 1)
    BY <1>4, <2>4 DEF Decoded
  <2>6. s = Encoded(IF n = FloatOctets THEN Narrowed(v) ELSE v, n)
    BY <1>4, <2>1, <2>3 DEF Holds
  <2>7. CASE n = FloatOctets
    <3>1. PICK m \in 0 .. Power[FloatOctets] - 1 : m = Narrowed(v)
      BY <2>2, NarrowedFacts
    <3>2. FloatOctets \in 0 .. WordOctets /\ s = Encoded(m, FloatOctets)
      BY <2>6, <2>7, <3>1, Parameters
    <3>3. Shifted(s, 0) = m
      BY <3>2, UnsignedReadBack
    <3>4. x = Narrowed(v) * FloatUnit
      BY <2>5, <2>7, <3>1, <3>3
    <3>5. \A f \in 0 .. Power[FloatOctets] - 1 : Distance(x, v) <= Distance(f * FloatUnit, v)
      BY <2>2, <3>4, NarrowedFacts
    <3>. QED
      BY <1>4, <2>1, <2>7, <3>5 DEF ReadAs
  <2>8. CASE n # FloatOctets
    <3>1. n = WordOctets
      BY <1>4, <2>1, <2>8 DEF Sized, SizeIsValid
    <3>2. Shifted(s, 0) = v
      BY <2>2, <2>6, <2>8, <3>1, WordReadBack, Remainder
    <3>3. x = v
      BY <2>2, <2>5, <2>8, <3>2
    <3>. QED
      BY <1>4, <2>1, <2>8, <3>3 DEF ReadAs
  <2>. QED
    BY <2>7, <2>8
<1>. QED
  BY <1>1, <1>2, <1>3, <1>4 DEF Class

(* Until it is rendered the element keeps the value the program gave.      *)
KeptInv ==
  /\ done \in {"made", "sized", "set", "rendered"} /\ asked # << >> =>
       value = Kept(class, asked[1]) /\ bValueIsSet
  /\ done \in {"made", "sized", "set"} =>
       (bHasDefault => bValueIsSet) /\ (bValueIsSet => asked # << >>)

(* The swap that reads only half: that of msvc, of 32 bits.                *)
HalfSwapped == class = "EbmlFloat" /\ Size = FloatOctets /\ "msvc" \in Builds

WrittenInv ==
  done = "rendered" /\ asked # << >> /\ ~ HalfSwapped =>
    Holds(class, Kept(class, asked[1]), data, Size)

(* All but that is read as it was written, and swapped as it should be.    *)
ReadsBack == ~ HalfSwapped => ReadsWhatWasWritten

RInv == KeptInv /\ WrittenInv /\ ReadsBack

(* A new element holds its default, which the program gave.                *)
LEMMA InitHeld ==
  ASSUME Init
  PROVE  RInv
<1>1. /\ done = "made" /\ value = Made /\ bValueIsSet = bHasDefault
      /\ asked = IF bHasDefault THEN <<DefaultValue(class)>> ELSE << >>
  BY DEF Init
<1>2. bHasDefault => asked # << >> /\ asked[1] = DefaultValue(class)
                     /\ value = Kept(class, DefaultValue(class))
  BY <1>1 DEF Made
<1>3. KeptInv
  BY <1>1, <1>2 DEF KeptInv
<1>. QED
  BY <1>1, <1>3 DEF RInv, WrittenInv, ReadsBack, ReadsWhatWasWritten

(* Rendered, the octets hold the value, and were swapped as they should.   *)
LEMMA RenderHeld ==
  ASSUME IInv, RInv, NEW build \in Builds, Render(build)
  PROVE  RInv'
<1>1. /\ class \in Class /\ value \in Domain(class) /\ DefaultSize \in Nat
      /\ build \in Build
  BY BuildsAssumption DEF IInv, TypeOK
<1>2. /\ class' = class /\ bHasDefault' = bHasDefault /\ value' = value
      /\ bValueIsSet' = bValueIsSet /\ DefaultSize' = DefaultSize /\ asked' = asked
      /\ done' = "rendered" /\ done \in {"made", "sized", "set"}
      /\ Size' = UpdateSize(class, value, bValueIsSet, DefaultSize, Size)
      /\ data' = RenderData(class, value, Size', DefaultSize, build)
  BY DEF Render
<1>3. /\ class \in Integers_ \cup Strings => DefaultSize \in LengthOf(class)
      /\ class = "EbmlFloat" => Size \in {FloatOctets, WordOctets}
  BY <1>2 DEF IInv, SizeInv
<1>4. asked # << >> => value = Kept(class, asked[1]) /\ bValueIsSet = TRUE
  BY <1>2 DEF RInv, KeptInv, IInv, TypeOK
<1>5. KeptInv'
  BY <1>2, <1>4 DEF KeptInv
<1>6. ASSUME asked # << >>, ~ HalfSwapped'
      PROVE  Holds(class, value, data', Size')
  <2>1. PICK n : n = Size'
    OBVIOUS
  <2>2. n = UpdateSize(class, value, TRUE, DefaultSize, Size)
    BY <1>2, <1>4, <1>6, <2>1
  <2>3. class = "EbmlFloat" /\ n = FloatOctets => build # "msvc"
    BY <1>2, <1>6, <2>1 DEF HalfSwapped
  <2>4. Holds(class, value, RenderData(class, value, n, DefaultSize, build), n)
    BY <1>1, <1>3, <2>2, <2>3, RenderHolds
  <2>. QED
    BY <1>2, <2>1, <2>4
<1>7. WrittenInv'
  BY <1>2, <1>4, <1>6 DEF WrittenInv
<1>8. ReadsBack'
  BY <1>2 DEF ReadsBack, ReadsWhatWasWritten
<1>. QED
  BY <1>5, <1>7, <1>8 DEF RInv

(* What the reader makes of octets that hold a value.                      *)
LEMMA ReadHeld ==
  ASSUME IInv, RInv, ReadData
  PROVE  RInv'
<1>1. /\ class \in Class /\ data \in Seq(Octet) /\ available \in 0 .. Len(data)
  BY DEF IInv, TypeOK
<1>2. /\ class' = class /\ Size' = Size /\ data' = data /\ available' = available
      /\ asked' = asked /\ done = "rendered"
  BY DEF ReadData
<1>3. Size = Len(data) /\ Sized(class, Size) /\ Size \in Nat
  BY <1>1, <1>2 DEF IInv, SizeInv
<1>4. done' \in {"thrown", "skipped", "read"}
  BY DEF ReadData, ReadThrows, ReadNothing, ReadValue
<1>5. KeptInv' /\ WrittenInv'
  BY <1>4 DEF KeptInv, WrittenInv
<1>6. ASSUME ~ HalfSwapped, done' = "read", asked # << >>, available = Len(data)
      PROVE  ReadAs(class, asked[1], value', Size)
  <2>1. ReadValue
    BY <1>6 DEF ReadData, ReadThrows, ReadNothing
  <2>2. PICK v \in Domain(class) : asked = <<v>>
    BY <1>6 DEF IInv, IsAsked
  <2>3. asked[1] = v
    BY <2>2
  <2>4. Holds(class, Kept(class, v), data, Size)
    BY <1>2, <1>6, <2>3 DEF RInv, WrittenInv
  <2>5. CASE class = "EbmlBinary"
    <3>1. class \notin Integers_ \cup Strings /\ Kept(class, v) = v
      BY <2>5 DEF Integers_, Strings, Kept
    <3>2. data = v
      BY <2>4, <2>5, <3>1 DEF Holds
    <3>3. PICK rest \in [1 .. Size - available -> Octet] :
            value' = SubSeq(data, 1, available) \o rest
      BY <2>1, <2>5 DEF ReadValue
    <3>4. SubSeq(data, 1, available) = data
      BY <1>1, <1>6
    <3>5. rest = << >>
      <4>1. Size - available = 0
        BY <1>3, <1>6
      <4>2. rest \in [1 .. 0 -> Octet]
        BY <3>3, <4>1
      <4>. QED
        BY <4>2
    <3>6. data \o << >> = data
      BY <1>1
    <3>7. value' = v
      BY <3>2, <3>3, <3>4, <3>5, <3>6
    <3>. QED
      BY <2>3, <2>5, <3>1, <3>7 DEF ReadAs
  <2>6. CASE class # "EbmlBinary"
    <3>1. PICK build \in Builds : value' \in Decoded(class, data, build)
      BY <2>1, <2>6 DEF ReadValue
    <3>2. build \in Build
      BY <3>1, BuildsAssumption
    <3>3. class = "EbmlFloat" /\ Size = FloatOctets => build # "msvc"
      BY <1>6, <3>1 DEF HalfSwapped
    <3>. QED
      BY <1>1, <1>3, <2>3, <2>4, <2>6, <3>1, <3>2, <3>3, HeldIsRead
  <2>. QED
    BY <2>5, <2>6
<1>7. ReadsBack'
  <2>1. HalfSwapped' <=> HalfSwapped
    BY <1>2 DEF HalfSwapped
  <2>. QED
    BY <1>2, <1>4, <1>6, <2>1 DEF ReadsBack, ReadsWhatWasWritten, ReadAs
<1>. QED
  BY <1>5, <1>7 DEF RInv

(* An element that is left out is read as its default, which it held.      *)
LEMMA LeftOutHeld ==
  ASSUME IInv, RInv, LeaveOut
  PROVE  RInv'
<1>1. /\ class' = class /\ asked' = asked /\ value' = Made /\ done' = "left out"
      /\ done \in {"made", "sized", "set"} /\ bHasDefault
      /\ bValueIsSet => value = DefaultValue(class)
  BY DEF LeaveOut, IsDefaultValue
<1>2. class \in Class
  BY DEF IInv, TypeOK
<1>3. bValueIsSet /\ asked # << >> /\ value = Kept(class, asked[1])
  BY <1>1 DEF RInv, KeptInv
<1>4. PICK v \in Domain(class) : asked = <<v>> /\ asked[1] = v
  BY <1>3 DEF IInv, IsAsked
<1>5. Made = Kept(class, DefaultValue(class)) /\ Kept(class, v) = DefaultValue(class)
  BY <1>1, <1>3, <1>4 DEF Made
<1>6. CASE class = "EbmlDate"
  <2>1. v \in Int
    BY <1>4, <1>6, WordFacts DEF Domain
  <2>2. EpochToEbml(v) = 0
    BY <1>5, <1>6 DEF Kept, DefaultValue, Strings
  <2>3. IsRepresentable(v) => v = UnixEpochDelay
    BY <2>1, <2>2, DateFacts
  <2>4. ReadsWhatWasWritten'
    BY <1>1, <1>4, <1>6, <2>3 DEF ReadsWhatWasWritten
  <2>. QED
    BY <1>1, <2>4 DEF RInv, KeptInv, WrittenInv, ReadsBack
<1>7. CASE class # "EbmlDate"
  <2>1. Kept(class, DefaultValue(class)) = DefaultValue(class)
    BY <1>2, <1>7, KeptFacts
  <2>2. value' = Kept(class, v)
    BY <1>1, <1>5, <2>1
  <2>3. ReadsWhatWasWritten'
    BY <1>1, <1>4, <1>7, <2>2 DEF ReadsWhatWasWritten
  <2>. QED
    BY <1>1, <2>3 DEF RInv, KeptInv, WrittenInv, ReadsBack
<1>. QED
  BY <1>6, <1>7

(* Every step keeps what was written to be read.                           *)
LEMMA NextHeld ==
  ASSUME IInv, RInv, [Next]_vars
  PROVE  RInv'
<1>1. ASSUME done' \in {"made", "sized", "set"}, KeptInv'
      PROVE  RInv'
  BY <1>1 DEF RInv, WrittenInv, ReadsBack, ReadsWhatWasWritten
<1>2. ASSUME NEW v \in Domain(class), SetValue(v)
      PROVE  RInv'
  <2>1. KeptInv'
    BY <1>2 DEF SetValue, KeptInv
  <2>. QED
    BY <1>1, <1>2, <2>1 DEF SetValue
<1>3. ASSUME NEW n \in 0 .. LengthMax, SetDefaultSize(n)
      PROVE  RInv'
  <2>1. KeptInv'
    BY <1>3 DEF SetDefaultSize, RInv, KeptInv
  <2>. QED
    BY <1>1, <1>3, <2>1 DEF SetDefaultSize
<1>4. ASSUME NEW n \in {FloatOctets, WordOctets}, SetPrecision(n)
      PROVE  RInv'
  <2>1. KeptInv'
    BY <1>4 DEF SetPrecision, RInv, KeptInv
  <2>. QED
    BY <1>1, <1>4, <2>1 DEF SetPrecision
<1>5. ASSUME NEW octets \in SeqOf(Octet, LengthMax), OtherData(octets)
      PROVE  RInv'
  BY <1>5 DEF OtherData, RInv, KeptInv, WrittenInv, ReadsBack, ReadsWhatWasWritten
<1>6. ASSUME NEW n \in 0 .. LengthMax, Truncate(n)
      PROVE  RInv'
  <2>1. /\ done = "rendered" /\ done' = done /\ class' = class /\ asked' = asked
        /\ value' = value /\ bValueIsSet' = bValueIsSet /\ bHasDefault' = bHasDefault
        /\ data' = data /\ Size' = Size
    BY <1>6 DEF Truncate
  <2>2. KeptInv' /\ WrittenInv'
    BY <2>1 DEF RInv, KeptInv, WrittenInv, HalfSwapped
  <2>3. ReadsBack'
    BY <2>1 DEF ReadsBack, ReadsWhatWasWritten
  <2>. QED
    BY <2>2, <2>3 DEF RInv
<1>7. CASE UNCHANGED vars
  <2>1. /\ done' = done /\ class' = class /\ asked' = asked /\ available' = available
        /\ value' = value /\ bValueIsSet' = bValueIsSet /\ bHasDefault' = bHasDefault
        /\ data' = data /\ Size' = Size
    BY <1>7 DEF vars
  <2>. QED
    BY <2>1 DEF RInv, KeptInv, WrittenInv, ReadsBack, ReadsWhatWasWritten, HalfSwapped
<1>. QED
  BY <1>2, <1>3, <1>4, <1>5, <1>6, <1>7, RenderHeld, ReadHeld, LeftOutHeld DEF Next

(* Always.                                                                 *)
THEOREM InductiveHeld == Spec => []RInv
<1>1. Init => RInv
  BY InitHeld
<1>2. IInv /\ RInv /\ [Next]_vars => RInv'
  BY NextHeld
<1>. QED
  BY <1>1, <1>2, Inductive, PTL DEF Spec

(* What the program gave is what another gets, unless a build of msvc      *)
(* takes part.                                                             *)
THEOREM RoundTrip ==
  ASSUME "msvc" \notin Builds
  PROVE  Spec => []ReadsWhatWasWritten
<1>1. RInv => ReadsWhatWasWritten
  BY DEF RInv, ReadsBack, HalfSwapped
<1>. QED
  BY <1>1, InductiveHeld, PTL

(* With one it is as well, of all but the floats of 32 bits.               *)
THEOREM RoundTripButHalf == Spec => [](~ HalfSwapped => ReadsWhatWasWritten)
<1>1. RInv => (~ HalfSwapped => ReadsWhatWasWritten)
  BY DEF RInv, ReadsBack
<1>. QED
  BY <1>1, InductiveHeld, PTL

(* Nor do the swaps of the builds differ in anything else.                 *)
THEOREM SwapsAgree == Spec => [](~ HalfSwapped => OptimizedIsGeneric)
<1>1. ASSUME IInv, RInv, ~ HalfSwapped, done = "rendered", asked # << >>,
             class \in {"EbmlDate", "EbmlFloat"}
      PROVE  data = RenderData(class, value, Size, DefaultSize, "little")
  <2>1. class \notin Integers_ \cup Strings \cup {"EbmlBinary"}
    BY <1>1 DEF Integers_, Strings
  <2>2. value \in Domain(class) /\ Size \in Nat /\ Holds(class, value, data, Size)
    BY <1>1 DEF IInv, TypeOK, RInv, KeptInv, WrittenInv
  <2>3. "little" \in Build /\ "little" # "msvc"
    BY DEF Build
  <2>4. \A v \in Int : ToBig("little", v, Size) = Encoded(v, Size)
    BY <2>2, <2>3, BuildsAgree
  <2>5. CASE class = "EbmlDate"
    <3>1. value \in Int
      BY <2>2, <2>5, WordFacts DEF Domain
    <3>2. RenderData(class, value, Size, DefaultSize, "little") = ToBig("little", value, Size)
      BY <2>1, <2>5 DEF RenderData
    <3>3. data = Encoded(value, Size)
      BY <2>1, <2>2, <2>5 DEF Holds
    <3>. QED
      BY <2>4, <3>1, <3>2, <3>3
  <2>6. CASE class = "EbmlFloat"
    <3>1. PICK x : x = IF Size = FloatOctets THEN Narrowed(value) ELSE value
      OBVIOUS
    <3>2. value \in 0 .. Word - 1 /\ value \in Int
      BY <2>2, <2>6, WordFacts DEF Domain
    <3>3. Narrowed(value) \in 0 .. Power[FloatOctets] - 1
      BY <3>2, NarrowedFacts
    <3>4. PICK y \in Int : y = Narrowed(value)
      BY <3>3, UnitFacts
    <3>5. x \in Int
      BY <3>1, <3>2, <3>4
    <3>6. RenderData(class, value, Size, DefaultSize, "little") = ToBig("little", x, Size)
      BY <2>1, <2>6, <3>1 DEF RenderData
    <3>7. data = Encoded(x, Size)
      BY <2>1, <2>2, <2>6, <3>1 DEF Holds
    <3>. QED
      BY <2>4, <3>5, <3>6, <3>7
  <2>. QED
    BY <1>1, <2>5, <2>6
<1>2. IInv /\ RInv => (~ HalfSwapped => OptimizedIsGeneric)
  BY <1>1 DEF OptimizedIsGeneric
<1>. QED
  BY <1>2, Inductive, InductiveHeld, PTL
=============================================================================
