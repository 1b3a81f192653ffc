------------------------- MODULE FindElement_proofs -------------------------
(***************************************************************************)
(* Proofs about FindNextElement, for every octet width, window size,       *)
(* stream, context and limit, and about FindNextID beside it.              *)
(***************************************************************************)
EXTENDS EbmlStream, Induction, SequenceTheorems, TLAPS

(* The masks of the code are positive, and SizeMax is their number.        *)
LEMMA MaskFacts ==
  /\ SizeMax \in Nat \ {0}
  /\ \A n \in 1 .. SizeMax : Mask[n] \in Nat \ {0}
  /\ IdMax \in 1 .. SizeMax
  /\ BufLen \in Nat /\ BufLen >= IdMax + SizeMax
BY MaskAssumption, IdMaxAssumption, BufLenAssumption DEF SizeMax

(* A length read from a first octet is one of those looked for, or none.   *)
LEMMA MarkedLengthType ==
  ASSUME NEW limit \in Nat, NEW o
  PROVE  MarkedLength(o, limit) \in 0 .. limit
BY DEF MarkedLength

(* A coded size lies within the octets it was looked for in.               *)
LEMMA CodedLengthType ==
  ASSUME NEW s \in Seq(Octet)
  PROVE  /\ CodedLength(s) \in 0 .. SizeMax
         /\ CodedLength(s) <= Len(s)
<1>1. Len(s) \in Nat
  OBVIOUS
<1>2. MarkedLength(Head(s), SizeMax) \in 0 .. SizeMax
  BY MarkedLengthType, MaskFacts
<1>. QED
  BY <1>1, <1>2, MaskFacts DEF CodedLength

-----------------------------------------------------------------------------
(***************************************************************************)
(* Sizes as octets.                                                        *)
(***************************************************************************)

(* One more digit of base r, after a number below b.                       *)
LEMMA NextDigit ==
  ASSUME NEW v \in Nat, NEW b \in Nat, NEW r \in Nat \ {0}, NEW o \in 0 .. r - 1,
         v < b
  PROVE  v * r + o \in Nat /\ v * r + o < b * r
<1>1. b - v - 1 \in Nat /\ b = v + 1 + (b - v - 1)
  OBVIOUS
<1>2. PICK d \in Nat : b = v + 1 + d
  BY <1>1
<1>3. b * r = v * r + r + d * r
  BY <1>2
<1>4. d * r \in Nat /\ v * r \in Nat
  OBVIOUS
<1>. QED
  BY <1>3, <1>4

(* A number is its quotient and its last digit.                            *)
LEMMA LastDigit ==
  ASSUME NEW v \in Nat, NEW r \in Nat \ {0}
  PROVE  /\ v \div r \in Nat /\ v % r \in 0 .. r - 1
         /\ v = (v \div r) * r + (v % r)
         /\ v < r => v % r = v
OBVIOUS

(* One digit less, of a number below b digits.                             *)
LEMMA QuotientBelow ==
  ASSUME NEW v \in Nat, NEW b \in Nat, NEW r \in Nat \ {0}, v < b * r
  PROVE  v \div r < b
<1>. DEFINE q == v \div r
<1>1. q \in Nat /\ q * r <= v
  BY LastDigit
<1>. HIDE DEF q
<1>2. ASSUME q >= b
      PROVE  FALSE
  <2>1. q - b \in Nat /\ q = b + (q - b)
    BY <1>1, <1>2
  <2>2. PICK d \in Nat : q = b + d
    BY <2>1
  <2>3. q * r = b * r + d * r
    BY <2>2
  <2>4. d * r \in Nat /\ b * r \in Int
    OBVIOUS
  <2>. QED
    BY <1>1, <2>3, <2>4
<1>. QED
  BY <1>1, <1>2 DEF q

(* With an octet more the marker is half as large.                         *)
LEMMA MoreDigits ==
  ASSUME NEW a \in Nat, NEW b \in Nat, NEW c \in Nat
  PROVE  (a * b) * (2 * c) = (2 * a) * (c * b)
OBVIOUS

(* How many numbers n octets hold below the marker, n = 0 included.        *)
Full(n) == IF n = 0 THEN 1 ELSE AllOnes[n] + 1

(* What the assumptions say of the numbers that n octets can hold.         *)
LEMMA FullFacts ==
  /\ Mask[1] \in Nat \ {0} /\ Radix \in Nat \ {0} /\ Radix = 2 * Mask[1]
  /\ \A n \in 0 .. SizeMax : Full(n) \in Nat
  /\ \A n \in 1 .. SizeMax : Full(n) = Mask[1] * Full(n - 1)
  /\ \A n \in 1 .. SizeMax - 1 : Mask[n] = 2 * Mask[n + 1]
<1>1. /\ Mask[1] \in Nat \ {0} /\ Len(AllOnes) \in Nat /\ SizeMax \in Nat
      /\ Len(AllOnes) >= SizeMax /\ AllOnes[1] = Mask[1] - 1
      /\ \A n \in 1 .. Len(AllOnes) : AllOnes[n] \in Nat
      /\ \A n \in 1 .. Len(AllOnes) - 1 :
           AllOnes[n + 1] = Mask[1] * AllOnes[n] + Mask[1] - 1
  <2>1. Mask[1] \in Nat \ {0} /\ SizeMax \in Nat
    BY MaskAssumption DEF SizeMax
  <2>2. Len(AllOnes) >= SizeMax
    BY AllOnesAssumption DEF SizeMax
  <2>. QED
    BY <2>1, <2>2, AllOnesAssumption
<1>2. ASSUME NEW n \in 1 .. SizeMax
      PROVE  Full(n) = Mask[1] * Full(n - 1)
  <2>1. CASE n = 1
    BY <1>1, <2>1 DEF Full
  <2>2. CASE n # 1
    <3>1. n - 1 \in 1 .. Len(AllOnes) - 1 /\ n - 1 + 1 = n /\ n # 0 /\ n - 1 # 0
      BY <1>1, <2>2
    <3>2. AllOnes[n] = Mask[1] * AllOnes[n - 1] + Mask[1] - 1
      BY <1>1, <3>1
    <3>3. AllOnes[n - 1] \in Nat
      BY <1>1, <3>1
    <3>4. Full(n) = AllOnes[n] + 1 /\ Full(n - 1) = AllOnes[n - 1] + 1
      BY <3>1 DEF Full
    <3>5. \A a \in Nat, m \in Nat : m * a + m - 1 + 1 = m * (a + 1)
      OBVIOUS
    <3>. QED
      BY <1>1, <3>2, <3>3, <3>4, <3>5
  <2>. QED
    BY <2>1, <2>2
<1>3. \A n \in 0 .. SizeMax : Full(n) \in Nat
  BY <1>1 DEF Full
<1>4. \A n \in 1 .. SizeMax - 1 : Mask[n] = 2 * Mask[n + 1]
  BY MaskAssumption DEF SizeMax
<1>. QED
  BY <1>1, <1>2, <1>3, <1>4 DEF Radix

(* The values a computation of Number takes.                               *)
AreValues(f, s) ==
  /\ f \in [0 .. Len(s) -> Nat] /\ f[0] = 0
  /\ \A k \in 1 .. Len(s) : f[k] = f[k - 1] * Radix + s[k]

(* Number takes the octets one by one.                                     *)
LEMMA NumberIs ==
  ASSUME NEW s \in Seq(Nat)
  PROVE  \E f : AreValues(f, s) /\ Number(s) = f[Len(s)]
<1>. DEFINE P(f) == f = [k \in 0 .. Len(s) |-> IF k = 0 THEN 0
                                               ELSE f[k - 1] * Radix + s[k]]
            F == CHOOSE f : P(f)
            step == [k \in 1 .. Len(s) |-> [v \in Nat |-> v * Radix + s[k]]]
<1>1. /\ Len(s) \in Nat /\ 0 \in Nat /\ \A k \in 1 .. Len(s) : s[k] \in Nat
      /\ \A k \in 1 .. Len(s) : \A v \in Nat : v * Radix + s[k] \in Nat
  <2>1. Len(s) \in Nat /\ 0 \in Nat /\ \A k \in 1 .. Len(s) : s[k] \in Nat
    OBVIOUS
  <2>2. \A v \in Nat, r \in Nat, o \in Nat : v * r + o \in Nat
    OBVIOUS
  <2>3. Radix \in Nat
    BY FullFacts
  <2>. QED
    BY <2>1, <2>2, <2>3
<1>2. step \in [1 .. Len(s) -> [Nat -> Nat]]
  BY <1>1
<1>3. PICK f : Runs(f, Nat, 0, step, Len(s))
  <2>. HIDE DEF step
  <2>. QED
    BY <1>1, <1>2, RunExists
<1>4. /\ f \in [0 .. Len(s) -> Nat] /\ f[0] = 0
      /\ \A k \in 1 .. Len(s) : f[k] = step[k][f[k - 1]]
  <2>. HIDE DEF step
  <2>. QED
    BY <1>3 DEF Runs
<1>5. P(f)
  <2>1. ASSUME NEW k \in 0 .. Len(s)
        PROVE  f[k] = IF k = 0 THEN 0 ELSE f[k - 1] * Radix + s[k]
    <3>1. CASE k = 0
      BY <1>4, <3>1
    <3>2. CASE k # 0
      <4>1. k \in 1 .. Len(s) /\ k - 1 \in 0 .. Len(s)
        BY <1>1, <3>2
      <4>2. f[k - 1] \in Nat /\ f[k] = step[k][f[k - 1]]
        BY <1>4, <4>1
      <4>4. step[k] = [v \in Nat |-> v * Radix + s[k]]
        BY <4>1
      <4>3. step[k][f[k - 1]] = f[k - 1] * Radix + s[k]
        BY <4>2, <4>4
      <4>. QED
        BY <3>2, <4>2, <4>3
    <3>. QED
      BY <3>1, <3>2
  <2>2. f = [k \in 0 .. Len(s) |-> f[k]]
    BY <1>4
  <2>. HIDE DEF step
  <2>. QED
    BY <2>1, <2>2
<1>. HIDE DEF step
<1>6. P(F)
  BY <1>5
<1>7. Number(s) = F[Len(s)]
  BY DEF Number
<1>. HIDE DEF F
<1>8. F[0] = 0
  BY <1>1, <1>6
<1>9. ASSUME NEW k \in 1 .. Len(s)
      PROVE  F[k] = F[k - 1] * Radix + s[k]
  <2>1. k \in 0 .. Len(s) /\ k # 0
    BY <1>1
  <2>2. F[k] = IF k = 0 THEN 0 ELSE F[k - 1] * Radix + s[k]
    BY <1>6, <2>1
  <2>. QED
    BY <2>1, <2>2
<1>10. F = [k \in 0 .. Len(s) |-> F[k]]
  BY <1>6, Zenon
<1>. HIDE DEF P
<1>11. F \in [0 .. Len(s) -> Nat]
  <2>1. F[0] \in Nat /\ \A k \in 1 .. Len(s) : F[k - 1] \in Nat => F[k] \in Nat
    BY <1>1, <1>8, <1>9
  <2>. QED
    BY <1>1, <1>10, <2>1, StaysIn
<1>12. AreValues(F, s)
  BY <1>8, <1>9, <1>11 DEF AreValues
<1>. QED
  BY <1>7, <1>12

(* The octets of a coded size without the marker.                          *)
Payload(coded) == <<Head(coded) - Mask[Len(coded)]>> \o Tail(coded)

(* What is left of a coded size without its marker are digits, the first   *)
(* of which is below the marker.                                           *)
LEMMA PayloadFacts ==
  ASSUME NEW coded \in Seq(Octet), Len(coded) \in 1 .. SizeMax,
         Marked(coded[1], Len(coded))
  PROVE  /\ Payload(coded) \in Seq(Nat) /\ Len(Payload(coded)) = Len(coded)
         /\ Payload(coded)[1] = coded[1] - Mask[Len(coded)]
         /\ Payload(coded)[1] \in 0 .. Mask[Len(coded)] - 1
         /\ \A k \in 2 .. Len(coded) : /\ Payload(coded)[k] = coded[k]
                                       /\ coded[k] \in 0 .. Radix - 1
<1>. DEFINE n == Len(coded)
            first == coded[1] - Mask[n]
<1>1. /\ n \in Nat /\ n > 0 /\ coded # << >>
      /\ \A k \in 1 .. n : coded[k] \in 0 .. Radix - 1
  <2>1. \A k \in 1 .. n : coded[k] \in Octet
    OBVIOUS
  <2>2. n \in Nat /\ n > 0 /\ coded # << >>
    BY MaskFacts
  <2>. QED
    BY <2>1, <2>2 DEF Octet
<1>2. Mask[n] \in Nat \ {0} /\ Radix \in Nat
  BY MaskFacts, FullFacts
<1>3. first \in 0 .. Mask[n] - 1 /\ first \in Nat
  BY <1>1, <1>2 DEF Marked
<1>4. Head(coded) = coded[1]
  BY <1>1
<1>5. /\ Tail(coded) \in Seq(Octet) /\ Len(Tail(coded)) = n - 1
      /\ \A k \in 1 .. n - 1 : Tail(coded)[k] = coded[k + 1]
  BY <1>1, HeadTailProperties
<1>6. Octet \subseteq Nat
  BY <1>2 DEF Octet
<1>7. Tail(coded) \in Seq(Nat)
  BY <1>5, <1>6, SeqMonotonic
<1>. HIDE DEF first
<1>8. <<first>> \in Seq(Nat) /\ Len(<<first>>) = 1 /\ <<first>>[1] = first
  BY <1>3
<1>9. Payload(coded) = <<first>> \o Tail(coded)
  BY <1>4 DEF Payload, first
<1>10. /\ <<first>> \o Tail(coded) \in Seq(Nat)
       /\ Len(<<first>> \o Tail(coded)) = n
       /\ (<<first>> \o Tail(coded))[1] = first
       /\ \A k \in 2 .. n : (<<first>> \o Tail(coded))[k] = Tail(coded)[k - 1]
  BY <1>1, <1>5, <1>7, <1>8, ConcatProperties
<1>11. \A k \in 2 .. n : k - 1 \in 1 .. n - 1 /\ k - 1 + 1 = k /\ k \in 1 .. n
  BY <1>1
<1>. QED
  BY <1>1, <1>3, <1>5, <1>9, <1>10, <1>11 DEF first

(* No coded size is more than all ones.                                    *)
LEMMA CodedValueType ==
  ASSUME NEW coded \in Seq(Octet), Len(coded) \in 1 .. SizeMax,
         Marked(coded[1], Len(coded))
  PROVE  CodedValue(coded) \in 0 .. AllOnes[Len(coded)]
<1>. DEFINE n == Len(coded)
            s == Payload(coded)
<1>1. /\ s \in Seq(Nat) /\ Len(s) = n /\ s[1] \in 0 .. Mask[n] - 1
      /\ \A k \in 2 .. n : s[k] \in 0 .. Radix - 1
  BY PayloadFacts
<1>2. CodedValue(coded) = Number(s)
  BY DEF CodedValue, Payload
<1>. HIDE DEF s
<1>3. PICK f : AreValues(f, s) /\ Number(s) = f[n]
  BY <1>1, NumberIs
<1>4. /\ f \in [0 .. n -> Nat] /\ f[0] = 0
      /\ \A k \in 1 .. n : f[k] = f[k - 1] * Radix + s[k]
  BY <1>1, <1>3 DEF AreValues
<1>5. n \in 1 .. SizeMax /\ SizeMax \in Nat /\ n - 1 \in Nat
  BY MaskFacts
<1>. HIDE DEF n
<1>. DEFINE A == {k \in 0 .. n - 1 : f[k + 1] < Mask[n - k] * Full(k)}
<1>6. 0 \in A
  <2>1. f[1] = s[1] /\ Full(0) = 1
    BY <1>1, <1>4, <1>5, FullFacts DEF Full
  <2>2. Mask[n] \in Nat /\ n - 0 = n /\ 0 + 1 = 1 /\ 0 \in 0 .. n - 1
    BY <1>5, MaskFacts
  <2>. QED
    BY <1>1, <2>1, <2>2
<1>7. ASSUME NEW k \in 1 .. n - 1, k - 1 \in A
      PROVE  k \in A
  <2>1. f[k] < Mask[n - k + 1] * Full(k - 1)
    <3>1. k - 1 + 1 = k /\ n - (k - 1) = n - k + 1
      BY <1>5
    <3>. QED
      BY <1>7, <3>1
  <2>2. /\ Mask[n - k + 1] \in Nat /\ Mask[n - k] = 2 * Mask[n - k + 1]
        /\ Full(k - 1) \in Nat /\ Full(k) = Mask[1] * Full(k - 1)
    <3>1. /\ k \in 1 .. SizeMax /\ k - 1 \in 0 .. SizeMax
          /\ n - k \in 1 .. SizeMax - 1 /\ n - k + 1 \in 1 .. SizeMax
      BY <1>5
    <3>2. Mask[n - k + 1] \in Nat
      BY <3>1, MaskFacts
    <3>. QED
      BY <3>1, <3>2, FullFacts
  <2>3. /\ f[k] \in Nat /\ k + 1 - 1 = k /\ k + 1 \in 1 .. n /\ k + 1 \in 2 .. n
    BY <1>4, <1>5
  <2>4. f[k + 1] = f[k] * Radix + s[k + 1] /\ s[k + 1] \in 0 .. Radix - 1
    BY <1>1, <1>4, <2>3
  <2>5. PICK b \in Nat : b = Mask[n - k + 1] * Full(k - 1)
    BY <2>2
  <2>6. f[k + 1] < b * Radix
    <3>1. PICK v \in Nat : v = f[k]
      BY <2>3
    <3>2. PICK o \in 0 .. Radix - 1 : o = s[k + 1]
      BY <2>4
    <3>3. v < b
      BY <2>1, <2>5, <3>1
    <3>4. f[k + 1] = v * Radix + o
      BY <2>4, <3>1, <3>2
    <3>5. PICK r \in Nat \ {0} : r = Radix
      BY FullFacts
    <3>6. v * r + o < b * r
      BY <3>2, <3>3, <3>5, NextDigit
    <3>. QED
      BY <3>4, <3>5, <3>6
  <2>7. b * Radix = Mask[n - k] * Full(k)
    <3>1. PICK a \in Nat : a = Mask[n - k + 1]
      BY <2>2
    <3>2. PICK d \in Nat : d = Full(k - 1)
      BY <2>2
    <3>3. PICK c \in Nat : c = Mask[1]
      BY FullFacts
    <3>4. b = a * d /\ Radix = 2 * c /\ Mask[n - k] = 2 * a /\ Full(k) = c * d
      BY <2>2, <2>5, <3>1, <3>2, <3>3, FullFacts
    <3>5. (a * d) * (2 * c) = (2 * a) * (c * d)
      BY MoreDigits
    <3>. QED
      BY <3>4, <3>5
  <2>8. f[k + 1] < Mask[n - k] * Full(k)
    BY <2>6, <2>7
  <2>9. k \in 0 .. n - 1
    BY <1>5
  <2>. QED
    BY <2>8, <2>9
<1>8. n - 1 \in A
  <2>. HIDE DEF A
  <2>1. \A k \in 0 .. n - 1 : k \in A
    BY <1>5, <1>6, <1>7, UpTo
  <2>. QED
    BY <1>5, <2>1
<1>9. f[n] < Mask[1] * Full(n - 1)
  <2>1. n - 1 + 1 = n /\ n - (n - 1) = 1
    BY <1>5
  <2>. QED
    BY <1>8, <2>1
<1>10. f[n] \in Nat /\ f[n] < Full(n)
  BY <1>4, <1>5, <1>9, FullFacts
<1>11. Full(n) = AllOnes[n] + 1 /\ Full(n) \in Nat
  BY <1>5, FullFacts DEF Full
<1>12. CodedValue(coded) \in Nat /\ CodedValue(coded) < AllOnes[n] + 1
  BY <1>2, <1>3, <1>10, <1>11
<1>13. AllOnes[n] \in Nat
  BY <1>5, AllOnesAssumption DEF SizeMax
<1>. QED
  BY <1>12, <1>13 DEF n

(* What is left of a number after each octet of it that was written.       *)
AreRests(f, size, n) ==
  /\ f \in [0 .. n - 1 -> Nat] /\ f[0] = size
  /\ \A k \in 1 .. n - 1 : f[k] = f[k - 1] \div Radix

(* CodedValueLength writes the octets from the last one on.                *)
LEMMA WrittenOctets ==
  ASSUME NEW size \in Nat, NEW n \in 1 .. SizeMax
  PROVE  \E f : /\ AreRests(f, size, n)
                /\ CodedValueLength(size, n)
                     = [i \in 1 .. n |->
                         IF i = 1 THEN Mask[n] + (f[n - 1] % Mask[n])
                                  ELSE f[n - i] % Radix]
<1>. DEFINE P(f) == f = [k \in 0 .. n - 1 |-> IF k = 0 THEN size
                                              ELSE f[k - 1] \div Radix]
            F == CHOOSE f : P(f)
            step == [k \in 1 .. n - 1 |-> [v \in Nat |-> v \div Radix]]
<1>1. n - 1 \in Nat /\ n \in Nat /\ \A v \in Nat : v \div Radix \in Nat
  <2>1. n - 1 \in Nat /\ n \in Nat
    BY MaskFacts
  <2>2. ASSUME NEW v \in Nat
        PROVE  v \div Radix \in Nat
    BY FullFacts, LastDigit
  <2>. QED
    BY <2>1, <2>2
<1>2. step \in [1 .. n - 1 -> [Nat -> Nat]]
  BY <1>1
<1>3. PICK f : Runs(f, Nat, size, step, n - 1)
  <2>. HIDE DEF step
  <2>. QED
    BY <1>1, <1>2, RunExists
<1>4. /\ f \in [0 .. n - 1 -> Nat] /\ f[0] = size
      /\ \A k \in 1 .. n - 1 : f[k] = step[k][f[k - 1]]
  <2>. HIDE DEF step
  <2>. QED
    BY <1>3 DEF Runs
<1>5. P(f)
  <2>1. ASSUME NEW k \in 0 .. n - 1
        PROVE  f[k] = IF k = 0 THEN size ELSE f[k - 1] \div Radix
    <3>1. CASE k = 0
      BY <1>4, <3>1
    <3>2. CASE k # 0
      <4>1. k \in 1 .. n - 1 /\ k - 1 \in 0 .. n - 1
        BY <1>1, <3>2
      <4>2. f[k - 1] \in Nat /\ f[k] = step[k][f[k - 1]]
        BY <1>4, <4>1
      <4>3. step[k][f[k - 1]] = f[k - 1] \div Radix
        BY <4>1, <4>2
      <4>. QED
        BY <3>2, <4>2, <4>3
    <3>. QED
      BY <3>1, <3>2
  <2>2. f = [k \in 0 .. n - 1 |-> f[k]]
    BY <1>4
  <2>. HIDE DEF step
  <2>. QED
    BY <2>1, <2>2
<1>. HIDE DEF step
<1>6. P(F)
  BY <1>5
<1>7. CodedValueLength(size, n)
        = [i \in 1 .. n |-> IF i = 1 THEN Mask[n] + (F[n - 1] % Mask[n])
                                     ELSE F[n - i] % Radix]
  BY DEF CodedValueLength
<1>. HIDE DEF F
<1>8. F[0] = size
  BY <1>1, <1>6
<1>9. ASSUME NEW k \in 1 .. n - 1
      PROVE  F[k] = F[k - 1] \div Radix
  <2>1. k \in 0 .. n - 1 /\ k # 0
    BY <1>1
  <2>2. F[k] = IF k = 0 THEN size ELSE F[k - 1] \div Radix
    BY <1>6, <2>1
  <2>. QED
    BY <2>1, <2>2
<1>10. F = [k \in 0 .. n - 1 |-> F[k]]
  BY <1>6, Zenon
<1>. HIDE DEF P
<1>11. F \in [0 .. n - 1 -> Nat]
  <2>1. F[0] \in Nat /\ \A k \in 1 .. n - 1 : F[k - 1] \in Nat => F[k] \in Nat
    BY <1>1, <1>8, <1>9
  <2>. QED
    BY <1>1, <1>10, <2>1, StaysIn
<1>12. AreRests(F, size, n)
  BY <1>8, <1>9, <1>11 DEF AreRests
<1>. QED
  BY <1>7, <1>12

(* The first octet of a size holds what is left, below its marker.         *)
LEMMA RestIsBelowMarker ==
  ASSUME NEW n \in 1 .. SizeMax, NEW size \in 0 .. AllOnes[n], NEW f,
         AreRests(f, size, n)
  PROVE  f[n - 1] \in 0 .. Mask[n] - 1
<1>1. /\ f \in [0 .. n - 1 -> Nat] /\ f[0] = size
      /\ \A k \in 1 .. n - 1 : f[k] = f[k - 1] \div Radix
  BY DEF AreRests
<1>2. n \in Nat /\ n - 1 \in Nat /\ SizeMax \in Nat
  BY MaskFacts
<1>. DEFINE A == {k \in 0 .. n - 1 : f[k] < Mask[k + 1] * Full(n - k - 1)}
<1>3. 0 \in A
  <2>1. AllOnes[n] \in Nat
    BY <1>2, AllOnesAssumption DEF SizeMax
  <2>2. size < Full(n)
    BY <1>2, <2>1 DEF Full
  <2>3. Full(n) = Mask[1] * Full(n - 1) /\ 0 + 1 = 1 /\ n - 0 - 1 = n - 1
    BY <1>2, FullFacts
  <2>4. 0 \in 0 .. n - 1
    BY <1>2
  <2>. QED
    BY <1>1, <2>2, <2>3, <2>4
<1>4. ASSUME NEW k \in 1 .. n - 1, k - 1 \in A
      PROVE  k \in A
  <2>1. f[k - 1] < Mask[k] * Full(n - k)
    <3>1. k - 1 + 1 = k /\ n - (k - 1) - 1 = n - k
      BY <1>2
    <3>. QED
      BY <1>4, <3>1
  <2>2. /\ Mask[k + 1] \in Nat /\ Mask[k] = 2 * Mask[k + 1]
        /\ Full(n - k - 1) \in Nat /\ Full(n - k) = Mask[1] * Full(n - k - 1)
    <3>1. /\ k \in 1 .. SizeMax - 1 /\ k + 1 \in 1 .. SizeMax
          /\ n - k \in 1 .. SizeMax /\ n - k - 1 \in 0 .. SizeMax
      BY <1>2
    <3>2. Mask[k + 1] \in Nat
      BY <3>1, MaskFacts
    <3>. QED
      BY <3>1, <3>2, FullFacts
  <2>3. PICK b \in Nat : b = Mask[k + 1] * Full(n - k - 1)
    BY <2>2
  <2>4. b * Radix = Mask[k] * Full(n - k)
    BY <2>2, <2>3, MoreDigits, FullFacts
  <2>5. PICK v \in Nat : v = f[k - 1]
    <3>1. k - 1 \in 0 .. n - 1
      BY <1>2
    <3>. QED
      BY <1>1, <3>1
  <2>6. v < b * Radix
    BY <2>1, <2>4, <2>5
  <2>7. v \div Radix < b
    BY <2>6, FullFacts, QuotientBelow
  <2>8. f[k] = v \div Radix /\ k \in 0 .. n - 1
    BY <1>1, <1>2, <2>5
  <2>. QED
    BY <2>3, <2>7, <2>8
<1>5. n - 1 \in A
  <2>. HIDE DEF A
  <2>1. \A k \in 0 .. n - 1 : k \in A
    BY <1>2, <1>3, <1>4, UpTo
  <2>. QED
    BY <1>2, <2>1
<1>6. f[n - 1] < Mask[n] * Full(0)
  <2>1. n - 1 + 1 = n /\ n - (n - 1) - 1 = 0
    BY <1>2
  <2>. QED
    BY <1>5, <2>1
<1>7. f[n - 1] \in Nat
  BY <1>1, <1>2
<1>8. Full(0) = 1 /\ Mask[n] \in Nat
  BY MaskFacts DEF Full
<1>. QED
  BY <1>6, <1>7, <1>8

(* A size that n octets hold is read from the n octets that are written.   *)
LEMMA WrittenSize ==
  ASSUME NEW n \in 1 .. SizeMax, NEW size \in 0 .. AllOnes[n]
  PROVE  /\ CodedValueLength(size, n) \in Seq(Octet)
         /\ Len(CodedValueLength(size, n)) = n
         /\ Marked(CodedValueLength(size, n)[1], n)
         /\ CodedValue(CodedValueLength(size, n)) = size
<1>. DEFINE coded == CodedValueLength(size, n)
<1>1. n \in Nat /\ n - 1 \in Nat /\ size \in Nat /\ SizeMax \in Nat
  <2>1. AllOnes[n] \in Nat
    BY MaskFacts, AllOnesAssumption DEF SizeMax
  <2>. QED
    BY <2>1, MaskFacts
<1>2. PICK f : /\ AreRests(f, size, n)
               /\ coded = [i \in 1 .. n |->
                            IF i = 1 THEN Mask[n] + (f[n - 1] % Mask[n])
                                     ELSE f[n - i] % Radix]
  BY <1>1, WrittenOctets
<1>. HIDE DEF coded
<1>3. /\ f \in [0 .. n - 1 -> Nat] /\ f[0] = size
      /\ \A k \in 1 .. n - 1 : f[k] = f[k - 1] \div Radix
  BY <1>2 DEF AreRests
<1>4. f[n - 1] \in 0 .. Mask[n] - 1
  BY <1>2, RestIsBelowMarker
<1>5. Mask[n] \in Nat \ {0} /\ 2 * Mask[n] <= Radix
  <2>1. Mask[n] \in Nat \ {0} /\ Mask[1] \in Nat
    BY MaskFacts, FullFacts
  <2>2. n = 1 \/ Mask[1] >= 2 * Mask[n]
    <3>1. \A i, j \in 1 .. SizeMax : i < j => Mask[i] >= 2 * Mask[j]
      BY MaskAssumption DEF SizeMax
    <3>2. 1 \in 1 .. SizeMax /\ n \in 1 .. SizeMax /\ (n # 1 => 1 < n)
      BY <1>1
    <3>. QED
      BY <3>1, <3>2
  <2>. QED
    BY <2>1, <2>2, FullFacts
<1>6. coded[1] = Mask[n] + f[n - 1]
  <2>1. f[n - 1] % Mask[n] = f[n - 1]
    <3>1. PICK v \in Nat : v = f[n - 1] /\ v < Mask[n]
      BY <1>4, <1>5
    <3>2. v % Mask[n] = v
      BY <1>5, <3>1, LastDigit
    <3>. QED
      BY <3>1, <3>2
  <2>. QED
    BY <1>1, <1>2, <2>1
<1>7. ASSUME NEW i \in 2 .. n
      PROVE  coded[i] = f[n - i] % Radix /\ f[n - i] \in Nat
  <2>1. i \in 1 .. n /\ i # 1 /\ n - i \in 0 .. n - 1
    BY <1>1
  <2>. QED
    BY <1>2, <1>3, <2>1
<1>8. Marked(coded[1], n)
  BY <1>4, <1>5, <1>6 DEF Marked
<1>9. coded \in Seq(Octet) /\ Len(coded) = n
  <2>1. ASSUME NEW i \in 1 .. n
        PROVE  coded[i] \in Octet
    <3>1. CASE i = 1
      BY <1>4, <1>5, <1>6, <3>1, FullFacts DEF Octet
    <3>2. CASE i # 1
      <4>1. i \in 2 .. n
        BY <1>1, <3>2
      <4>2. f[n - i] % Radix \in 0 .. Radix - 1
        BY <1>7, <4>1, FullFacts, LastDigit
      <4>. QED
        BY <1>7, <4>1, <4>2 DEF Octet
    <3>. QED
      BY <3>1, <3>2
  <2>2. coded = [i \in 1 .. n |-> coded[i]]
    BY <1>2
  <2>. QED
    BY <1>1, <2>1, <2>2
<1>10. CodedValue(coded) = size
  <2>. DEFINE s == Payload(coded)
  <2>1. /\ s \in Seq(Nat) /\ Len(s) = n
        /\ s[1] = coded[1] - Mask[n]
        /\ \A k \in 2 .. n : s[k] = coded[k]
    BY <1>8, <1>9, PayloadFacts
  <2>2. CodedValue(coded) = Number(s)
    BY DEF CodedValue, Payload
  <2>. HIDE DEF s
  <2>3. PICK g : AreValues(g, s) /\ Number(s) = g[n]
    BY <2>1, NumberIs
  <2>4. /\ g \in [0 .. n -> Nat] /\ g[0] = 0
        /\ \A k \in 1 .. n : g[k] = g[k - 1] * Radix + s[k]
    BY <2>1, <2>3 DEF AreValues
  <2>. DEFINE A == {k \in 0 .. n - 1 : g[k + 1] = f[n - 1 - k]}
  <2>5. 0 \in A
    <3>1. s[1] = f[n - 1]
      BY <1>4, <1>5, <1>6, <2>1
    <3>2. 1 \in 1 .. n /\ 0 \in 0 .. n - 1 /\ 0 + 1 = 1 /\ 1 - 1 = 0 /\ n - 1 - 0 = n - 1
      BY <1>1
    <3>3. g[1] = 0 * Radix + s[1]
      BY <2>4, <3>2
    <3>4. g[1] = s[1]
      BY <1>4, <1>5, <3>1, <3>3, FullFacts
    <3>. QED
      BY <3>1, <3>2, <3>4
  <2>6. ASSUME NEW k \in 1 .. n - 1, k - 1 \in A
        PROVE  k \in A
    <3>1. /\ k + 1 \in 2 .. n /\ k + 1 \in 1 .. n /\ k + 1 - 1 = k /\ k - 1 + 1 = k
          /\ n - 1 - (k - 1) = n - k /\ n - (k + 1) = n - 1 - k
          /\ n - k \in 1 .. n - 1 /\ n - k - 1 = n - 1 - k /\ k \in 0 .. n - 1
      BY <1>1
    <3>2. g[k] = f[n - k] /\ f[n - k] = f[n - 1 - k] \div Radix
      BY <1>3, <2>6, <3>1
    <3>3. s[k + 1] = f[n - 1 - k] % Radix /\ f[n - 1 - k] \in Nat
      BY <1>7, <2>1, <3>1
    <3>4. g[k + 1] = (f[n - 1 - k] \div Radix) * Radix + (f[n - 1 - k] % Radix)
      BY <2>4, <3>1, <3>2, <3>3
    <3>5. g[k + 1] = f[n - 1 - k]
      BY <3>3, <3>4, FullFacts, LastDigit
    <3>. QED
      BY <3>1, <3>5
  <2>7. n - 1 \in A
    <3>. HIDE DEF A
    <3>1. \A k \in 0 .. n - 1 : k \in A
      BY <1>1, <2>5, <2>6, UpTo
    <3>. QED
      BY <1>1, <3>1
  <2>8. g[n] = f[0]
    <3>1. n - 1 + 1 = n /\ n - 1 - (n - 1) = 0
      BY <1>1
    <3>. QED
      BY <2>7, <3>1
  <2>. QED
    BY <1>3, <2>2, <2>3, <2>8
<1>. QED
  BY <1>8, <1>9, <1>10 DEF coded

(* All ones of more octets is more.                                        *)
LEMMA AllOnesGrow ==
  /\ \A n \in 1 .. 5 : AllOnes[n] \in Nat
  /\ \A n \in 1 .. 4 : AllOnes[n] <= AllOnes[n + 1]
<1>1. /\ Len(AllOnes) \in Nat /\ Len(AllOnes) >= 5
      /\ \A n \in 1 .. Len(AllOnes) : AllOnes[n] \in Nat
      /\ \A n \in 1 .. Len(AllOnes) - 1 :
           AllOnes[n + 1] = Mask[1] * AllOnes[n] + Mask[1] - 1
  BY AllOnesAssumption
<1>2. ASSUME NEW a \in Nat, NEW m \in Nat \ {0}
      PROVE  a <= m * a + m - 1
  <2>1. m - 1 \in Nat /\ m = 1 + (m - 1)
    OBVIOUS
  <2>2. PICK d \in Nat : m = 1 + d
    BY <2>1
  <2>3. m * a = a + d * a /\ d * a \in Nat
    BY <2>2
  <2>. QED
    BY <2>3
<1>3. ASSUME NEW n \in 1 .. 4
      PROVE  AllOnes[n] <= AllOnes[n + 1]
  <2>1. n \in 1 .. Len(AllOnes) - 1 /\ n \in 1 .. Len(AllOnes)
    BY <1>1
  <2>. QED
    BY <1>1, <1>2, <2>1, FullFacts
<1>. QED
  BY <1>1, <1>3

(* An element found has a size whose length is the one that was read.      *)
LEMMA LengthIsKept ==
  ASSUME NEW n \in 1 .. SizeMax, NEW size \in 0 .. AllOnes[n],
         NEW finite \in BOOLEAN, finite => size # AllOnes[n]
  PROVE  CodedSizeLength(size, n, finite) = n
<1>1. n \in Nat /\ AllOnes[n] \in Nat /\ size \in Nat
  <2>1. AllOnes[n] \in Nat
    BY MaskFacts, AllOnesAssumption DEF SizeMax
  <2>. QED
    BY <2>1, MaskFacts
<1>2. CASE n \in 1 .. 4
  <2>1. n = 1 \/ n = 2 \/ n = 3 \/ n = 4
    BY <1>2
  <2>. QED
    BY <1>1, <2>1 DEF CodedSizeLength
<1>3. CASE n > 4
  BY <1>1, <1>3 DEF CodedSizeLength
<1>. QED
  BY <1>1, <1>2, <1>3

(* Of c octets, the fewest that hold the size, and the ones asked for.     *)
IsCoded(c, size, length, n) ==
  /\ c < 5 => size < AllOnes[c]
  /\ \A k \in 1 .. c - 1 : size >= AllOnes[k]
  /\ n = IF c < length THEN length ELSE c

(* The length a size is written with holds it, and is not too long.        *)
LEMMA LengthIsEnough ==
  ASSUME NEW length \in 0 .. SizeMax,
         NEW size \in 0 .. AllOnes[LongestWritten(length)] - 1
  PROVE  /\ CodedSizeLength(size, length, TRUE) \in 1 .. SizeMax
         /\ size < AllOnes[CodedSizeLength(size, length, TRUE)]
<1>. DEFINE n == CodedSizeLength(size, length, TRUE)
<1>1. /\ SizeMax \in Nat \ {0} /\ length \in Nat
      /\ LongestWritten(length) \in 1 .. Len(AllOnes)
      /\ AllOnes[LongestWritten(length)] \in Nat /\ size \in Nat
      /\ size < AllOnes[LongestWritten(length)]
  <2>1. SizeMax \in Nat \ {0} /\ length \in Nat
    BY MaskFacts
  <2>2. LongestWritten(length) \in 1 .. Len(AllOnes)
    BY <2>1, AllOnesAssumption DEF SizeMax, LongestWritten
  <2>3. AllOnes[LongestWritten(length)] \in Nat
    BY <2>2, AllOnesAssumption
  <2>. QED
    BY <2>1, <2>2, <2>3
<1>2. /\ AllOnes[1] \in Nat /\ AllOnes[2] \in Nat /\ AllOnes[3] \in Nat
      /\ AllOnes[4] \in Nat /\ AllOnes[5] \in Nat
      /\ AllOnes[1] <= AllOnes[2] /\ AllOnes[2] <= AllOnes[3]
      /\ AllOnes[3] <= AllOnes[4] /\ AllOnes[4] <= AllOnes[5]
  BY AllOnesGrow
<1>3. \A i, j \in 1 .. 5 : i <= j => AllOnes[i] <= AllOnes[j]
  <2>1. ASSUME NEW i \in 1 .. 5, NEW j \in 1 .. 5, i <= j
        PROVE  AllOnes[i] <= AllOnes[j]
    <3>1. i = 1 \/ i = 2 \/ i = 3 \/ i = 4 \/ i = 5
      OBVIOUS
    <3>2. j = 1 \/ j = 2 \/ j = 3 \/ j = 4 \/ j = 5
      OBVIOUS
    <3>. QED
      BY <1>2, <2>1, <3>1, <3>2
  <2>. QED
    BY <2>1
<1>4. PICK c \in 1 .. 5 : IsCoded(c, size, length, n)
  <2>0. ASSUME NEW c \in 2 .. 5, size >= AllOnes[c - 1]
        PROVE  \A k \in 1 .. c - 1 : size >= AllOnes[k]
    <3>1. c - 1 \in 1 .. 5 /\ \A k \in 1 .. c - 1 : k \in 1 .. 5 /\ k <= c - 1
      OBVIOUS
    <3>2. \A k \in 1 .. 5 : AllOnes[k] \in Nat
      BY AllOnesGrow
    <3>3. ASSUME NEW k \in 1 .. c - 1
          PROVE  size >= AllOnes[k]
      <4>1. AllOnes[k] <= AllOnes[c - 1]
        BY <1>3, <3>1
      <4>2. AllOnes[k] \in Nat /\ AllOnes[c - 1] \in Nat
        BY <3>1, <3>2
      <4>. QED
        BY <1>1, <2>0, <4>1, <4>2
    <3>. QED
      BY <3>3
  <2>1. CASE size < AllOnes[1]
    <3>1. n = IF 1 < length THEN length ELSE 1
      BY <2>1 DEF CodedSizeLength
    <3>. HIDE DEF n
    <3>2. IsCoded(1, size, length, n)
      BY <2>1, <3>1 DEF IsCoded
    <3>. QED
      BY <3>2
  <2>2. CASE size >= AllOnes[2 - 1] /\ size < AllOnes[2]
    <3>1. \A k \in 1 .. 2 - 1 : size >= AllOnes[k]
      BY <2>0, <2>2
    <3>2. ~ (size < AllOnes[1])
      BY <1>1, <1>2, <3>1
    <3>3. n = IF 2 < length THEN length ELSE 2
      BY <2>2, <3>2 DEF CodedSizeLength
    <3>. HIDE DEF n
    <3>4. IsCoded(2, size, length, n)
      BY <2>2, <3>1, <3>3 DEF IsCoded
    <3>. QED
      BY <3>4
  <2>3. CASE size >= AllOnes[3 - 1] /\ size < AllOnes[3]
    <3>1. \A k \in 1 .. 3 - 1 : size >= AllOnes[k]
      BY <2>0, <2>3
    <3>2. ~ (size < AllOnes[1])
      BY <1>1, <1>2, <3>1
    <3>3. ~ (size < AllOnes[2])
      BY <1>1, <1>2, <3>1
    <3>4. n = IF 3 < length THEN length ELSE 3
      BY <2>3, <3>2, <3>3 DEF CodedSizeLength
    <3>. HIDE DEF n
    <3>5. IsCoded(3, size, length, n)
      BY <2>3, <3>1, <3>4 DEF IsCoded
    <3>. QED
      BY <3>5
  <2>4. CASE size >= AllOnes[4 - 1] /\ size < AllOnes[4]
    <3>1. \A k \in 1 .. 4 - 1 : size >= AllOnes[k]
      BY <2>0, <2>4
    <3>2. ~ (size < AllOnes[1])
      BY <1>1, <1>2, <3>1
    <3>3. ~ (size < AllOnes[2])
      BY <1>1, <1>2, <3>1
    <3>4. ~ (size < AllOnes[3])
      BY <1>1, <1>2, <3>1
    <3>5. n = IF 4 < length THEN length ELSE 4
      BY <2>4, <3>2, <3>3, <3>4 DEF CodedSizeLength
    <3>. HIDE DEF n
    <3>6. IsCoded(4, size, length, n)
      BY <2>4, <3>1, <3>5 DEF IsCoded
    <3>. QED
      BY <3>6
  <2>5. CASE size >= AllOnes[5 - 1]
    <3>1. \A k \in 1 .. 5 - 1 : size >= AllOnes[k]
      BY <2>0, <2>5
    <3>2. ~ (size < AllOnes[1])
      BY <1>1, <1>2, <3>1
    <3>3. ~ (size < AllOnes[2])
      BY <1>1, <1>2, <3>1
    <3>4. ~ (size < AllOnes[3])
      BY <1>1, <1>2, <3>1
    <3>5. ~ (size < AllOnes[4])
      BY <1>1, <1>2, <3>1
    <3>6. n = IF 5 < length THEN length ELSE 5
      BY <3>2, <3>3, <3>4, <3>5, Zenon DEF CodedSizeLength
    <3>. HIDE DEF n
    <3>7. IsCoded(5, size, length, n)
      BY <2>5, <3>1, <3>6 DEF IsCoded
    <3>. QED
      BY <3>7
  <2>. HIDE DEF n
  <2>6. /\ size < AllOnes[1] \/ size >= AllOnes[2 - 1]
        /\ size < AllOnes[2] \/ size >= AllOnes[3 - 1]
        /\ size < AllOnes[3] \/ size >= AllOnes[4 - 1]
        /\ size < AllOnes[4] \/ size >= AllOnes[5 - 1]
    <3>1. /\ size < AllOnes[1] \/ size >= AllOnes[1]
          /\ size < AllOnes[2] \/ size >= AllOnes[2]
          /\ size < AllOnes[3] \/ size >= AllOnes[3]
          /\ size < AllOnes[4] \/ size >= AllOnes[4]
      <4>1. ASSUME NEW a \in Nat
            PROVE  size < a \/ size >= a
        BY <1>1
      <4>. QED
        BY <1>2, <4>1
    <3>2. 2 - 1 = 1 /\ 3 - 1 = 2 /\ 4 - 1 = 3 /\ 5 - 1 = 4
      OBVIOUS
    <3>. QED
      BY <3>1, <3>2
  <2>. QED
    BY <2>1, <2>2, <2>3, <2>4, <2>5, <2>6
<1>. HIDE DEF n
<1>5. CASE length > 5
  <2>1. n = length
    BY <1>1, <1>4, <1>5 DEF IsCoded
  <2>2. length \in 1 .. SizeMax /\ size < AllOnes[length]
    BY <1>1, <1>5 DEF LongestWritten
  <2>. QED
    BY <2>1, <2>2 DEF n
<1>6. CASE length <= 5 /\ SizeMax >= 5
  <2>1. size < AllOnes[5]
    BY <1>1, <1>6 DEF LongestWritten
  <2>2. size < AllOnes[c] /\ n \in 1 .. 5 /\ c <= n
    BY <1>1, <1>4, <1>6, <2>1 DEF IsCoded
  <2>3. AllOnes[c] <= AllOnes[n] /\ AllOnes[c] \in Nat /\ AllOnes[n] \in Nat
    BY <1>3, <2>2, AllOnesGrow
  <2>4. n \in 1 .. SizeMax /\ size < AllOnes[n]
    BY <1>1, <1>6, <2>2, <2>3
  <2>. QED
    BY <2>4 DEF n
<1>7. CASE length <= 5 /\ SizeMax < 5
  <2>1. size < AllOnes[SizeMax]
    BY <1>1, <1>7 DEF LongestWritten
  <2>2. c <= SizeMax
    <3>1. SizeMax \in 1 .. 5
      BY <1>1, <1>7
    <3>2. c > SizeMax => size >= AllOnes[SizeMax]
      BY <1>4, <3>1 DEF IsCoded
    <3>3. AllOnes[SizeMax] \in Nat
      BY <3>1, AllOnesGrow
    <3>. QED
      BY <1>1, <2>1, <3>1, <3>2, <3>3
  <2>3. size < AllOnes[c] /\ n \in 1 .. 5 /\ c <= n /\ n <= SizeMax
    BY <1>1, <1>4, <1>7, <2>1, <2>2 DEF IsCoded
  <2>4. AllOnes[c] <= AllOnes[n] /\ AllOnes[c] \in Nat /\ AllOnes[n] \in Nat
    BY <1>3, <2>3, AllOnesGrow
  <2>5. n \in 1 .. SizeMax /\ size < AllOnes[n]
    BY <1>1, <2>3, <2>4
  <2>. QED
    BY <2>5 DEF n
<1>8. length > 5 \/ (length <= 5 /\ SizeMax >= 5) \/ (length <= 5 /\ SizeMax < 5)
  BY <1>1
<1>. QED
  BY <1>5, <1>6, <1>7, <1>8

-----------------------------------------------------------------------------
(* The octets from SizeIdx on in the window are those of a coded size.     *)
LEMMA SizeOctetsType ==
  ASSUME TypeOK, WindowIsStream, pc \in {"size", "created"}
  PROVE  /\ SizeOctets \in Seq(Octet)
         /\ Len(SizeOctets) = PossibleSizeLength
         /\ SizeLength \in 0 .. SizeMax /\ SizeLength <= PossibleSizeLength
<1>1. \A k \in 0 .. SizeIdx - 1 : PossibleIdNSize[k] \in Octet
  BY StreamAssumption DEF TypeOK, WindowIsStream, Window
<1>2. SizeOctets \in [1 .. PossibleSizeLength -> Octet]
  BY <1>1, MaskFacts DEF SizeOctets, Octets, TypeOK, WindowIsStream
<1>3. SizeOctets \in Seq(Octet) /\ Len(SizeOctets) = PossibleSizeLength
  BY <1>2 DEF TypeOK
<1>. QED
  BY <1>3, CodedLengthType DEF SizeLength

(* The ID found in the window is no longer than the window or an ID.       *)
LEMMA FoundIdLengthType ==
  ASSUME TypeOK
  PROVE  FoundIdLength \in 0 .. IdMax /\ FoundIdLength <= ReadIndex
<1>1. CASE ReadIndex = 0
  BY <1>1, MaskFacts DEF FoundIdLength
<1>2. CASE ReadIndex > 0 /\ ReadIndex < IdMax
  BY <1>2, MarkedLengthType, MaskFacts DEF FoundIdLength, TypeOK
<1>3. CASE ReadIndex > 0 /\ ReadIndex >= IdMax
  BY <1>3, MarkedLengthType, MaskFacts DEF FoundIdLength, TypeOK
<1>. QED
  BY <1>1, <1>2, <1>3, MaskFacts DEF TypeOK

(* Whatever the context says of an ID, the level is an integer.            *)
LEMMA CandidateType ==
  ASSUME NEW id \in Seq(Octet), NEW coded \in Seq(Octet), NEW start \in Nat,
         NEW allow \in BOOLEAN
  PROVE  Candidate(id, coded, start, allow) \in Candidates
<1> DEFINE c == CreateElementUsingContext(id, IsUnknown(coded), allow)
<1>1. Len(Path) \in Nat /\ Len(Path) > 0
  BY PathAssumption
<1>2. c.found \in BOOLEAN /\ c.dummy \in BOOLEAN /\ c.level \in Int
  <2> DEFINE i == NearestLevel(id)
             allowed == IsUnknown(coded) => id \in CanHaveInfiniteSize
             global == /\ ~ Path[1].isGlobal /\ id \notin Path[1].children
                       /\ id \in GlobalIds /\ allowed
             known == \E j \in 1 .. Len(Path) : Knows(j, id) /\ i = j
  <2>1. CASE global
    <3>1. c = [found |-> TRUE, dummy |-> FALSE, level |-> -1]
      BY <2>1 DEF CreateElementUsingContext
    <3>. QED
      BY <3>1
  <2>2. CASE ~ global /\ known
    <3>1. i \in Int
      BY <2>2, <1>1
    <3>2. c = [found |-> allowed, dummy |-> FALSE,
               level |-> IF allowed /\ id \notin Path[i].children
                         THEN i ELSE i - 1]
      BY <2>2 DEF CreateElementUsingContext
    <3>. HIDE DEF i
    <3>. QED
      BY <3>1, <3>2
  <2>3. CASE ~ global /\ ~ known
    BY <2>3, <1>1 DEF CreateElementUsingContext
  <2>. QED
    BY <2>1, <2>2, <2>3
<1>3. Len(id) \in Nat
  OBVIOUS
<1>. QED
  BY <1>2, <1>3 DEF Candidate, Candidates

(* A read appends to the window the octet it appends to the stream.        *)
LEMMA ReadOctetExtends ==
  ASSUME NEW buf \in [Cell -> Octet \cup {Uninitialised}],
         NEW n \in Cell, NEW start \in Nat,
         data \in Seq(Alphabet), pos \in Nat, ReadSize \in Nat,
         start + n = Len(data),
         \A k \in 0 .. n - 1 : buf[k] = data[start + k + 1],
         ReadOctet(buf, n)
  PROVE  /\ data' \in Seq(Alphabet) /\ Len(data') = Len(data) + 1
         /\ pos' = pos + 1 /\ ReadSize' = ReadSize + 1
         /\ PossibleIdNSize' \in [Cell -> Octet \cup {Uninitialised}]
         /\ \A k \in 0 .. n : PossibleIdNSize'[k] = data'[start + k + 1]
<1>1. PICK o \in Alphabet : /\ data' = Append(data, o)
                           /\ PossibleIdNSize' = [buf EXCEPT ![n] = o]
  BY DEF ReadOctet
<1>2. data' \in Seq(Alphabet) /\ Len(data') = Len(data) + 1
  BY <1>1
<1>3. PossibleIdNSize' \in [Cell -> Octet \cup {Uninitialised}]
  BY <1>1, StreamAssumption
<1>4. n \in Nat /\ Cell = 0 .. BufLen - 1 /\ BufLen \in Nat
  BY BufLenAssumption DEF Cell
<1>5. ASSUME NEW k \in 0 .. n
      PROVE  PossibleIdNSize'[k] = data'[start + k + 1]
  <2>1. CASE k = n
    BY <2>1, <1>1, <1>4
  <2>2. CASE k < n
    <3>1. k \in Cell /\ k \in 0 .. n - 1 /\ start + k + 1 \in 1 .. Len(data)
      BY <2>2, <1>4
    <3>2. PossibleIdNSize'[k] = buf[k]
      BY <3>1, <2>2, <1>1
    <3>3. data'[start + k + 1] = data[start + k + 1]
      BY <3>1, <1>1
    <3>. QED
      BY <3>1, <3>2, <3>3
  <2>. QED
    BY <2>1, <2>2, <1>4
<1>. QED
  BY <1>2, <1>3, <1>5 DEF ReadOctet

-----------------------------------------------------------------------------
Inv == TypeOK /\ WindowIsStream

(* The types and the window hold at the call.                              *)
LEMMA InitInv == Init => Inv
BY MaskFacts DEF Init, Called, Inv, TypeOK, WindowIsStream, Window, parameters,
   UpperLevel_original

(* Splitting the window between the ID and the size keeps it.              *)
LEMMA IdFoundInv == Inv /\ IdFound => Inv'
<1> SUFFICES ASSUME Inv, IdFound PROVE Inv'
  OBVIOUS
<1> USE DEF Inv
<1>1. FoundIdLength \in 1 .. IdMax /\ FoundIdLength <= ReadIndex
  BY FoundIdLengthType, MaskFacts DEF IdFound
<1>2. TypeOK'
  BY <1>1, MaskFacts DEF IdFound, TypeOK, parameters
<1>3. WindowIsStream'
  BY <1>1, MaskFacts DEF IdFound, TypeOK, WindowIsStream, Window
<1>. QED
  BY <1>2, <1>3

(* An octet read for the ID, after the first one was dropped or not.       *)
LEMMA IdReadInv == Inv /\ IdRead => Inv'
<1> SUFFICES ASSUME Inv, IdRead PROVE Inv'
  OBVIOUS
<1> USE DEF Inv
<1> DEFINE buf == IF DropsFirst THEN ShiftLeft(KeptOctets) ELSE PossibleIdNSize
<1>1. KeptOctets \in 0 .. IdMax + SizeMax - 2 /\ KeptOctets \in Cell
  BY MaskFacts DEF TypeOK, KeptOctets, Cell
<1>2. buf \in [Cell -> Octet \cup {Uninitialised}]
  BY <1>1, MaskFacts DEF TypeOK, ShiftLeft, Cell
<1>3. /\ IdStart' \in Nat /\ IdStart' + KeptOctets = ReadSize
      /\ Len(data) = ReadSize /\ pos = ReadSize
  BY MaskFacts DEF IdRead, TypeOK, WindowIsStream, Window, DropsFirst, KeptOctets
<1>4. \A k \in 0 .. KeptOctets - 1 : buf[k] = data[IdStart' + k + 1]
  <2>1. CASE DropsFirst
    BY <2>1, <1>1, MaskFacts
    DEF IdRead, TypeOK, WindowIsStream, Window, DropsFirst, KeptOctets,
        ShiftLeft, Cell
  <2>2. CASE ~ DropsFirst
    BY <2>2, <1>1, MaskFacts
    DEF IdRead, TypeOK, WindowIsStream, Window, DropsFirst, KeptOctets
  <2>. QED
    BY <2>1, <2>2
<1>5. /\ data' \in Seq(Alphabet) /\ Len(data') = Len(data) + 1
      /\ pos' = pos + 1 /\ ReadSize' = ReadSize + 1
      /\ PossibleIdNSize' \in [Cell -> Octet \cup {Uninitialised}]
      /\ \A k \in 0 .. KeptOctets :
           PossibleIdNSize'[k] = data'[IdStart' + k + 1]
  <2>. HIDE DEF buf
  <2>1. ReadOctet(buf, KeptOctets)
    BY DEF IdRead, buf
  <2>2. data \in Seq(Alphabet) /\ pos \in Nat /\ ReadSize \in Nat
    BY DEF TypeOK
  <2>3. IdStart' + KeptOctets = Len(data)
    BY <1>3
  <2>. QED
    BY ONLY <2>1, <2>2, <2>3, <1>1, <1>2, <1>3, <1>4, ReadOctetExtends
<1>6. TypeOK'
  BY <1>1, <1>3, <1>5, MaskFacts DEF IdRead, TypeOK, parameters
<1>7. WindowIsStream'
  BY <1>1, <1>3, <1>5 DEF IdRead, TypeOK, WindowIsStream, Window
<1>. QED
  BY <1>6, <1>7

(* An octet read for the size.                                             *)
LEMMA SizeReadInv == Inv /\ SizeRead => Inv'
<1> SUFFICES ASSUME Inv, SizeRead PROVE Inv'
  OBVIOUS
<1> USE DEF Inv
<1>1. SizeIdx < IdMax + SizeMax /\ SizeIdx \in Cell
  BY MaskFacts
  DEF SizeRead, SizeIncomplete, TypeOK, WindowIsStream, Cell
<1>2. /\ IdStart + SizeIdx = ReadSize
      /\ Len(data) = ReadSize /\ pos = ReadSize
      /\ \A k \in 0 .. SizeIdx - 1 : PossibleIdNSize[k] = data[IdStart + k + 1]
  BY DEF SizeRead, WindowIsStream, Window
<1>3. /\ data' \in Seq(Alphabet) /\ Len(data') = Len(data) + 1
      /\ pos' = pos + 1 /\ ReadSize' = ReadSize + 1
      /\ PossibleIdNSize' \in [Cell -> Octet \cup {Uninitialised}]
      /\ \A k \in 0 .. SizeIdx :
           PossibleIdNSize'[k] = data'[IdStart + k + 1]
  <2>1. ReadOctet(PossibleIdNSize, SizeIdx)
    BY DEF SizeRead
  <2>2. /\ data \in Seq(Alphabet) /\ pos \in Nat /\ ReadSize \in Nat
        /\ IdStart \in Nat
        /\ PossibleIdNSize \in [Cell -> Octet \cup {Uninitialised}]
    BY DEF TypeOK
  <2>3. IdStart + SizeIdx = Len(data)
    BY <1>2
  <2>. QED
    BY ONLY <2>1, <2>2, <2>3, <1>1, <1>2, ReadOctetExtends
<1>4. TypeOK'
  BY <1>1, <1>3, MaskFacts DEF SizeRead, SizeIncomplete, TypeOK, parameters
<1>5. WindowIsStream'
  BY <1>1, <1>2, <1>3 DEF SizeRead, TypeOK, WindowIsStream, Window
<1>. QED
  BY <1>4, <1>5

(* The candidate is made of octets.                                        *)
LEMMA SizeFoundInv == Inv /\ SizeFound => Inv'
<1> SUFFICES ASSUME Inv, SizeFound PROVE Inv'
  OBVIOUS
<1> USE DEF Inv
<1> DEFINE id == Octets(PossibleIdNSize, 0, PossibleID_Length)
           coded == Octets(PossibleIdNSize, PossibleID_Length, SizeLength)
<1>1. \A k \in 0 .. SizeIdx - 1 : PossibleIdNSize[k] \in Octet
  BY StreamAssumption DEF SizeFound, TypeOK, WindowIsStream, Window
<1>2. id \in Seq(Octet)
  BY <1>1, MaskFacts DEF Octets, SizeFound, TypeOK, WindowIsStream
<1>3. coded \in Seq(Octet)
  <2>1. SizeLength \in 0 .. PossibleSizeLength
    BY SizeOctetsType, MaskFacts DEF SizeFound, TypeOK
  <2>2. coded \in [1 .. SizeLength -> Octet]
    BY <2>1, <1>1, MaskFacts DEF Octets, SizeFound, TypeOK, WindowIsStream
  <2>. QED
    BY <2>1, <2>2 DEF TypeOK
<1>4. Result' \in Candidates
  <2>. HIDE DEF id, coded
  <2>. QED
    BY <1>2, <1>3, CandidateType DEF SizeFound, TypeOK, id, coded
<1>5. TypeOK'
  BY <1>4 DEF SizeFound, TypeOK, parameters, locals, Candidates
<1>6. WindowIsStream'
  BY DEF SizeFound, TypeOK, WindowIsStream, Window, locals
<1>. QED
  BY <1>5, <1>6

(* One octet is given up and the others are where the scan expects them.   *)
LEMMA RejectInv == Inv /\ Reject => Inv'
<1> SUFFICES ASSUME Inv, Reject PROVE Inv'
  OBVIOUS
<1> USE DEF Inv
<1>1. pc \in {"size", "created"}
  BY DEF Reject, Refused
<1>2. SizeIdx \in 1 .. IdMax + SizeMax /\ Recovered = SizeIdx - 1
  BY <1>1, MaskFacts DEF TypeOK, WindowIsStream, Recovered
<1>3. ShiftLeft(Recovered) \in [Cell -> Octet \cup {Uninitialised}]
  BY <1>2, MaskFacts DEF TypeOK, ShiftLeft, Cell
<1>4. TypeOK'
  BY <1>2, <1>3, MaskFacts
  DEF Reject, TypeOK, parameters, RestoredLevel, UpperLevel_original
<1>5. \A k \in 0 .. Recovered - 1 :
        PossibleIdNSize'[k] = data[IdStart' + k + 1]
  <2>1. /\ \A k \in 0 .. SizeIdx - 1 : PossibleIdNSize[k] = data[IdStart + k + 1]
        /\ IdStart \in Nat /\ IdStart' = IdStart + 1
    BY <1>1 DEF Reject, TypeOK, WindowIsStream, Window
  <2>2. \A k \in 0 .. Recovered - 1 : PossibleIdNSize'[k] = PossibleIdNSize[k + 1]
    BY <1>2, MaskFacts DEF Reject, ShiftLeft, Cell
  <2>. QED
    BY <1>2, <2>1, <2>2, MaskFacts
<1>6. WindowIsStream'
  BY <1>1, <1>2, <1>5 DEF Reject, TypeOK, WindowIsStream, Window
<1>. QED
  BY <1>4, <1>6

(* A return drops the window, so only the types are left to preserve.      *)
LEMMA ReturnInv ==
  Inv /\ (IdNotFound \/ SizeEndOfStream \/ Accept) => Inv'
<1> SUFFICES ASSUME Inv, IdNotFound \/ SizeEndOfStream \/ Accept PROVE Inv'
  OBVIOUS
<1> USE DEF Inv
<1>1. CASE IdNotFound \/ SizeEndOfStream
  BY <1>1 DEF IdNotFound, SizeEndOfStream, ReturnNull, TypeOK, WindowIsStream,
              parameters, locals
<1>2. CASE Accept
  <2>1. Result \in Candidates
    BY <1>2 DEF Accept, Accepted, TypeOK, NoElement
  <2>2. DataStart(Result) \in Nat
    BY <2>1 DEF DataStart, Candidates
  <2>. QED
    BY <1>2, <2>2 DEF Accept, TypeOK, WindowIsStream, parameters, locals
<1>. QED
  BY <1>1, <1>2

(* Every step keeps the types and the window.                              *)
LEMMA NextInv == Inv /\ [Next]_vars => Inv'
<1> SUFFICES ASSUME Inv, [Next]_vars PROVE Inv'
  OBVIOUS
<1>1. CASE UNCHANGED vars
  BY <1>1 DEF Inv, vars, parameters, locals, TypeOK, WindowIsStream, Window
<1>. QED
  BY <1>1, IdFoundInv, IdReadInv, SizeReadInv, SizeFoundInv, RejectInv,
     ReturnInv DEF Next

(* Every index of the scan stays inside the window, whatever the stream,   *)
(* the context and the limit: the assertion of line 245 cannot fail.       *)
THEOREM TypeCorrect == Spec => []TypeOK
<1>1. Inv => TypeOK
  BY DEF Inv
<1>. QED
  BY <1>1, InitInv, NextInv, PTL DEF Spec

(* The window always holds the stream it stands for: no octet is lost,     *)
(* repeated or moved by the shifts, and no unwritten cell is read.         *)
THEOREM WindowCorrect == Spec => []WindowIsStream
<1>1. Inv => WindowIsStream
  BY DEF Inv
<1>. QED
  BY <1>1, InitInv, NextInv, PTL DEF Spec

-----------------------------------------------------------------------------
(***************************************************************************)
(* What the scan returns.  A position is settled when the octets read      *)
(* decide whether an element starts there: no later octet can change that. *)
(***************************************************************************)
Settled(d, p) ==
  /\ p < Len(d)
  /\ \/ MarkedLength(d[p + 1], IdMax) = 0
     \/ LET n == MarkedLength(d[p + 1], IdMax)
            s == MarkedLength(d[p + n + 1], SizeMax)
        IN  p + n < Len(d) /\ p + n + s <= Len(d)

(* Every position given up holds no element, and either never will or the  *)
(* limit is reached, so that nothing more is read.                         *)
Scanned ==
  pc # "done" => \A p \in 0 .. IdStart - 1 :
    ~ ElementAt(data, p) /\ (Settled(data, p) \/ Len(data) >= MaxDataSize)

(* The candidate is what the stream holds at IdStart.                      *)
CandidateOfStream ==
  /\ pc \in {"size", "created"} =>
       PossibleID_Length = MarkedLength(data[IdStart + 1], IdMax)
  /\ pc = "created" =>
       /\ SizeLength > 0
       /\ Result = Candidate(Octets(data, IdStart + 1, PossibleID_Length),
                             Octets(data, IdStart + PossibleID_Length + 1,
                                    SizeLength),
                             IdStart, AllowDummyElt)
       /\ UpperLevel = Result.level
  /\ pc \in {"id", "size"} => UpperLevel = UpperLevel_original

Returns == FirstElementFound /\ NothingMissed /\ LevelOfResult

ScanInv == Inv /\ WithinMaxDataSize /\ Scanned /\ CandidateOfStream /\ Returns

(* A first octet announces one length at most.                             *)
LEMMA MarkedUnique ==
  ASSUME NEW o \in Octet, NEW m \in 1 .. SizeMax, NEW n \in 1 .. SizeMax,
         Marked(o, m), Marked(o, n)
  PROVE  m = n
<1>1. \A i, j \in 1 .. SizeMax : i < j => Mask[i] >= 2 * Mask[j]
  BY MaskAssumption DEF SizeMax
<1>2. o \in Int /\ Mask[m] \in Int /\ Mask[n] \in Int
  BY MaskFacts, MaskAssumption DEF Octet, Radix
<1>3. ~ m < n
  BY <1>1, <1>2 DEF Marked
<1>4. ~ n < m
  BY <1>1, <1>2 DEF Marked
<1>. QED
  BY <1>3, <1>4, MaskFacts

(* An ID seen with few octets read is the one seen with more of them.      *)
LEMMA MarkedLengthMore ==
  ASSUME NEW o \in Octet, NEW l \in 1 .. SizeMax, NEW m \in 1 .. l,
         MarkedLength(o, m) > 0
  PROVE  MarkedLength(o, l) = MarkedLength(o, m)
<1> DEFINE n == MarkedLength(o, m)
<1>1. n \in 1 .. m /\ Marked(o, n)
  BY MaskFacts DEF MarkedLength
<1>2. n \in 1 .. l
  BY <1>1, MaskFacts
<1>3. MarkedLength(o, l) \in 1 .. l /\ Marked(o, MarkedLength(o, l))
  BY <1>1, <1>2 DEF MarkedLength
<1>4. n \in 1 .. SizeMax /\ MarkedLength(o, l) \in 1 .. SizeMax
  BY <1>2, <1>3, MaskFacts
<1>. QED
  BY <1>1, <1>3, <1>4, MarkedUnique

(* What is settled is not changed by reading on.                           *)
LEMMA SettledForGood ==
  ASSUME NEW d \in Seq(Octet), NEW o \in Octet, NEW p \in Nat,
         Settled(d, p), ~ ElementAt(d, p)
  PROVE  Settled(Append(d, o), p) /\ ~ ElementAt(Append(d, o), p)
<1> DEFINE e == Append(d, o)
           n == MarkedLength(d[p + 1], IdMax)
           s == MarkedLength(d[p + n + 1], SizeMax)
<1>1. /\ Len(d) \in Nat /\ Len(e) = Len(d) + 1
      /\ \A i \in 1 .. Len(d) : e[i] = d[i]
  OBVIOUS
<1>2. n \in 0 .. IdMax /\ s \in 0 .. SizeMax
  BY MarkedLengthType, MaskFacts
<1>3. e[p + 1] = d[p + 1]
  BY <1>1 DEF Settled
<1>4. n > 0 => e[p + n + 1] = d[p + n + 1] /\ p + n + s <= Len(d)
  BY <1>1, <1>2, MaskFacts DEF Settled
<1>5. Settled(e, p)
  BY <1>1, <1>2, <1>3, <1>4, MaskFacts DEF Settled
<1>6. ASSUME ElementAt(e, p) PROVE FALSE
  <2>1. PICK i \in 1 .. IdMax, j \in 1 .. SizeMax :
          /\ p + i + j <= Len(e)
          /\ i = MarkedLength(e[p + 1], IdMax)
          /\ j = MarkedLength(e[p + i + 1], SizeMax)
          /\ Accepted(Candidate(Octets(e, p + 1, i), Octets(e, p + i + 1, j), p,
                                AllowDummyElt),
                      MaxDataSize, AllowDummyElt)
    BY <1>6 DEF ElementAt
  <2>2. i = n
    <3>. HIDE DEF e
    <3>. QED
      BY <2>1, <1>3
  <2>3. j = s /\ p + n + s <= Len(d)
    <3>1. e[p + n + 1] = d[p + n + 1] /\ p + n + s <= Len(d)
      <4>1. n > 0
        <5>. HIDE DEF n
        <5>. QED
          BY <2>2, MaskFacts
      <4>. HIDE DEF e, n, s
      <4>. QED
        BY <4>1, <1>4
    <3>2. j = MarkedLength(e[p + n + 1], SizeMax)
      <4>. HIDE DEF e, n
      <4>. QED
        BY <2>1, <2>2
    <3>. HIDE DEF e, n
    <3>. QED
      BY <3>1, <3>2
  <2>4. \A k \in 1 .. n : e[p + 1 + k - 1] = d[p + 1 + k - 1]
    <3>. HIDE DEF e, n, s
    <3>. QED
      BY <1>1, <1>2, <2>3, MaskFacts
  <2>5. \A k \in 1 .. s : e[p + n + 1 + k - 1] = d[p + n + 1 + k - 1]
    <3>. HIDE DEF e, n, s
    <3>. QED
      BY <1>1, <1>2, <2>3, MaskFacts
  <2>. HIDE DEF e, n, s
  <2>6. /\ Octets(e, p + 1, n) = Octets(d, p + 1, n)
        /\ Octets(e, p + n + 1, s) = Octets(d, p + n + 1, s)
    BY <2>4, <2>5 DEF Octets
  <2>7. Accepted(Candidate(Octets(d, p + 1, n), Octets(d, p + n + 1, s), p,
                           AllowDummyElt),
                 MaxDataSize, AllowDummyElt)
    BY <2>1, <2>2, <2>3, <2>6
  <2>. QED
    BY <2>1, <2>2, <2>3, <2>7 DEF ElementAt, n, s
<1>. QED
  BY <1>5, <1>6

(* In the window, the ID and the size read are those of the stream.        *)
LEMMA WindowSize ==
  ASSUME Inv, pc \in {"size", "created"}, NEW s,
         s = MarkedLength(data[IdStart + PossibleID_Length + 1], SizeMax)
  PROVE  /\ s \in 0 .. SizeMax
         /\ IdStart + PossibleID_Length + PossibleSizeLength = Len(data)
         /\ PossibleSizeLength > 0 /\ s <= PossibleSizeLength => SizeLength = s
         /\ SizeLength > 0 => s = SizeLength
         /\ SizeLength <= PossibleSizeLength
<1> USE DEF Inv
<1>1. /\ SizeOctets \in Seq(Octet) /\ Len(SizeOctets) = PossibleSizeLength
      /\ SizeLength \in 0 .. SizeMax /\ SizeLength <= PossibleSizeLength
  BY SizeOctetsType
<1>2. s \in 0 .. SizeMax
  BY MarkedLengthType, MaskFacts
<1>3. /\ IdStart + PossibleID_Length + PossibleSizeLength = Len(data)
      /\ PossibleSizeLength \in Nat /\ PossibleID_Length \in Nat
  BY MaskFacts DEF TypeOK, WindowIsStream, Window
<1>4. PossibleSizeLength > 0 =>
        Head(SizeOctets) = data[IdStart + PossibleID_Length + 1]
  BY <1>1, <1>3 DEF TypeOK, WindowIsStream, Window, SizeOctets, Octets
<1>5. PossibleSizeLength > 0 =>
        SizeLength = IF s <= PossibleSizeLength THEN s ELSE 0
  BY <1>1, <1>2, <1>4 DEF SizeLength, CodedLength
<1>6. PossibleSizeLength = 0 => SizeLength = 0
  BY <1>1, MaskFacts
<1>. QED
  BY <1>1, <1>2, <1>3, <1>5, <1>6

(* A read settles nothing anew and unsettles nothing.                      *)
LEMMA ReadKeepsScanned ==
  ASSUME NEW d \in Seq(Octet), NEW o \in Octet, NEW i \in Nat,
         \A p \in 0 .. i - 1 : ~ ElementAt(d, p) /\ Settled(d, p)
  PROVE  \A p \in 0 .. i - 1 :
           ~ ElementAt(Append(d, o), p) /\ Settled(Append(d, o), p)
BY SettledForGood

(* At the call nothing was scanned yet.                                    *)
LEMMA ScanInitInv == Init => ScanInv
<1> SUFFICES ASSUME Init PROVE ScanInv
  OBVIOUS
<1>1. Inv
  BY InitInv
<1>2. WithinMaxDataSize
  BY StreamAssumption DEF Init, Called, WithinMaxDataSize
<1>. QED
  BY <1>1, <1>2
  DEF Init, Called, ScanInv, Scanned, CandidateOfStream, Returns, FirstElementFound,
      NothingMissed, LevelOfResult, Found, NotFound

(* Nothing is said of a result before the return.                          *)
LEMMA NotReturned == pc # "done" => Returns
BY DEF Returns, FirstElementFound, NothingMissed, LevelOfResult, Found, NotFound

(* The parameters do not change, so nor does what an element is.           *)
LEMMA IdFoundScan == ScanInv /\ IdFound => ScanInv'
<1> SUFFICES ASSUME ScanInv, IdFound PROVE ScanInv'
  OBVIOUS
<1> USE DEF ScanInv
<1>1. Inv'
  BY IdFoundInv
<1>2. WithinMaxDataSize'
  BY DEF IdFound, WithinMaxDataSize, parameters
<1>3. Scanned'
  BY DEF IdFound, Scanned, ElementAt, parameters
<1>4. PossibleID_Length' = MarkedLength(data[IdStart + 1], IdMax)
  <2> DEFINE o == PossibleIdNSize[0]
             m == IF ReadIndex < IdMax THEN ReadIndex ELSE IdMax
  <2>1. FoundIdLength \in 1 .. IdMax /\ ReadIndex > 0
    BY FoundIdLengthType, MaskFacts DEF IdFound, Inv, TypeOK
  <2>2. o = data[IdStart + 1] /\ o \in Octet
    BY <2>1, StreamAssumption DEF IdFound, Inv, TypeOK, WindowIsStream, Window
  <2>3. m \in 1 .. IdMax /\ FoundIdLength = MarkedLength(o, m)
    BY <2>1, MaskFacts DEF Inv, TypeOK, FoundIdLength
  <2>. HIDE DEF o, m
  <2>. QED
    BY <2>1, <2>2, <2>3, MarkedLengthMore, MaskFacts DEF IdFound
<1>5. CandidateOfStream'
  BY <1>4 DEF IdFound, CandidateOfStream, parameters, UpperLevel_original
<1>6. Returns'
  BY NotReturned DEF IdFound, Returns, FirstElementFound, NothingMissed,
                     LevelOfResult, Found, NotFound
<1>. QED
  BY <1>1, <1>2, <1>3, <1>5, <1>6

(* No element starts at the octet that an octet read for the ID drops.     *)
LEMMA IdReadScan == ScanInv /\ IdRead => ScanInv'
<1> SUFFICES ASSUME ScanInv, IdRead PROVE ScanInv'
  OBVIOUS
<1> USE DEF ScanInv
<1>1. Inv'
  BY IdReadInv
<1>2. PICK o \in Alphabet : data' = Append(data, o)
  BY DEF IdRead, ReadOctet
<1>3. /\ Len(data) = ReadSize /\ ReadSize < MaxDataSize /\ ReadSize \in Nat
      /\ MaxDataSize \in Nat /\ data \in Seq(Octet) /\ o \in Octet
  BY StreamAssumption
  DEF IdRead, MayRead, Inv, TypeOK, WindowIsStream
<1>4. WithinMaxDataSize'
  BY <1>2, <1>3 DEF IdRead, WithinMaxDataSize, parameters
<1>5. \A p \in 0 .. IdStart' - 1 : ~ ElementAt(data, p) /\ Settled(data, p)
  <2>1. \A p \in 0 .. IdStart - 1 : ~ ElementAt(data, p) /\ Settled(data, p)
    BY <1>3 DEF Scanned, IdRead
  <2>2. CASE ~ DropsFirst
    BY <2>1, <2>2 DEF IdRead
  <2>3. CASE DropsFirst
    <3>1. ReadIndex >= IdMax /\ ReadIndex > 0
      BY <2>3, MaskFacts DEF DropsFirst, KeptOctets, Inv, TypeOK
    <3>2. PossibleIdNSize[0] = data[IdStart + 1] /\ IdStart < Len(data)
      BY <3>1 DEF IdRead, Inv, TypeOK, WindowIsStream, Window
    <3>3. MarkedLength(data[IdStart + 1], IdMax) = 0
      <4>1. FoundIdLength = MarkedLength(PossibleIdNSize[0], IdMax)
        BY <3>1, MaskFacts DEF FoundIdLength, Inv, TypeOK
      <4>. QED
        BY <4>1, <3>2 DEF IdRead
    <3>4. ~ ElementAt(data, IdStart) /\ Settled(data, IdStart)
      BY <3>2, <3>3, MaskFacts DEF ElementAt, Settled
    <3>. QED
      BY <2>1, <2>3, <3>4 DEF IdRead, Inv, TypeOK
  <2>. QED
    BY <2>2, <2>3
<1>6. IdStart' \in Nat
  BY <1>1 DEF Inv, TypeOK
<1>7. Scanned'
  <2>1. \A p \in 0 .. IdStart' - 1 :
          ~ ElementAt(data', p) /\ Settled(data', p)
    BY <1>2, <1>3, <1>5, <1>6, ReadKeepsScanned
  <2>. QED
    BY <2>1 DEF IdRead, Scanned, ElementAt, parameters
<1>8. CandidateOfStream'
  BY DEF IdRead, CandidateOfStream, UpperLevel_original
<1>9. Returns'
  BY NotReturned DEF IdRead, Returns, FirstElementFound, NothingMissed,
                     LevelOfResult, Found, NotFound
<1>. QED
  BY <1>1, <1>4, <1>7, <1>8, <1>9

(* An octet read for the size settles nothing that was scanned.            *)
LEMMA SizeReadScan == ScanInv /\ SizeRead => ScanInv'
<1> SUFFICES ASSUME ScanInv, SizeRead PROVE ScanInv'
  OBVIOUS
<1> USE DEF ScanInv
<1>1. Inv'
  BY SizeReadInv
<1>2. PICK o \in Alphabet : data' = Append(data, o)
  BY DEF SizeRead, ReadOctet
<1>3. /\ Len(data) = ReadSize /\ ReadSize < MaxDataSize /\ ReadSize \in Nat
      /\ MaxDataSize \in Nat /\ data \in Seq(Octet) /\ o \in Octet
      /\ IdStart \in Nat
  BY StreamAssumption
  DEF SizeRead, SizeIncomplete, MayRead, Inv, TypeOK, WindowIsStream
<1>4. WithinMaxDataSize'
  BY <1>2, <1>3 DEF SizeRead, WithinMaxDataSize, parameters
<1>5. \A p \in 0 .. IdStart - 1 : ~ ElementAt(data, p) /\ Settled(data, p)
  BY <1>3 DEF Scanned, SizeRead
<1>6. Scanned'
  <2>1. \A p \in 0 .. IdStart - 1 :
          ~ ElementAt(data', p) /\ Settled(data', p)
    BY <1>2, <1>3, <1>5, ReadKeepsScanned
  <2>. QED
    BY <2>1 DEF SizeRead, Scanned, ElementAt, parameters
<1>7. CandidateOfStream'
  <2>1. data'[IdStart + 1] = data[IdStart + 1]
    BY <1>2, <1>3, MaskFacts DEF SizeRead, Inv, TypeOK, WindowIsStream, Window
  <2>. QED
    BY <2>1 DEF SizeRead, CandidateOfStream, UpperLevel_original
<1>8. Returns'
  BY NotReturned DEF SizeRead, Returns, FirstElementFound, NothingMissed,
                     LevelOfResult, Found, NotFound
<1>. QED
  BY <1>1, <1>4, <1>6, <1>7, <1>8

(* The candidate is the one of the stream at IdStart.                      *)
LEMMA SizeFoundScan == ScanInv /\ SizeFound => ScanInv'
<1> SUFFICES ASSUME ScanInv, SizeFound PROVE ScanInv'
  OBVIOUS
<1> USE DEF ScanInv
<1>1. Inv'
  BY SizeFoundInv
<1>2. WithinMaxDataSize'
  BY DEF SizeFound, WithinMaxDataSize, parameters
<1>3. Scanned'
  BY DEF SizeFound, Scanned, ElementAt, parameters, locals
<1>4. CandidateOfStream'
  <2>1. /\ SizeLength \in Nat /\ SizeLength <= PossibleSizeLength
        /\ PossibleSizeLength \in Nat /\ PossibleID_Length \in Nat
        /\ SizeIdx = PossibleID_Length + PossibleSizeLength
        /\ IdStart \in Nat
    BY SizeOctetsType, MaskFacts DEF SizeFound, Inv, TypeOK, WindowIsStream
  <2>2. \A k \in 0 .. SizeIdx - 1 : PossibleIdNSize[k] = data[IdStart + k + 1]
    BY DEF SizeFound, Inv, WindowIsStream, Window
  <2>3. Octets(PossibleIdNSize, 0, PossibleID_Length)
          = Octets(data, IdStart + 1, PossibleID_Length)
    <3>1. \A k \in 1 .. PossibleID_Length :
            PossibleIdNSize[0 + k - 1] = data[IdStart + 1 + k - 1]
      BY <2>1, <2>2
    <3>. QED
      BY <3>1 DEF Octets
  <2>4. Octets(PossibleIdNSize, PossibleID_Length, SizeLength)
          = Octets(data, IdStart + PossibleID_Length + 1, SizeLength)
    <3>1. \A k \in 1 .. SizeLength :
            PossibleIdNSize[PossibleID_Length + k - 1]
              = data[IdStart + PossibleID_Length + 1 + k - 1]
      BY <2>1, <2>2
    <3>. QED
      BY <3>1 DEF Octets
  <2>5. SizeLength' = SizeLength
    BY DEF SizeFound, SizeLength, SizeOctets, locals
  <2>6. Result' = Candidate(Octets(data, IdStart + 1, PossibleID_Length),
                            Octets(data, IdStart + PossibleID_Length + 1,
                                   SizeLength),
                            IdStart, AllowDummyElt)
    BY <2>3, <2>4 DEF SizeFound
  <2>. QED
    BY <2>5, <2>6 DEF SizeFound, CandidateOfStream, parameters, locals
<1>5. Returns'
  BY NotReturned DEF SizeFound, Returns, FirstElementFound, NothingMissed,
                     LevelOfResult, Found, NotFound
<1>. QED
  BY <1>1, <1>2, <1>3, <1>4, <1>5

(* No acceptable element starts at the octet that is given up.             *)
LEMMA RejectScan == ScanInv /\ Reject => ScanInv'
<1> SUFFICES ASSUME ScanInv, Reject PROVE ScanInv'
  OBVIOUS
<1> USE DEF ScanInv
<1> DEFINE n == MarkedLength(data[IdStart + 1], IdMax)
           s == MarkedLength(data[IdStart + n + 1], SizeMax)
<1>1. Inv'
  BY RejectInv
<1>2. WithinMaxDataSize'
  BY DEF Reject, WithinMaxDataSize, parameters
<1>3. pc \in {"size", "created"} /\ pc # "done"
  BY DEF Reject, Refused
<1>4. /\ IdStart \in Nat /\ MaxDataSize \in Nat /\ ReadSize = Len(data)
      /\ Len(data) \in Nat /\ PossibleSizeLength \in Nat
      /\ PossibleID_Length \in 1 .. IdMax
      /\ ReadSize <= MaxDataSize
  BY <1>3, StreamAssumption, MaskFacts
  DEF Inv, TypeOK, WindowIsStream, WithinMaxDataSize
<1>5. n = PossibleID_Length
  BY <1>3 DEF CandidateOfStream
<1>6. /\ s \in 0 .. SizeMax
      /\ IdStart + n + PossibleSizeLength = Len(data)
      /\ PossibleSizeLength > 0 /\ s <= PossibleSizeLength => SizeLength = s
      /\ SizeLength > 0 => s = SizeLength
      /\ SizeLength <= PossibleSizeLength
  <2>. HIDE DEF n
  <2>. QED
    BY <1>3, <1>5, WindowSize
<1>7. ~ ElementAt(data, IdStart)
  <2> SUFFICES ASSUME ElementAt(data, IdStart) PROVE FALSE
    OBVIOUS
  <2>1. /\ s > 0 /\ IdStart + n + s <= Len(data)
        /\ Accepted(Candidate(Octets(data, IdStart + 1, n),
                              Octets(data, IdStart + n + 1, s), IdStart,
                              AllowDummyElt),
                    MaxDataSize, AllowDummyElt)
    BY DEF ElementAt
  <2>2. SizeLength = s
    <3>. HIDE DEF n, s
    <3>. QED
      BY <1>4, <1>5, <1>6, <2>1, MaskFacts
  <2>3. pc = "created" /\ ~ Accepted(Result, MaxDataSize, AllowDummyElt)
    <3>. HIDE DEF s
    <3>. QED
      BY <2>1, <2>2 DEF Reject, Refused
  <2>4. Result = Candidate(Octets(data, IdStart + 1, n),
                           Octets(data, IdStart + n + 1, s), IdStart,
                           AllowDummyElt)
    <3>. HIDE DEF n, s
    <3>. QED
      BY <2>2, <2>3, <1>5 DEF CandidateOfStream
  <2>. HIDE DEF n, s
  <2>. QED
    BY <2>1, <2>3, <2>4
<1>8. Settled(data, IdStart) \/ Len(data) >= MaxDataSize
  <2> SUFFICES ASSUME Len(data) < MaxDataSize
               PROVE  /\ IdStart + n < Len(data)
                      /\ IdStart + n + s <= Len(data)
    BY <1>4, <1>5 DEF Settled
  <2>. HIDE DEF n, s
  <2>1. SizeLength > 0 \/ PossibleSizeLength >= SizeMax
    <3>1. CASE pc = "created"
      BY <3>1 DEF CandidateOfStream
    <3>2. CASE pc = "size"
      <4>1. MayRead
        BY <1>4 DEF MayRead
      <4>. QED
        BY <3>2, <4>1, <1>4, MaskFacts DEF Reject, Refused, SizeIncomplete
    <3>. QED
      BY <1>3, <3>1, <3>2
  <2>. QED
    BY <2>1, <1>4, <1>5, <1>6, MaskFacts
<1>9. Scanned'
  <2>1. \A p \in 0 .. IdStart :
          ~ ElementAt(data, p) /\ (Settled(data, p) \/ Len(data) >= MaxDataSize)
    BY <1>3, <1>4, <1>7, <1>8 DEF Scanned
  <2>. QED
    BY <2>1, <1>4 DEF Reject, Scanned, ElementAt, parameters
<1>10. CandidateOfStream'
  BY <1>4 DEF Reject, CandidateOfStream, RestoredLevel, UpperLevel_original
<1>11. Returns'
  BY <1>4 DEF Reject, Returns, FirstElementFound, NothingMissed,
              LevelOfResult, Found, NotFound
<1>. QED
  BY <1>1, <1>2, <1>9, <1>10, <1>11

(* A candidate that was created is the one the stream holds at IdStart.    *)
LEMMA CreatedFacts ==
  ASSUME ScanInv, pc = "created"
  PROVE  /\ IdStart \in Nat /\ Len(data) \in Nat
         /\ PossibleID_Length \in 1 .. IdMax /\ SizeLength \in 1 .. SizeMax
         /\ PossibleID_Length = MarkedLength(data[IdStart + 1], IdMax)
         /\ SizeLength = MarkedLength(data[IdStart + PossibleID_Length + 1], SizeMax)
         /\ IdStart + PossibleID_Length + SizeLength <= Len(data)
         /\ Result = Candidate(Octets(data, IdStart + 1, PossibleID_Length),
                               Octets(data, IdStart + PossibleID_Length + 1,
                                      SizeLength),
                               IdStart, AllowDummyElt)
         /\ Result.ElementPosition = IdStart /\ UpperLevel = Result.level
<1> USE DEF ScanInv
<1> DEFINE n == PossibleID_Length
           s == SizeLength
<1>1. /\ IdStart \in Nat /\ n \in 1 .. IdMax
      /\ Len(data) \in Nat /\ PossibleSizeLength \in Nat
  BY MaskFacts DEF Inv, TypeOK, WindowIsStream
<1>2. /\ n = MarkedLength(data[IdStart + 1], IdMax) /\ s > 0
      /\ Result = Candidate(Octets(data, IdStart + 1, n),
                            Octets(data, IdStart + n + 1, s), IdStart,
                            AllowDummyElt)
      /\ UpperLevel = Result.level
  BY DEF CandidateOfStream
<1>3. /\ s = MarkedLength(data[IdStart + n + 1], SizeMax)
      /\ s \in 1 .. SizeMax /\ IdStart + n + s <= Len(data)
  <2>. DEFINE t == MarkedLength(data[IdStart + PossibleID_Length + 1], SizeMax)
  <2>1. /\ t \in 0 .. SizeMax
        /\ IdStart + PossibleID_Length + PossibleSizeLength = Len(data)
        /\ SizeLength > 0 => t = SizeLength
        /\ SizeLength <= PossibleSizeLength
    <3>1. pc \in {"size", "created"}
      OBVIOUS
    <3>. HIDE DEF t
    <3>2. t = MarkedLength(data[IdStart + PossibleID_Length + 1], SizeMax)
      BY DEF t
    <3>. QED
      BY <3>1, <3>2, WindowSize
  <2>. HIDE DEF t
  <2>2. t = s
    BY <2>1, <1>2
  <2>3. s = MarkedLength(data[IdStart + n + 1], SizeMax)
    BY <2>2 DEF t
  <2>4. SizeMax \in Nat
    BY MaskFacts
  <2>5. s \in 1 .. SizeMax
    <3>. HIDE DEF s
    <3>. QED  BY <2>1, <2>2, <2>4, <1>2
  <2>6. IdStart + n + s <= Len(data)
    BY <2>1, <2>2, <2>4, <1>1, <1>2
  <2>. QED
    BY <2>3, <2>5, <2>6
<1>4. Result.ElementPosition = IdStart
  BY <1>2 DEF Candidate
<1>. QED
  BY <1>1, <1>2, <1>3, <1>4

(* What is returned is acceptable, and nothing before it was.              *)
LEMMA AcceptScan == ScanInv /\ Accept => ScanInv'
<1> SUFFICES ASSUME ScanInv, Accept PROVE ScanInv'
  OBVIOUS
<1> USE DEF ScanInv
<1> DEFINE n == PossibleID_Length
           s == SizeLength
<1>1. Inv'
  BY ReturnInv
<1>2. WithinMaxDataSize'
  BY DEF Accept, WithinMaxDataSize, parameters
<1>3. Scanned' /\ CandidateOfStream'
  BY DEF Accept, Scanned, CandidateOfStream
<1>4. /\ IdStart \in Nat /\ n \in 1 .. IdMax /\ s \in 1 .. SizeMax
      /\ n = MarkedLength(data[IdStart + 1], IdMax)
      /\ s = MarkedLength(data[IdStart + n + 1], SizeMax)
      /\ IdStart + n + s <= Len(data)
      /\ Result = Candidate(Octets(data, IdStart + 1, n),
                            Octets(data, IdStart + n + 1, s), IdStart,
                            AllowDummyElt)
      /\ Result.ElementPosition = IdStart /\ UpperLevel = Result.level
  BY CreatedFacts DEF Accept
<1>5. Accepted(Result, MaxDataSize, AllowDummyElt) /\ Result.found
  BY DEF Accept, Accepted
<1>6. ElementAt(data, IdStart)
  <2>. HIDE DEF n, s
  <2>. QED
    BY <1>4, <1>5 DEF ElementAt
<1>7. FirstElementFound'
  <2>1. \A p \in 0 .. IdStart - 1 : ~ ElementAt(data, p)
    BY DEF Accept, Scanned
  <2>. QED
    <3>1. /\ Result' = Result /\ data' = data /\ MaxDataSize' = MaxDataSize
          /\ AllowDummyElt' = AllowDummyElt
      BY DEF Accept, parameters
    <3>2. \A p : ElementAt(data, p)' <=> ElementAt(data, p)
      BY <3>1 DEF ElementAt
    <3>3. Result.ElementPosition = IdStart
      BY <1>4
    <3>. QED
      BY <1>6, <2>1, <3>1, <3>2, <3>3 DEF FirstElementFound
<1>8. NothingMissed' /\ LevelOfResult'
  BY <1>4, <1>5 DEF Accept, NothingMissed, NotFound, LevelOfResult
<1>. QED
  BY <1>1, <1>2, <1>3, <1>7, <1>8 DEF Returns

(* When the scan gives up, the window is all that was not decided.         *)
LEMMA NullScan == ScanInv /\ (IdNotFound \/ SizeEndOfStream) => ScanInv'
<1> SUFFICES ASSUME ScanInv, IdNotFound \/ SizeEndOfStream PROVE ScanInv'
  OBVIOUS
<1> USE DEF ScanInv
<1>1. Inv'
  BY ReturnInv
<1>2. /\ pc' = "done" /\ Result' = NoElement /\ pc \in {"id", "size"}
      /\ UNCHANGED <<parameters, UpperLevel, data, pos, locals>>
  BY DEF IdNotFound, SizeEndOfStream, ReturnNull
<1>3. WithinMaxDataSize'
  BY <1>2 DEF WithinMaxDataSize, parameters
<1>4. Scanned' /\ CandidateOfStream'
  BY <1>2 DEF Scanned, CandidateOfStream
<1>5. NothingMissed'
  <2>1. Len(data) - (IdMax + SizeMax) <= IdStart - 1 \/ Window = IdMax + SizeMax
    BY <1>2, MaskFacts DEF Inv, TypeOK, WindowIsStream, Window
  <2>2. Window < IdMax + SizeMax
    BY <1>2, MaskFacts
    DEF Inv, TypeOK, WindowIsStream, Window, IdNotFound, SizeEndOfStream,
        SizeIncomplete
  <2>3. \A p \in 0 .. IdStart - 1 : ~ ElementAt(data, p)
    BY <1>2 DEF Scanned
  <2>4. \A p \in 0 .. Len(data) - (IdMax + SizeMax) : ~ ElementAt(data, p)
    BY <2>1, <2>2, <2>3, MaskFacts DEF Inv, TypeOK
  <2>. QED
    BY <2>4, <1>2 DEF NothingMissed, ElementAt, parameters
<1>6. FirstElementFound' /\ LevelOfResult'
  BY <1>2 DEF FirstElementFound, LevelOfResult, Found, NoElement,
              CandidateOfStream, UpperLevel_original
<1>. QED
  BY <1>1, <1>3, <1>4, <1>5, <1>6 DEF Returns

(* Every step keeps the account of what was scanned.                       *)
LEMMA ScanNextInv == ScanInv /\ [Next]_vars => ScanInv'
<1> SUFFICES ASSUME ScanInv, [Next]_vars PROVE ScanInv'
  OBVIOUS
<1>1. CASE UNCHANGED vars
  <2>1. Inv'
    BY <1>1, NextInv DEF ScanInv
  <2>. QED
    BY <1>1, <2>1
    DEF ScanInv, vars, parameters, locals, WithinMaxDataSize, Scanned,
        CandidateOfStream, Returns, FirstElementFound, NothingMissed,
        LevelOfResult, Found, NotFound, ElementAt, SizeLength, SizeOctets
<1>. QED
  BY <1>1, IdFoundScan, IdReadScan, SizeReadScan, SizeFoundScan, RejectScan,
     AcceptScan, NullScan DEF Next

(* No read goes beyond the limit of the caller.                            *)
THEOREM LimitRespected == Spec => []WithinMaxDataSize
<1>1. ScanInv => WithinMaxDataSize
  BY DEF ScanInv
<1>. QED
  BY <1>1, ScanInitInv, ScanNextInv, PTL DEF Spec

(* The element returned is the first acceptable one of the stream, however *)
(* many false candidates precede it.                                       *)
THEOREM FirstElementIsFound == Spec => []FirstElementFound
<1>1. ScanInv => FirstElementFound
  BY DEF ScanInv, Returns
<1>. QED
  BY <1>1, ScanInitInv, ScanNextInv, PTL DEF Spec

(* When the scan gives up, no acceptable element was read but possibly in  *)
(* the last IdMax + SizeMax - 1 octets.                                    *)
THEOREM NothingIsMissed == Spec => []NothingMissed
<1>1. ScanInv => NothingMissed
  BY DEF ScanInv, Returns
<1>. QED
  BY <1>1, ScanInitInv, ScanNextInv, PTL DEF Spec

(* The caller's level is the one of the element returned, or unchanged.    *)
THEOREM LevelIsOfResult == Spec => []LevelOfResult
<1>1. ScanInv => LevelOfResult
  BY DEF ScanInv, Returns
<1>. QED
  BY <1>1, ScanInitInv, ScanNextInv, PTL DEF Spec

-----------------------------------------------------------------------------
(***************************************************************************)
(* Where the scan leaves the caller.                                       *)
(***************************************************************************)
IsOfStream(r, d, p, n, s) ==
  /\ p \in Nat /\ n \in 1 .. IdMax /\ s \in 1 .. SizeMax /\ p + n + s <= Len(d)
  /\ n = MarkedLength(d[p + 1], IdMax)
  /\ s = MarkedLength(d[p + n + 1], SizeMax)
  /\ r = Candidate(Octets(d, p + 1, n), Octets(d, p + n + 1, s), p, AllowDummyElt)

(* What is returned was read from the stream, and the file is behind it.   *)
ResultOfStream ==
  Found => /\ \E n \in 1 .. IdMax, s \in 1 .. SizeMax :
                IsOfStream(Result, data, Result.ElementPosition, n, s)
           /\ Accepted(Result, MaxDataSize, AllowDummyElt)
           /\ pos = DataStart(Result)

(* Nothing is returned at the call.                                        *)
LEMMA ResultInit == Init => ResultOfStream
BY DEF Init, Called, ResultOfStream, Found

(* Only Accept returns an element, which SizeFound took from the stream.   *)
LEMMA ResultKept == ScanInv /\ ResultOfStream /\ [Next]_vars => ResultOfStream'
<1> SUFFICES ASSUME ScanInv, ResultOfStream, [Next]_vars PROVE ResultOfStream'
  OBVIOUS
<1>1. CASE UNCHANGED vars
  BY <1>1 DEF vars, parameters, ResultOfStream, Found, IsOfStream
<1>2. CASE Accept
  <2>1. IsOfStream(Result, data, Result.ElementPosition, PossibleID_Length,
                   SizeLength)
    BY <1>2, CreatedFacts DEF Accept, IsOfStream
  <2>2. PossibleID_Length \in 1 .. IdMax /\ SizeLength \in 1 .. SizeMax
    BY <2>1 DEF IsOfStream
  <2>3. /\ \E n \in 1 .. IdMax, s \in 1 .. SizeMax :
             IsOfStream(Result, data, Result.ElementPosition, n, s)
        /\ Accepted(Result, MaxDataSize, AllowDummyElt)
        /\ pos' = DataStart(Result)
        /\ UNCHANGED <<parameters, data, Result>>
    BY <1>2, <2>1, <2>2 DEF Accept
  <2>. QED
    BY <2>3 DEF ResultOfStream, IsOfStream, parameters
<1>3. CASE IdNotFound \/ SizeEndOfStream \/ Reject
  <2>1. Result' = NoElement
    BY <1>3 DEF IdNotFound, SizeEndOfStream, ReturnNull, Reject
  <2>. QED
    BY <2>1 DEF ResultOfStream, Found, NoElement
<1>4. CASE IdFound \/ IdRead \/ SizeRead \/ SizeFound
  <2>1. pc' # "done"
    BY <1>4 DEF IdFound, IdRead, SizeRead, SizeFound
  <2>. QED
    BY <2>1 DEF ResultOfStream, Found
<1>. QED
  BY <1>1, <1>2, <1>3, <1>4 DEF Next

(* Octets of the stream are octets.                                        *)
LEMMA OctetsType ==
  ASSUME NEW d \in Seq(Octet), NEW i \in Nat \ {0}, NEW n \in Nat,
         i + n - 1 <= Len(d)
  PROVE  /\ Octets(d, i, n) \in Seq(Octet) /\ Len(Octets(d, i, n)) = n
         /\ \A k \in 1 .. n : Octets(d, i, n)[k] = d[i + k - 1]
<1>1. \A k \in 1 .. n : i + k - 1 \in 1 .. Len(d)
  OBVIOUS
<1>2. \A k \in 1 .. n : d[i + k - 1] \in Octet
  BY <1>1
<1>. QED
  BY <1>2 DEF Octets

(* The size of what is returned is one its octets can hold.                *)
LEMMA ResultFacts ==
  ASSUME Inv, NEW p, NEW n, NEW s, IsOfStream(Result, data, p, n, s)
  PROVE  /\ Result.ID = Octets(data, p + 1, n)
         /\ Result.coded = Octets(data, p + n + 1, s)
         /\ Result.ElementPosition = p /\ Result.SizePosition = p + n
         /\ Result.ID \in Seq(Octet) /\ Len(Result.ID) = n
         /\ Result.coded \in Seq(Octet) /\ Len(Result.coded) = s
         /\ Marked(Result.coded[1], s)
         /\ CodedValue(Result.coded) \in 0 .. AllOnes[s]
<1>1. /\ p \in Nat /\ n \in 1 .. IdMax /\ s \in 1 .. SizeMax
      /\ p + n + s <= Len(data) /\ Len(data) \in Nat /\ data \in Seq(Octet)
      /\ s = MarkedLength(data[p + n + 1], SizeMax)
      /\ Result = Candidate(Octets(data, p + 1, n), Octets(data, p + n + 1, s),
                            p, AllowDummyElt)
  <2>1. data \in Seq(Octet) /\ Len(data) \in Nat
    BY StreamAssumption DEF Inv, TypeOK
  <2>. QED
    BY <2>1 DEF IsOfStream
<1>2. SizeMax \in Nat /\ IdMax \in Nat /\ n \in Nat /\ s \in Nat
  BY <1>1, MaskFacts
<1>3. /\ Octets(data, p + 1, n) \in Seq(Octet) /\ Len(Octets(data, p + 1, n)) = n
  BY <1>1, <1>2, OctetsType
<1>4. /\ Octets(data, p + n + 1, s) \in Seq(Octet)
      /\ Len(Octets(data, p + n + 1, s)) = s
      /\ Octets(data, p + n + 1, s)[1] = data[p + n + 1]
  <2>1. /\ Octets(data, p + n + 1, s) \in Seq(Octet)
        /\ Len(Octets(data, p + n + 1, s)) = s
        /\ \A k \in 1 .. s : Octets(data, p + n + 1, s)[k] = data[p + n + 1 + k - 1]
    <3>1. p + n + 1 \in Nat \ {0} /\ p + n + 1 + s - 1 <= Len(data)
      BY <1>1, <1>2
    <3>. QED
      BY <1>1, <1>2, <3>1, OctetsType
  <2>2. 1 \in 1 .. s /\ p + n + 1 + 1 - 1 = p + n + 1
    BY <1>1, <1>2
  <2>. QED
    BY <2>1, <2>2
<1>5. Marked(data[p + n + 1], s)
  BY <1>1, <1>2 DEF MarkedLength
<1>6. /\ Result.ID = Octets(data, p + 1, n)
      /\ Result.coded = Octets(data, p + n + 1, s)
      /\ Result.ElementPosition = p
      /\ Result.SizePosition = p + Len(Octets(data, p + 1, n))
  BY <1>1 DEF Candidate
<1>7. CodedValue(Result.coded) \in 0 .. AllOnes[Len(Result.coded)]
  BY <1>1, <1>4, <1>5, <1>6, CodedValueType
<1>. QED
  BY <1>3, <1>4, <1>5, <1>6, <1>7

(* The head that was read is as long as the code measures it afterwards:   *)
(* the length it was read with is kept for a size that needs fewer octets. *)
LEMMA PlacedThere == ScanInv /\ ResultOfStream => PlacedAtData
<1> SUFFICES ASSUME ScanInv, ResultOfStream, Found PROVE PlacedAtData
  BY DEF PlacedAtData
<1>. DEFINE p == Result.ElementPosition
            size == CodedValue(Result.coded)
<1>1. PICK n \in 1 .. IdMax, s \in 1 .. SizeMax : IsOfStream(Result, data, p, n, s)
  BY DEF ResultOfStream
<1>2. Accepted(Result, MaxDataSize, AllowDummyElt) /\ pos = DataStart(Result)
  BY DEF ResultOfStream
<1>3. /\ Result.SizePosition = p + n /\ Len(Result.ID) = n
      /\ Len(Result.coded) = s /\ size \in 0 .. AllOnes[s]
  BY <1>1, ResultFacts DEF ScanInv
<1>4. /\ p \in Nat /\ n \in Nat /\ s \in Nat /\ n > 0 /\ s > 0
      /\ p + n + s <= Len(data) /\ Len(data) \in Nat
      /\ Len(data) <= MaxDataSize /\ MaxDataSize \in Nat
      /\ AllOnes[s] \in Nat
  <2>1. n \in Nat /\ s \in Nat /\ n > 0 /\ s > 0 /\ AllOnes[s] \in Nat
    BY MaskFacts, AllOnesAssumption DEF SizeMax
  <2>2. /\ p \in Nat /\ p + n + s <= Len(data) /\ Len(data) <= MaxDataSize
        /\ Len(data) \in Nat /\ MaxDataSize \in Nat
    BY <1>1, StreamAssumption DEF IsOfStream, ScanInv, Inv, TypeOK, WithinMaxDataSize
  <2>. QED
    BY <2>1, <2>2
<1>. HIDE DEF p
<1>5. pos = p + n + s
  BY <1>2, <1>3 DEF DataStart
<1>6. GetEndPosition(Result) = pos + size
  <2>1. IsUnknown(Result.coded) <=> size = AllOnes[s]
    BY <1>3 DEF IsUnknown
  <2>2. CodedSizeLength(size, s, ~ IsUnknown(Result.coded)) = s
    <3>. HIDE DEF size
    <3>1. CASE IsUnknown(Result.coded)
      <4>1. CodedSizeLength(size, s, FALSE) = s
        BY <1>3, LengthIsKept
      <4>. QED
        BY <3>1, <4>1 DEF CodedSizeLength
    <3>2. CASE ~ IsUnknown(Result.coded)
      <4>1. CodedSizeLength(size, s, TRUE) = s
        BY <1>3, <2>1, <3>2, LengthIsKept
      <4>. QED
        BY <3>2, <4>1 DEF CodedSizeLength
    <3>. QED
      BY <3>1, <3>2
  <2>. QED
    BY <1>3, <1>5, <2>2 DEF GetEndPosition
<1>7. ASSUME Result.level <= 0, ~ IsUnknown(Result.coded)
      PROVE  pos + size <= MaxDataSize
  <2>1. ~ (Result.level > 0)
    <3>1. Result.level \in Int
      BY DEF ScanInv, Inv, TypeOK, Found, NoElement, Candidates
    <3>. QED
      BY <1>7, <3>1
  <2>2. MaxDataSize # 0
    BY <1>4
  <2>3. MaxDataSize >= DataStart(Result) + CodedValue(Result.coded)
    BY <1>2, <1>7, <2>1, <2>2 DEF Accepted, Fits
  <2>. QED
    BY <1>2, <1>3, <1>4, <1>5, <2>3
<1>. QED
  BY <1>3, <1>5, <1>6, <1>7 DEF PlacedAtData, p

(* The file is left at the data of the element returned, whose own account *)
(* of where it ends is right and, at this level, within the limit.         *)
THEOREM FileIsAtData == Spec => []PlacedAtData
<1>. QED
  BY PlacedThere, ScanInitInv, ScanNextInv, ResultInit, ResultKept, PTL DEF Spec

(* The two numbers of a head that the stream begins with.                  *)
LEMMA HeadOctets ==
  ASSUME NEW d \in Seq(Octet), NEW id \in Seq(Octet), NEW coded \in Seq(Octet),
         Len(id) > 0, Len(coded) > 0, Begins(d, id \o coded)
  PROVE  /\ Len(id \o coded) = Len(id) + Len(coded)
         /\ Len(id) + Len(coded) <= Len(d)
         /\ Octets(d, 1, Len(id)) = id
         /\ Octets(d, Len(id) + 1, Len(coded)) = coded
         /\ d[1] = id[1] /\ d[Len(id) + 1] = coded[1]
<1>. DEFINE m == Len(id)
            c == Len(coded)
            h == id \o coded
<1>1. /\ m \in Nat \ {0} /\ c \in Nat \ {0} /\ Len(h) = m + c /\ m + c <= Len(d)
      /\ Len(d) \in Nat
  BY DEF Begins
<1>2. /\ \A k \in 1 .. m : h[k] = id[k]
      /\ \A k \in 1 .. c : h[m + k] = coded[k]
  OBVIOUS
<1>3. \A k \in 1 .. m + c : h[k] = d[k]
  <2>1. \A k \in 1 .. m + c : SubSeq(d, 1, m + c)[k] = d[k]
    BY <1>1
  <2>. QED
    BY <1>1, <2>1 DEF Begins
<1>4. \A k \in 1 .. m : d[1 + k - 1] = id[k]
  <2>1. ASSUME NEW k \in 1 .. m
        PROVE  d[1 + k - 1] = id[k]
    <3>1. k \in 1 .. m + c /\ 1 + k - 1 = k
      BY <1>1
    <3>. HIDE DEF h
    <3>2. h[k] = d[k] /\ h[k] = id[k]
      BY <1>2, <1>3, <3>1
    <3>. QED
      BY <3>1, <3>2
  <2>. QED
    BY <2>1
<1>5. \A k \in 1 .. c : d[m + 1 + k - 1] = coded[k]
  <2>1. ASSUME NEW k \in 1 .. c
        PROVE  d[m + 1 + k - 1] = coded[k]
    <3>1. m + k \in 1 .. m + c /\ m + 1 + k - 1 = m + k
      BY <1>1
    <3>2. h[m + k] = d[m + k] /\ h[m + k] = coded[k]
      BY <1>2, <1>3, <3>1
    <3>. QED
      BY <3>1, <3>2
  <2>. QED
    BY <2>1
<1>6. /\ id = [k \in 1 .. m |-> id[k]]
      /\ coded = [k \in 1 .. c |-> coded[k]]
  OBVIOUS
<1>7. Octets(d, 1, m) = id
  BY <1>4, <1>6 DEF Octets
<1>8. Octets(d, m + 1, c) = coded
  BY <1>5, <1>6 DEF Octets
<1>9. d[1] = id[1] /\ d[m + 1] = coded[1]
  <2>1. 1 \in 1 .. m /\ 1 \in 1 .. c
    BY <1>1
  <2>2. d[1 + 1 - 1] = id[1]
    BY <1>4, <2>1
  <2>3. d[m + 1 + 1 - 1] = coded[1]
    BY <1>5, <2>1
  <2>. QED
    BY <1>1, <2>2, <2>3
<1>. QED
  BY <1>1, <1>7, <1>8, <1>9

(* A child of the context gets its class, at level 0, unless its size is   *)
(* unknown and may not be.                                                 *)
LEMMA ChildCreated ==
  ASSUME NEW id \in Path[1].children, NEW coded, NEW allow
  PROVE  CreateElementUsingContext(id, IsUnknown(coded), allow)
           = [found |-> (IsUnknown(coded) => id \in CanHaveInfiniteSize),
              dummy |-> FALSE, level |-> 0]
<1>1. 1 \in 1 .. Len(Path)
  BY PathAssumption
<1>2. Knows(1, id)
  BY DEF Knows
<1>3. NearestLevel(id) \in 1 .. Len(Path)
      /\ \A j \in 1 .. NearestLevel(id) - 1 : ~ Knows(j, id)
  <2>1. \E i \in 1 .. Len(Path) :
          Knows(i, id) /\ \A j \in 1 .. i - 1 : ~ Knows(j, id)
    <3>1. \A j \in 1 .. 1 - 1 : ~ Knows(j, id)
      OBVIOUS
    <3>. QED
      BY <1>1, <1>2, <3>1
  <2>. QED
    BY <2>1 DEF NearestLevel
<1>4. NearestLevel(id) = 1
  BY <1>2, <1>3
<1>5. \E j \in 1 .. Len(Path) : Knows(j, id) /\ NearestLevel(id) = j
  BY <1>1, <1>2, <1>4
<1>6. CreateElementUsingContext(id, IsUnknown(coded), allow)
        = [found |-> (IsUnknown(coded) => id \in CanHaveInfiniteSize),
           dummy |-> FALSE, level |-> 1 - 1]
  <2>. DEFINE i == NearestLevel(id)
  <2>1. i = 1 /\ \E j \in 1 .. Len(Path) : Knows(j, id) /\ i = j
    BY <1>4, <1>5
  <2>. HIDE DEF i
  <2>2. /\ ~ (/\ ~ Path[1].isGlobal /\ id \notin Path[1].children
              /\ id \in GlobalIds /\ (IsUnknown(coded) => id \in CanHaveInfiniteSize))
        /\ ~ (/\ (IsUnknown(coded) => id \in CanHaveInfiniteSize)
              /\ id \notin Path[i].children)
    BY <2>1
  <2>. QED
    BY <2>1, <2>2, Zenon DEF CreateElementUsingContext, i
<1>7. 1 - 1 = 0
  OBVIOUS
<1>. QED
  BY <1>6, <1>7

(* A head that was written, at the start of the stream, is an acceptable   *)
(* element there when its size is valid and allowed.                       *)
LEMMA WrittenHeadAccepted ==
  ASSUME Inv, NEW id \in Path[1].children, NEW size \in Nat,
         NEW c \in 1 .. SizeMax, size < AllOnes[c],
         Begins(data, id \o CodedValueLength(size, c)),
         Len(id \o CodedValueLength(size, c)) + size <= MaxDataSize,
         SizeIsValid(id, size)
  PROVE  /\ ElementAt(data, 0)
         /\ Len(id) = MarkedLength(data[1], IdMax)
         /\ c = MarkedLength(data[Len(id) + 1], SizeMax)
         /\ Octets(data, 1, Len(id)) = id
         /\ Octets(data, Len(id) + 1, c) = CodedValueLength(size, c)
         /\ CodedValue(CodedValueLength(size, c)) = size
         /\ Len(id \o CodedValueLength(size, c)) = Len(id) + c
<1>. DEFINE coded == CodedValueLength(size, c)
            m == Len(id)
<1>1. /\ id \in Seq(Octet) /\ id # << >> /\ MarkedLength(Head(id), IdMax) = m
      /\ data \in Seq(Octet)
  <2>1. 1 \in 1 .. Len(Path)
    BY PathAssumption
  <2>2. Path[1] \in [children : SUBSET Seq(Octet), master : Seq(Octet),
                     isGlobal : BOOLEAN]
    <3>. DEFINE R == [children : SUBSET Seq(Octet), master : Seq(Octet),
                      isGlobal : BOOLEAN]
    <3>1. Path \in Seq(R)
      BY PathAssumption
    <3>. HIDE DEF R
    <3>2. Path[1] \in R
      BY <2>1, <3>1
    <3>. QED
      BY <3>2 DEF R
  <2>3. id \in Seq(Octet)
    BY <2>2
  <2>4. data \in Seq(Octet)
    BY StreamAssumption DEF Inv, TypeOK
  <2>. QED
    BY <2>3, <2>4, PathAssumption
<1>2. m \in 1 .. IdMax /\ Head(id) = id[1] /\ m \in Nat /\ m > 0 /\ IdMax \in Nat
      /\ c \in Nat /\ c > 0
  <2>1. m \in Nat /\ m > 0 /\ Head(id) = id[1] /\ c \in Nat /\ c > 0 /\ IdMax \in Nat
    BY <1>1, MaskFacts
  <2>2. MarkedLength(Head(id), IdMax) \in 0 .. IdMax
    BY <2>1, MarkedLengthType
  <2>. QED
    BY <1>1, <2>1, <2>2
<1>3. AllOnes[c] \in Nat /\ size \in 0 .. AllOnes[c] /\ size # AllOnes[c]
  <2>0. c \in 1 .. Len(AllOnes)
    BY AllOnesAssumption DEF SizeMax
  <2>1. AllOnes[c] \in Nat
    BY <2>0, AllOnesAssumption
  <2>. QED
    BY <2>1
<1>4. /\ coded \in Seq(Octet) /\ Len(coded) = c /\ Marked(coded[1], c)
      /\ CodedValue(coded) = size
  BY <1>3, WrittenSize
<1>5. Begins(data, id \o coded) /\ Len(id \o coded) + size <= MaxDataSize
  OBVIOUS
<1>. HIDE DEF coded
<1>6. /\ Len(id \o coded) = m + c /\ m + c <= Len(data)
      /\ Octets(data, 1, m) = id /\ Octets(data, m + 1, c) = coded
      /\ data[1] = id[1] /\ data[m + 1] = coded[1]
  <2>1. Len(id) > 0 /\ Len(coded) > 0
    BY <1>2, <1>4
  <2>2. data \in Seq(Octet) /\ id \in Seq(Octet) /\ coded \in Seq(Octet)
    BY <1>1, <1>4
  <2>3. /\ Len(id \o coded) = m + Len(coded) /\ m + Len(coded) <= Len(data)
        /\ Octets(data, 1, m) = id /\ Octets(data, m + 1, Len(coded)) = coded
        /\ data[1] = id[1] /\ data[m + 1] = coded[1]
    BY <1>5, <2>1, <2>2, HeadOctets
  <2>. QED
    BY <1>4, <2>3
<1>7. m = MarkedLength(data[1], IdMax)
  BY <1>1, <1>2, <1>6
<1>8. c = MarkedLength(data[m + 1], SizeMax)
  <2>1. coded[1] \in Octet
    BY <1>2, <1>4
  <2>2. \A k \in 1 .. SizeMax : Marked(coded[1], k) => k = c
    BY <1>4, <2>1, MarkedUnique
  <2>3. MarkedLength(coded[1], SizeMax) = c
    BY <1>4, <2>2 DEF MarkedLength
  <2>. QED
    BY <1>6, <2>3
<1>9. ~ IsUnknown(coded)
  BY <1>3, <1>4 DEF IsUnknown
<1>10. AllowDummyElt \in BOOLEAN /\ MaxDataSize \in Nat
  BY StreamAssumption DEF Inv, TypeOK
<1>11. Candidate(id, coded, 0, AllowDummyElt)
         = [found |-> TRUE, dummy |-> FALSE, level |-> 0, ID |-> id,
            coded |-> coded, ElementPosition |-> 0, SizePosition |-> 0 + m]
  <2>1. CreateElementUsingContext(id, IsUnknown(coded), AllowDummyElt)
          = [found |-> TRUE, dummy |-> FALSE, level |-> 0]
    <3>1. CreateElementUsingContext(id, IsUnknown(coded), AllowDummyElt)
            = [found |-> (IsUnknown(coded) => id \in CanHaveInfiniteSize),
               dummy |-> FALSE, level |-> 0]
      BY ChildCreated
    <3>2. (IsUnknown(coded) => id \in CanHaveInfiniteSize) = TRUE
      BY <1>9
    <3>. QED
      BY <3>1, <3>2
  <2>. QED
    BY <2>1 DEF Candidate
<1>12. Accepted(Candidate(id, coded, 0, AllowDummyElt), MaxDataSize, AllowDummyElt)
  <2>. DEFINE e == Candidate(id, coded, 0, AllowDummyElt)
  <2>1. /\ e.found /\ ~ e.dummy /\ e.ID = id /\ e.coded = coded
        /\ e.SizePosition = 0 + m
    BY <1>11
  <2>. HIDE DEF e
  <2>2. DataStart(e) + CodedValue(e.coded) = m + c + size
    BY <1>2, <1>4, <2>1 DEF DataStart
  <2>3. m + c + size <= MaxDataSize
    BY <1>5, <1>6
  <2>4. Fits(e, MaxDataSize)
    BY <1>2, <1>10, <2>2, <2>3 DEF Fits
  <2>5. SizeIsValid(e.ID, CodedValue(e.coded))
    BY <1>4, <2>1
  <2>. QED
    BY <2>1, <2>4, <2>5 DEF Accepted, e
<1>13. ElementAt(data, 0)
  <2>1. /\ 0 + m + c <= Len(data) /\ 0 + 1 = 1 /\ 0 + m + 1 = m + 1
    BY <1>2, <1>6
  <2>. QED
    BY <1>2, <1>6, <1>7, <1>8, <1>12, <2>1 DEF ElementAt
<1>. QED
  BY <1>4, <1>6, <1>7, <1>8, <1>13 DEF coded

(* The element returned is the one at the start of the stream when there   *)
(* is an acceptable one, and is read with the lengths found there.         *)
LEMMA FirstIsReturned ==
  ASSUME ScanInv, ResultOfStream, Found, ElementAt(data, 0)
  PROVE  IsOfStream(Result, data, 0, MarkedLength(data[1], IdMax),
                    MarkedLength(data[MarkedLength(data[1], IdMax) + 1], SizeMax))
<1>1. PICK n \in 1 .. IdMax, s \in 1 .. SizeMax :
        IsOfStream(Result, data, Result.ElementPosition, n, s)
  BY DEF ResultOfStream
<1>2. Result.ElementPosition \in Nat /\ n \in Nat
  BY <1>1, MaskFacts DEF IsOfStream
<1>3. \A p \in 0 .. Result.ElementPosition - 1 : ~ ElementAt(data, p)
  BY DEF ScanInv, Returns, FirstElementFound
<1>4. Result.ElementPosition = 0
  BY <1>2, <1>3
<1>5. n = MarkedLength(data[1], IdMax) /\ s = MarkedLength(data[n + 1], SizeMax)
  <2>1. 0 + 1 = 1 /\ 0 + n + 1 = n + 1
    BY <1>2
  <2>. QED
    BY <1>1, <1>4, <2>1 DEF IsOfStream
<1>. QED
  BY <1>1, <1>4, <1>5

(* The head that was written is acceptable, first, and has one reading.    *)
LEMMA HeadIsRead == ScanInv /\ ResultOfStream => WrittenHeadIsRead
<1> SUFFICES ASSUME ScanInv, ResultOfStream, Found,
                    NEW id \in Path[1].children, NEW length \in 0 .. SizeMax,
                    NEW size \in 0 .. AllOnes[LongestWritten(length)] - 1,
                    Len(WrittenHead(id, size, length)) <= Len(data),
                    SubSeq(data, 1, Len(WrittenHead(id, size, length)))
                      = WrittenHead(id, size, length),
                    Len(WrittenHead(id, size, length)) + size <= MaxDataSize,
                    SizeIsValid(id, size)
             PROVE  /\ Result.ElementPosition = 0 /\ Result.ID = id
                    /\ CodedValue(Result.coded) = size
                    /\ pos = Len(WrittenHead(id, size, length))
  BY DEF WrittenHeadIsRead
<1>. DEFINE c == CodedSizeLength(size, length, TRUE)
            coded == CodedValueLength(size, c)
            m == Len(id)
<1>1. c \in 1 .. SizeMax /\ size < AllOnes[c]
  BY LengthIsEnough
<1>. HIDE DEF c
<1>2. WrittenHead(id, size, length) = id \o coded
  BY DEF WrittenHead, c
<1>3. size \in Nat
  OBVIOUS
<1>4. /\ ElementAt(data, 0) /\ m = MarkedLength(data[1], IdMax)
      /\ c = MarkedLength(data[m + 1], SizeMax)
      /\ Octets(data, 1, m) = id /\ Octets(data, m + 1, c) = coded
      /\ CodedValue(coded) = size /\ Len(id \o coded) = m + c
  BY <1>1, <1>2, <1>3, WrittenHeadAccepted DEF ScanInv, Begins
<1>. HIDE DEF coded
<1>5. IsOfStream(Result, data, 0, m, c)
  BY <1>4, FirstIsReturned
<1>6. /\ Result.ID = Octets(data, 0 + 1, m)
      /\ Result.coded = Octets(data, 0 + m + 1, c)
      /\ Result.ElementPosition = 0 /\ Result.SizePosition = 0 + m
      /\ Len(Result.coded) = c
  BY <1>5, ResultFacts DEF ScanInv
<1>7. m \in Nat /\ c \in Nat
  BY <1>5, MaskFacts DEF IsOfStream
<1>8. 0 + 1 = 1 /\ 0 + m + 1 = m + 1 /\ 0 + m = m
  BY <1>7
<1>9. Result.ID = id /\ Result.coded = coded
  BY <1>4, <1>6, <1>8
<1>10. pos = m + c
  BY <1>6, <1>8 DEF ResultOfStream, DataStart
<1>. QED
  BY <1>2, <1>4, <1>6, <1>9, <1>10

(* A head that MakeRenderHead wrote at the start of what is scanned is     *)
(* read back: found there, with its ID and its size, for every size the    *)
(* octets it may take can hold and every length asked for.                 *)
THEOREM WrittenHeads == Spec => []WrittenHeadIsRead
<1>. QED
  BY HeadIsRead, ScanInitInv, ScanNextInv, ResultInit, ResultKept, PTL DEF Spec

-----------------------------------------------------------------------------
(***************************************************************************)
(* FindNextID beside the scan.                                             *)
(***************************************************************************)

(* While the ID is read, what was read announces none yet.                 *)
NextIdInv ==
  pc = "nextID" =>
    /\ PossibleID_Length = Len(data) /\ Len(data) <= IdMax
    /\ data # << >> => MarkedLength(data[1], Len(data)) = 0
    /\ PossibleSize = << >> /\ PossibleSizeLength = 0 /\ ~ ended

(* While the size is read, the stream is an ID of the length that its      *)
(* first octet announces, followed by what was read of the size, which is  *)
(* not longer than the size it announces.                                  *)
NextSizeInv ==
  pc = "nextSize" =>
    /\ PossibleID_Length \in 1 .. IdMax /\ PossibleID_Length <= Len(data)
    /\ PossibleID_Length = MarkedLength(data[1], IdMax)
    /\ PossibleSize \in Seq(Octet)
    /\ PossibleSizeLength = Len(PossibleSize) /\ Len(PossibleSize) <= SizeMax
    /\ ~ ended => SubSeq(data, 1, PossibleID_Length) \o PossibleSize = data
    /\ PossibleSize # << >> =>
         \/ MarkedLength(PossibleSize[1], SizeMax) = 0
         \/ Len(PossibleSize) <= MarkedLength(PossibleSize[1], SizeMax)

(* A behaviour is one call of FindNextID or one scan: the two do not mix.  *)
HeadInv ==
  ClassInfos # Scan =>
    /\ MaxDataSize \in Nat /\ AllowDummyElt \in BOOLEAN
    /\ data \in Seq(Octet) /\ pos = Len(data)
    /\ pc \in {"nextID", "nextSize", "returned"}
    /\ pc # "returned" => Result = NoElement
    /\ NextIdInv /\ NextSizeInv /\ HeadsAgree

(* The classes of the context have IDs, whose first octet tells the length. *)
LEMMA ContextChildren ==
  /\ Path[1].children \subseteq Seq(Octet)
  /\ \A id \in Path[1].children :
       id # << >> /\ MarkedLength(Head(id), IdMax) = Len(id)
<1>. DEFINE R == [children : SUBSET Seq(Octet), master : Seq(Octet),
                  isGlobal : BOOLEAN]
<1>1. Path \in Seq(R) /\ 1 \in 1 .. Len(Path)
  BY PathAssumption
<1>2. Path[1] \in R
  <2>. HIDE DEF R
  <2>. QED
    BY <1>1
<1>3. Path[1].children \subseteq Seq(Octet)
  BY <1>2
<1>. QED
  BY <1>3, PathAssumption

(* The call has read nothing.                                              *)
LEMMA HeadInit == StreamInit => HeadInv
<1>. SUFFICES ASSUME StreamInit, ClassInfos # Scan
              PROVE  HeadInv
  BY DEF HeadInv
<1>1. Called("nextID") /\ PossibleSize = << >> /\ ended = FALSE
  BY DEF StreamInit
<1>2. /\ MaxDataSize \in Nat /\ AllowDummyElt \in BOOLEAN /\ data = << >> /\ pos = 0
      /\ PossibleID_Length = 0 /\ PossibleSizeLength = 0
      /\ Result = NoElement /\ pc = "nextID"
  BY <1>1, StreamAssumption DEF Called
<1>3. << >> \in Seq(Octet) /\ Len(<< >>) = 0 /\ 0 <= IdMax
  BY MaskFacts
<1>. QED
  BY <1>1, <1>2, <1>3 DEF HeadInv, NextIdInv, NextSizeInv, HeadsAgree

(* An octet more of the stream.                                            *)
LEMMA OctetAppended ==
  ASSUME data \in Seq(Octet), pos = Len(data), NEW o \in Alphabet, OctetIs(o)
  PROVE  /\ o \in Octet /\ data' = Append(data, o)
         /\ data' \in Seq(Octet) /\ Len(data') = Len(data) + 1
         /\ pos' = Len(data')
         /\ \A k \in 1 .. Len(data) : data'[k] = data[k]
         /\ data'[Len(data) + 1] = o
<1>1. o \in Octet
  BY StreamAssumption
<1>2. data' = Append(data, o) /\ pos' = pos + 1
  BY DEF OctetIs
<1>. QED
  BY <1>1, <1>2

(* An octet more of the ID.                                                *)
LEMMA NextIdReadInv ==
  ASSUME HeadInv, ClassInfos # Scan, NextIdRead
  PROVE  HeadInv'
<1>1. PICK o \in Alphabet : OctetIs(o)
  BY DEF NextIdRead
<1>2. /\ MaxDataSize \in Nat /\ AllowDummyElt \in BOOLEAN
      /\ data \in Seq(Octet) /\ pos = Len(data) /\ pc = "nextID"
      /\ Result = NoElement /\ NextIdInv
  BY DEF HeadInv, NextIdRead
<1>3. /\ o \in Octet /\ data' \in Seq(Octet) /\ Len(data') = Len(data) + 1
      /\ pos' = Len(data') /\ Len(data) \in Nat
  BY <1>1, <1>2, OctetAppended
<1>4. /\ PossibleID_Length = Len(data) /\ Len(data) < IdMax
      /\ PossibleSize = << >> /\ PossibleSizeLength = 0 /\ ~ ended
  BY <1>2 DEF NextIdInv, NextIdRead
<1>5. /\ PossibleID_Length' = Len(data')
      /\ pc' = IF MarkedLength(data'[1], Len(data')) > 0 THEN "nextSize" ELSE "nextID"
      /\ ClassInfos' = ClassInfos /\ MaxDataSize' = MaxDataSize
      /\ AllowDummyElt' = AllowDummyElt /\ Result' = Result
      /\ PossibleSize' = PossibleSize /\ PossibleSizeLength' = PossibleSizeLength
      /\ ended' = ended
  BY <1>3, <1>4 DEF NextIdRead, ScanVars, parameters
<1>6. /\ Len(data') \in 1 .. IdMax /\ IdMax \in 1 .. SizeMax /\ SizeMax \in Nat
      /\ data'[1] \in Octet
  <2>1. IdMax \in 1 .. SizeMax /\ SizeMax \in Nat
    BY MaskFacts
  <2>2. Len(data') \in 1 .. IdMax
    BY <1>3, <1>4, <2>1
  <2>. QED
    BY <1>3, <2>1, <2>2
<1>7. MarkedLength(data'[1], Len(data')) \in 0 .. Len(data')
  BY <1>6, MarkedLengthType
<1>8. CASE MarkedLength(data'[1], Len(data')) > 0
  <2>1. MarkedLength(data'[1], IdMax) = MarkedLength(data'[1], Len(data'))
    BY <1>6, <1>8, MarkedLengthMore
  <2>2. MarkedLength(data'[1], Len(data')) = Len(data')
    <3>1. CASE data = << >>
      BY <1>3, <1>7, <1>8, <3>1
    <3>2. CASE data # << >>
      <4>1. data'[1] = data[1] /\ Len(data) \in 1 .. SizeMax
        <5>1. Len(data) > 0
          BY <1>2, <1>3, <3>2
        <5>. QED
          BY <1>1, <1>2, <1>3, <1>6, <5>1, OctetAppended
      <4>2. MarkedLength(data[1], Len(data)) = 0
        BY <1>2, <3>2 DEF NextIdInv
      <4>3. ~ \E n \in 1 .. Len(data) : Marked(data'[1], n)
        <5>1. ASSUME \E n \in 1 .. Len(data) : Marked(data'[1], n)
              PROVE  FALSE
          <6>1. MarkedLength(data[1], Len(data)) \in 1 .. Len(data)
            BY <4>1, <5>1 DEF MarkedLength
          <6>. QED
            BY <4>2, <6>1
        <5>. QED
          BY <5>1
      <4>4. /\ MarkedLength(data'[1], Len(data')) \in 1 .. Len(data')
            /\ Marked(data'[1], MarkedLength(data'[1], Len(data')))
        BY <1>7, <1>8 DEF MarkedLength
      <4>. QED
        BY <1>3, <4>3, <4>4
    <3>. QED
      BY <3>1, <3>2
  <2>3. pc' = "nextSize"
    BY <1>5, <1>8
  <2>4. SubSeq(data', 1, PossibleID_Length') \o PossibleSize' = data'
    <3>1. SubSeq(data', 1, Len(data')) = data'
      BY <1>3
    <3>2. data' \o << >> = data'
      BY <1>3
    <3>. QED
      BY <1>4, <1>5, <3>1, <3>2
  <2>5. << >> \in Seq(Octet) /\ Len(<< >>) = 0 /\ 0 <= SizeMax
    BY <1>6
  <2>6. NextSizeInv'
    BY <1>4, <1>5, <1>6, <2>1, <2>2, <2>4, <2>5 DEF NextSizeInv
  <2>. QED
    BY <1>2, <1>3, <1>5, <2>3, <2>6 DEF HeadInv, NextIdInv, HeadsAgree
<1>9. CASE ~ (MarkedLength(data'[1], Len(data')) > 0)
  <2>1. pc' = "nextID" /\ MarkedLength(data'[1], Len(data')) = 0
    BY <1>5, <1>7, <1>9
  <2>2. NextIdInv'
    BY <1>4, <1>5, <1>6, <2>1 DEF NextIdInv
  <2>. QED
    BY <1>2, <1>3, <1>5, <2>1, <2>2 DEF HeadInv, NextSizeInv, HeadsAgree
<1>. QED
  BY <1>8, <1>9

(* The length of the size, when it is complete, is what was read of it.    *)
LEMMA SizeIsComplete ==
  ASSUME NextSizeInv, pc = "nextSize"
  PROVE  /\ CodedLength(PossibleSize) > 0 =>
              /\ Len(PossibleSize) \in 1 .. SizeMax
              /\ MarkedLength(PossibleSize[1], SizeMax) = Len(PossibleSize)
              /\ Marked(PossibleSize[1], Len(PossibleSize))
         /\ CodedLength(PossibleSize) = 0 /\ PossibleSize # << >> =>
              \/ MarkedLength(PossibleSize[1], SizeMax) = 0
              \/ Len(PossibleSize) < MarkedLength(PossibleSize[1], SizeMax)
<1>1. /\ PossibleSize \in Seq(Octet) /\ Len(PossibleSize) \in Nat
      /\ Len(PossibleSize) <= SizeMax /\ SizeMax \in Nat
      /\ PossibleSize # << >> =>
           \/ MarkedLength(PossibleSize[1], SizeMax) = 0
           \/ Len(PossibleSize) <= MarkedLength(PossibleSize[1], SizeMax)
  BY MaskFacts DEF NextSizeInv
<1>. DEFINE s == MarkedLength(PossibleSize[1], SizeMax)
<1>2. s \in 0 .. SizeMax /\ (s > 0 => Marked(PossibleSize[1], s))
  BY <1>1, MarkedLengthType DEF MarkedLength
<1>3. PossibleSize = << >> => CodedLength(PossibleSize) = 0
  BY <1>1 DEF CodedLength
<1>4. PossibleSize # << >> =>
        CodedLength(PossibleSize) = IF s <= Len(PossibleSize) THEN s ELSE 0
  <2>1. PossibleSize # << >> => Head(PossibleSize) = PossibleSize[1]
    BY <1>1
  <2>. QED
    BY <2>1 DEF CodedLength
<1>. HIDE DEF s
<1>5. ASSUME CodedLength(PossibleSize) > 0
      PROVE  s = Len(PossibleSize) /\ s > 0
  BY <1>1, <1>2, <1>3, <1>4, <1>5 DEF s
<1>6. ASSUME CodedLength(PossibleSize) = 0, PossibleSize # << >>
      PROVE  s = 0 \/ Len(PossibleSize) < s
  BY <1>1, <1>2, <1>4, <1>6
<1>. QED
  BY <1>1, <1>2, <1>5, <1>6 DEF s

(* An octet more of the size.                                              *)
LEMMA NextSizeReadInv ==
  ASSUME HeadInv, ClassInfos # Scan, NextSizeRead
  PROVE  HeadInv'
<1>1. /\ MaxDataSize \in Nat /\ AllowDummyElt \in BOOLEAN
      /\ data \in Seq(Octet) /\ pos = Len(data) /\ Len(data) \in Nat
      /\ pc = "nextSize" /\ Result = NoElement /\ NextSizeInv
      /\ CodedLength(PossibleSize) = 0
  BY DEF HeadInv, NextSizeRead, NextSizeIncomplete
<1>2. /\ PossibleID_Length \in 1 .. IdMax /\ PossibleID_Length <= Len(data)
      /\ PossibleID_Length = MarkedLength(data[1], IdMax)
      /\ PossibleSize \in Seq(Octet) /\ Len(PossibleSize) \in Nat
      /\ PossibleSizeLength = Len(PossibleSize) /\ Len(PossibleSize) < SizeMax
      /\ ~ ended => SubSeq(data, 1, PossibleID_Length) \o PossibleSize = data
      /\ SizeMax \in Nat /\ IdMax \in Nat
  BY <1>1, MaskFacts DEF NextSizeInv, NextSizeRead
<1>3. /\ PossibleID_Length' = PossibleID_Length /\ pc' = pc
      /\ PossibleSizeLength' = PossibleSizeLength + 1
      /\ ClassInfos' = ClassInfos /\ MaxDataSize' = MaxDataSize
      /\ AllowDummyElt' = AllowDummyElt /\ Result' = Result
  BY DEF NextSizeRead, ScanVars, parameters
<1>4. ASSUME NEW o \in Octet, PossibleSize' = Append(PossibleSize, o)
      PROVE  /\ PossibleSize' \in Seq(Octet)
             /\ Len(PossibleSize') = Len(PossibleSize) + 1
             /\ \/ MarkedLength(PossibleSize'[1], SizeMax) = 0
                \/ Len(PossibleSize') <= MarkedLength(PossibleSize'[1], SizeMax)
  <2>1. /\ PossibleSize' \in Seq(Octet) /\ Len(PossibleSize') = Len(PossibleSize) + 1
    BY <1>2, <1>4
  <2>2. MarkedLength(PossibleSize'[1], SizeMax) \in 0 .. SizeMax
    BY <1>2, MarkedLengthType
  <2>3. CASE PossibleSize = << >>
    BY <2>1, <2>2, <2>3
  <2>4. CASE PossibleSize # << >>
    <3>1. PossibleSize'[1] = PossibleSize[1]
      BY <1>2, <1>4, <2>4
    <3>2. \/ MarkedLength(PossibleSize[1], SizeMax) = 0
          \/ Len(PossibleSize) < MarkedLength(PossibleSize[1], SizeMax)
      BY <1>1, <2>4, SizeIsComplete
    <3>. QED
      BY <1>2, <2>1, <2>2, <3>1, <3>2
  <2>. QED
    BY <2>1, <2>3, <2>4
<1>5. CASE ~ ended /\ UNCHANGED ended
           /\ \E o \in Alphabet : OctetIs(o) /\ PossibleSize' = Append(PossibleSize, o)
  <2>1. PICK o \in Alphabet : OctetIs(o) /\ PossibleSize' = Append(PossibleSize, o)
    BY <1>5
  <2>2. /\ o \in Octet /\ data' = Append(data, o)
        /\ data' \in Seq(Octet) /\ Len(data') = Len(data) + 1 /\ pos' = Len(data')
        /\ \A k \in 1 .. Len(data) : data'[k] = data[k]
    BY <1>1, <2>1, OctetAppended
  <2>3. data'[1] = data[1]
    BY <1>2, <2>2
  <2>4. SubSeq(data', 1, PossibleID_Length) \o PossibleSize' = data'
    <3>1. SubSeq(data', 1, PossibleID_Length) = SubSeq(data, 1, PossibleID_Length)
      BY <1>1, <1>2, <2>2
    <3>. DEFINE id == SubSeq(data, 1, PossibleID_Length)
    <3>2. id \in Seq(Octet) /\ id \o PossibleSize = data
      BY <1>1, <1>2, <1>5
    <3>. HIDE DEF id
    <3>3. id \o Append(PossibleSize, o) = Append(id \o PossibleSize, o)
      <4>1. /\ Append(PossibleSize, o) = PossibleSize \o <<o>>
            /\ Append(id \o PossibleSize, o) = (id \o PossibleSize) \o <<o>>
        <5>1. id \o PossibleSize \in Seq(Octet)
          BY <1>1, <3>2
        <5>. QED
          BY <1>2, <2>2, <5>1, AppendIsConcat
      <4>2. <<o>> \in Seq(Octet)
        BY <2>2
      <4>3. (id \o PossibleSize) \o <<o>> = id \o (PossibleSize \o <<o>>)
        <5>1. \A a, b, c \in Seq(Octet) : (a \o b) \o c = a \o (b \o c)
          BY ConcatAssociative
        <5>. QED
          BY <1>2, <3>2, <4>2, <5>1, Zenon
      <4>. QED
        BY <4>1, <4>3
    <3>. QED
      BY <2>1, <2>2, <3>1, <3>2, <3>3 DEF id
  <2>5. NextSizeInv'
    <3>1. /\ PossibleSize' \in Seq(Octet)
          /\ Len(PossibleSize') = Len(PossibleSize) + 1
          /\ \/ MarkedLength(PossibleSize'[1], SizeMax) = 0
             \/ Len(PossibleSize') <= MarkedLength(PossibleSize'[1], SizeMax)
      BY <1>4, <2>1, <2>2
    <3>2. SubSeq(data', 1, PossibleID_Length') \o PossibleSize' = data'
      BY <1>3, <2>4
    <3>3. /\ PossibleID_Length' \in 1 .. IdMax /\ PossibleID_Length' <= Len(data')
          /\ PossibleID_Length' = MarkedLength(data'[1], IdMax)
      BY <1>1, <1>2, <1>3, <2>2, <2>3
    <3>4. PossibleSizeLength' = Len(PossibleSize') /\ Len(PossibleSize') <= SizeMax
      BY <1>2, <1>3, <3>1
    <3>. QED
      BY <3>1, <3>2, <3>3, <3>4, Zenon DEF NextSizeInv
  <2>. QED
    BY <1>1, <1>3, <2>2, <2>5 DEF HeadInv, NextIdInv, HeadsAgree
<1>6. CASE ended' = TRUE /\ UNCHANGED <<data, pos>>
           /\ \E o \in Octet : PossibleSize' = Append(PossibleSize, o)
  <2>1. PICK o \in Octet : PossibleSize' = Append(PossibleSize, o)
    BY <1>6
  <2>2. NextSizeInv'
    BY <1>2, <1>3, <1>4, <1>6, <2>1 DEF NextSizeInv
  <2>. QED
    BY <1>1, <1>3, <1>6, <2>2 DEF HeadInv, NextIdInv, HeadsAgree
<1>. QED
  BY <1>5, <1>6 DEF NextSizeRead
(* Whatever the element at the pointer is, the numbers of its head are     *)
(* those that the call has read.                                           *)
LEMMA NextHead ==
  ASSUME HeadInv, ClassInfos # Scan, pc = "nextSize", ~ ended,
         NEW n, NEW c, n = PossibleID_Length, c = Len(PossibleSize), c > 0
  PROVE  /\ n \in 1 .. IdMax /\ n = MarkedLength(data[0 + 1], IdMax)
         /\ 0 + n + c = Len(data)
         /\ data[0 + n + 1] = PossibleSize[1]
         /\ Octets(data, 0 + 1, n) = SubSeq(data, 1, n)
         /\ Octets(data, 0 + n + 1, c) = PossibleSize
         /\ SubSeq(data, 1, n) \in Seq(Octet) /\ Len(SubSeq(data, 1, n)) = n
<1>. DEFINE id == SubSeq(data, 1, n)
<1>1. /\ data \in Seq(Octet) /\ Len(data) \in Nat /\ IdMax \in Nat
      /\ n \in 1 .. IdMax /\ n <= Len(data) /\ n = MarkedLength(data[1], IdMax)
      /\ PossibleSize \in Seq(Octet) /\ c \in Nat
      /\ id \o PossibleSize = data
  BY MaskFacts DEF HeadInv, NextSizeInv
<1>2. id \in Seq(Octet) /\ Len(id) = n
  BY <1>1
<1>. HIDE DEF id
<1>3. Begins(data, id \o PossibleSize)
  <2>1. SubSeq(data, 1, Len(data)) = data
    BY <1>1
  <2>. QED
    BY <1>1, <2>1 DEF Begins
<1>4. /\ Len(id \o PossibleSize) = Len(id) + Len(PossibleSize)
      /\ Octets(data, 1, Len(id)) = id
      /\ Octets(data, Len(id) + 1, Len(PossibleSize)) = PossibleSize
      /\ data[Len(id) + 1] = PossibleSize[1]
  <2>1. Len(id) > 0 /\ Len(PossibleSize) > 0
    BY <1>1, <1>2
  <2>2. data \in Seq(Octet) /\ PossibleSize \in Seq(Octet)
    BY <1>1
  <2>. DEFINE Split(d, a, b) ==
                Len(a) > 0 /\ Len(b) > 0 /\ Begins(d, a \o b) =>
                  /\ Len(a \o b) = Len(a) + Len(b)
                  /\ Octets(d, 1, Len(a)) = a
                  /\ Octets(d, Len(a) + 1, Len(b)) = b
                  /\ d[Len(a) + 1] = b[1]
  <2>3. \A d, a, b \in Seq(Octet) : Split(d, a, b)
    BY HeadOctets
  <2>4. Split(data, id, PossibleSize)
    <3>. HIDE DEF Split
    <3>. QED
      BY <1>2, <2>2, <2>3, Zenon
  <2>. QED
    BY <1>3, <2>1, <2>4, Zenon
<1>5. 0 + 1 = 1 /\ 0 + n + 1 = n + 1 /\ 0 + n + c = n + c
  BY <1>1
<1>. QED
  BY <1>1, <1>2, <1>4, <1>5 DEF id

(* There is no ID, or no size, where the call looked for it: no element.   *)
LEMMA NextNotFoundInv ==
  ASSUME HeadInv, ClassInfos # Scan, NextIdNotFound \/ NextSizeTooLong
  PROVE  HeadInv'
<1>1. /\ MaxDataSize \in Nat /\ AllowDummyElt \in BOOLEAN
      /\ data \in Seq(Octet) /\ pos = Len(data) /\ Len(data) \in Nat
      /\ Result = NoElement /\ NextIdInv /\ NextSizeInv
  BY DEF HeadInv, NextIdNotFound, NextSizeTooLong, NextSizeIncomplete
<1>2. /\ pc' = "returned" /\ data' = data /\ pos' = pos /\ Result' = Result
      /\ ClassInfos' = ClassInfos /\ MaxDataSize' = MaxDataSize
      /\ AllowDummyElt' = AllowDummyElt /\ ended' = ended
  BY DEF NextIdNotFound, NextSizeTooLong, ScanVars, parameters
<1>3. ~ Result'.found
  BY <1>1, <1>2 DEF NoElement
<1>4. ASSUME ~ ended, ClassInfos \in Path[1].children, Begins(data, ClassInfos),
             ElementAt(data, 0)
      PROVE  FALSE
  <2>1. PICK n \in 1 .. IdMax, s \in 1 .. SizeMax :
          /\ 0 + n + s <= Len(data)
          /\ n = MarkedLength(data[0 + 1], IdMax)
          /\ s = MarkedLength(data[0 + n + 1], SizeMax)
    BY <1>4 DEF ElementAt
  <2>2. /\ IdMax \in 1 .. SizeMax /\ SizeMax \in Nat /\ IdMax \in Nat
    BY MaskFacts
  <2>3. CASE NextIdNotFound
    <3>1. pc = "nextID" /\ Len(data) <= IdMax
      BY <1>1, <2>3 DEF NextIdNotFound, NextIdInv
    <3>2. /\ ClassInfos # << >> /\ ClassInfos \in Seq(Octet)
          /\ MarkedLength(Head(ClassInfos), IdMax) = Len(ClassInfos)
      BY <1>4, ContextChildren
    <3>3. Len(ClassInfos) \in Nat \ {0} /\ Len(ClassInfos) <= Len(data)
      BY <1>4, <3>2 DEF Begins
    <3>4. data[1] = Head(ClassInfos) /\ data # << >>
      BY <1>1, <1>4, <3>2, <3>3 DEF Begins
    <3>5. MarkedLength(data[1], Len(data)) = 0
      BY <1>1, <3>1, <3>4 DEF NextIdInv
    <3>6. Marked(data[1], Len(ClassInfos)) /\ Len(ClassInfos) \in 1 .. Len(data)
      BY <1>1, <2>2, <3>2, <3>3, <3>4 DEF MarkedLength
    <3>7. MarkedLength(data[1], Len(data)) \in 1 .. Len(data)
      BY <3>6 DEF MarkedLength
    <3>. QED
      BY <3>5, <3>7
  <2>4. CASE NextSizeTooLong
    <3>1. /\ pc = "nextSize" /\ CodedLength(PossibleSize) = 0
          /\ PossibleSizeLength = Len(PossibleSize) /\ PossibleSizeLength >= SizeMax
          /\ PossibleSize \in Seq(Octet)
      BY <1>1, <2>4 DEF NextSizeTooLong, NextSizeIncomplete, NextSizeInv
    <3>2. Len(PossibleSize) > 0 /\ PossibleSize # << >>
      BY <2>2, <3>1
    <3>3. /\ PossibleID_Length = MarkedLength(data[0 + 1], IdMax)
          /\ data[0 + PossibleID_Length + 1] = PossibleSize[1]
      BY <1>4, <3>1, <3>2, NextHead
    <3>4. s = MarkedLength(PossibleSize[1], SizeMax)
      BY <2>1, <3>3
    <3>5. s = 0 \/ Len(PossibleSize) < s
      BY <1>1, <3>1, <3>2, <3>4, SizeIsComplete
    <3>. QED
      BY <2>1, <2>2, <3>1, <3>5
  <2>. QED
    BY <2>3, <2>4
<1>5. HeadsAgree'
  <2>1. ASSUME ~ ended', (ClassInfos \in Path[1].children)', Begins(data, ClassInfos)',
               ElementAt(data, 0)'
        PROVE  FALSE
    <3>1. ~ ended /\ ClassInfos \in Path[1].children /\ Begins(data, ClassInfos)
      BY <1>2, <2>1
    <3>2. ElementAt(data, 0)
      BY <1>2, <2>1 DEF ElementAt
    <3>. QED
      BY <1>4, <3>1, <3>2
  <2>. QED
    BY <1>3, <2>1 DEF HeadsAgree, ClassFound
<1>. QED
  BY <1>1, <1>2, <1>5 DEF HeadInv, NextIdInv, NextSizeInv
(* The candidate that the scan would find where the call began, if there   *)
(* is one, is that of the octets the call has read.                        *)
LEMMA ElementOfHead ==
  ASSUME HeadInv, ClassInfos # Scan, pc = "nextSize", ~ ended,
         CodedLength(PossibleSize) > 0,
         NEW id, id = SubSeq(data, 1, PossibleID_Length)
  PROVE  ElementAt(data, 0) <=>
           Accepted(Candidate(id, PossibleSize, 0, AllowDummyElt), MaxDataSize,
                    AllowDummyElt)
<1>. DEFINE n == PossibleID_Length
            c == Len(PossibleSize)
<1>1. /\ c \in 1 .. SizeMax /\ MarkedLength(PossibleSize[1], SizeMax) = c
      /\ SizeMax \in Nat /\ Len(data) \in Nat
  <2>1. NextSizeInv /\ data \in Seq(Octet)
    BY DEF HeadInv
  <2>. QED
    BY <2>1, SizeIsComplete, MaskFacts
<1>2. /\ n \in 1 .. IdMax /\ n = MarkedLength(data[0 + 1], IdMax)
      /\ 0 + n + c = Len(data)
      /\ data[0 + n + 1] = PossibleSize[1]
      /\ Octets(data, 0 + 1, n) = id
      /\ Octets(data, 0 + n + 1, c) = PossibleSize
  BY <1>1, NextHead
<1>. DEFINE Here(m, s) ==
              /\ 0 + m + s <= Len(data)
              /\ m = MarkedLength(data[0 + 1], IdMax)
              /\ s = MarkedLength(data[0 + m + 1], SizeMax)
              /\ Accepted(Candidate(Octets(data, 0 + 1, m),
                                    Octets(data, 0 + m + 1, s), 0, AllowDummyElt),
                          MaxDataSize, AllowDummyElt)
            accepted == Accepted(Candidate(id, PossibleSize, 0, AllowDummyElt),
                                 MaxDataSize, AllowDummyElt)
<1>3. ElementAt(data, 0) <=> \E m \in 1 .. IdMax, s \in 1 .. SizeMax : Here(m, s)
  BY DEF ElementAt
<1>4. Here(n, c) <=> accepted
  <2>1. 0 + n + c <= Len(data)
    BY <1>1, <1>2
  <2>. QED
    BY <1>1, <1>2, <2>1, Zenon
<1>5. ASSUME NEW m \in 1 .. IdMax, NEW s \in 1 .. SizeMax, Here(m, s)
      PROVE  m = n /\ s = c
  <2>1. m = n
    BY <1>2, <1>5, Zenon
  <2>2. s = MarkedLength(data[0 + n + 1], SizeMax)
    BY <1>5, <2>1, Zenon
  <2>. QED
    BY <1>1, <1>2, <2>1, <2>2, Zenon
<1>. HIDE DEF Here, accepted, n, c
<1>6. ElementAt(data, 0) <=> accepted
  BY <1>1, <1>2, <1>3, <1>4, <1>5, Zenon
<1>. QED
  BY <1>6 DEF accepted

(* What FindNextID accepts of a class of the context, with room for it,    *)
(* the scan accepts, and FindNextID what the scan does within a limit.     *)
LEMMA BothAccept ==
  ASSUME NEW id \in Path[1].children, NEW coded \in Seq(Octet),
         Len(coded) \in 1 .. SizeMax, Marked(coded[1], Len(coded)),
         MaxDataSize \in Nat, AllowDummyElt \in BOOLEAN, ClassInfos = id,
         NEW e, e = Candidate(id, coded, 0, AllowDummyElt)
  PROVE  /\ NextAccepted(id, CodedValue(coded), IsUnknown(coded))
            /\ Len(id) + Len(coded) + CodedValue(coded) <= MaxDataSize
              => Accepted(e, MaxDataSize, AllowDummyElt)
         /\ Accepted(e, MaxDataSize, AllowDummyElt) /\ MaxDataSize > 0
              => NextAccepted(id, CodedValue(coded), IsUnknown(coded))
<1>. DEFINE size == CodedValue(coded)
            allowed == IsUnknown(coded) => id \in CanHaveInfiniteSize
<1>1. id \in Seq(Octet)
  BY ContextChildren
<1>2. size \in Nat
  <2>1. CodedValue(coded) \in 0 .. AllOnes[Len(coded)]
    BY CodedValueType
  <2>. QED
    BY <2>1
<1>3. /\ e.found <=> allowed
      /\ ~ e.dummy /\ e.level = 0 /\ e.ID = id /\ e.coded = coded
      /\ e.SizePosition = 0 + Len(id)
  <2>. DEFINE created == CreateElementUsingContext(id, IsUnknown(coded), AllowDummyElt)
  <2>1. created = [found |-> allowed, dummy |-> FALSE, level |-> 0]
    BY ChildCreated
  <2>2. created.found = allowed /\ created.dummy = FALSE /\ created.level = 0
    <3>. HIDE DEF allowed, created
    <3>. QED
      BY <2>1
  <2>3. e = [found |-> created.found, dummy |-> created.dummy,
             level |-> created.level, ID |-> id, coded |-> coded,
             ElementPosition |-> 0, SizePosition |-> 0 + Len(id)]
    BY Zenon DEF Candidate
  <2>. HIDE DEF created, allowed
  <2>4. /\ e.found = created.found /\ e.dummy = created.dummy
        /\ e.level = created.level /\ e.ID = id /\ e.coded = coded
        /\ e.SizePosition = 0 + Len(id)
    BY <2>3
  <2>. QED
    BY <2>2, <2>4
<1>4. DataStart(e) = Len(id) + Len(coded)
  BY <1>1, <1>3 DEF DataStart
<1>5. Len(id) + Len(coded) \in Nat
  BY <1>1
<1>. HIDE DEF allowed
<1>6. Accepted(e, MaxDataSize, AllowDummyElt) <=>
        /\ allowed /\ SizeIsValid(id, size)
        /\ \/ IsUnknown(coded) \/ MaxDataSize = 0
           \/ MaxDataSize >= Len(id) + Len(coded) + size
  <2>1. Fits(e, MaxDataSize) <=>
          \/ IsUnknown(coded) \/ MaxDataSize = 0
          \/ MaxDataSize >= Len(id) + Len(coded) + size
    BY <1>2, <1>3, <1>4, <1>5 DEF Fits
  <2>. QED
    BY <1>3, <2>1, Zenon DEF Accepted
<1>7. NextAccepted(id, size, IsUnknown(coded)) <=>
        /\ IsUnknown(coded) \/ size <= MaxDataSize
        /\ allowed /\ SizeIsValid(id, size)
  BY Zenon DEF NextAccepted, allowed
<1>. HIDE DEF size
<1>8. /\ Len(id) + Len(coded) + size <= MaxDataSize
           => MaxDataSize >= Len(id) + Len(coded) + size
      /\ MaxDataSize >= Len(id) + Len(coded) + size => size <= MaxDataSize
      /\ MaxDataSize > 0 => MaxDataSize # 0
  BY <1>2, <1>5
<1>9. /\ NextAccepted(id, size, IsUnknown(coded))
         /\ Len(id) + Len(coded) + size <= MaxDataSize
           => Accepted(e, MaxDataSize, AllowDummyElt)
      /\ Accepted(e, MaxDataSize, AllowDummyElt) /\ MaxDataSize > 0
           => NextAccepted(id, size, IsUnknown(coded))
  BY <1>6, <1>7, <1>8, Zenon
<1>. QED
  BY <1>9 DEF size
(* The head is complete and returned, or refused.                          *)
LEMMA NextReturnedInv ==
  ASSUME HeadInv, ClassInfos # Scan, NextReturned
  PROVE  HeadInv'
<1>. DEFINE id == SubSeq(data, 1, PossibleID_Length)
            accepted == NextAccepted(id, CodedValue(PossibleSize),
                                     IsUnknown(PossibleSize))
            head == [found |-> TRUE, dummy |-> id # ClassInfos, level |-> 0,
                     ID |-> id, coded |-> PossibleSize, ElementPosition |-> 0,
                     SizePosition |-> PossibleID_Length]
<1>1. /\ MaxDataSize \in Nat /\ AllowDummyElt \in BOOLEAN
      /\ data \in Seq(Octet) /\ pos = Len(data) /\ Len(data) \in Nat
      /\ pc = "nextSize" /\ NextSizeInv /\ CodedLength(PossibleSize) > 0
  BY DEF HeadInv, NextReturned
<1>2. /\ pc' = "returned" /\ data' = data /\ pos' = pos
      /\ ClassInfos' = ClassInfos /\ MaxDataSize' = MaxDataSize
      /\ AllowDummyElt' = AllowDummyElt /\ ended' = ended
  BY DEF NextReturned, ScanVars, parameters
<1>3. Result' = IF accepted THEN head ELSE NoElement
  BY Zenon DEF NextReturned
<1>4. /\ PossibleSize \in Seq(Octet) /\ Len(PossibleSize) \in 1 .. SizeMax
      /\ Marked(PossibleSize[1], Len(PossibleSize))
  <2>1. PossibleSize \in Seq(Octet)
    BY <1>1 DEF NextSizeInv
  <2>. QED
    BY <1>1, <2>1, SizeIsComplete
<1>. HIDE DEF accepted
<1>5. /\ Result'.found <=> accepted
      /\ accepted => /\ Result'.dummy = (id # ClassInfos) /\ Result'.ID = id
                     /\ Result'.coded = PossibleSize
                     /\ Result'.SizePosition = PossibleID_Length
  <2>1. CASE accepted
    <3>1. Result' = head
      BY <1>3, <2>1
    <3>. HIDE DEF id
    <3>. QED
      BY <2>1, <3>1
  <2>2. CASE ~ accepted
    <3>1. Result' = NoElement
      BY <1>3, <2>2
    <3>. QED
      BY <2>2, <3>1 DEF NoElement
  <2>. QED
    BY <2>1, <2>2
<1>. HIDE DEF head
<1>6. ASSUME ~ ended
      PROVE  /\ id \in Seq(Octet) /\ Len(id) = PossibleID_Length
             /\ Len(id) + Len(PossibleSize) = Len(data)
             /\ id \o PossibleSize = data
             /\ Len(id) = MarkedLength(data[1], IdMax)
  <2>1. /\ PossibleID_Length \in 1 .. IdMax /\ IdMax \in Nat
        /\ Len(PossibleSize) > 0
        /\ 0 + PossibleID_Length + Len(PossibleSize) = Len(data)
        /\ id \in Seq(Octet) /\ Len(id) = PossibleID_Length
    <3>1. Len(PossibleSize) > 0
      BY <1>4, MaskFacts
    <3>. QED
      BY <1>1, <1>6, <3>1, NextHead, MaskFacts
  <2>2. id \o PossibleSize = data
    BY <1>1, <1>6 DEF NextSizeInv
  <2>3. PossibleID_Length = MarkedLength(data[1], IdMax)
    BY <1>1 DEF NextSizeInv
  <2>. HIDE DEF id
  <2>4. Len(id) + Len(PossibleSize) = Len(data)
    <3>1. Len(PossibleSize) \in Nat /\ PossibleID_Length \in Nat
      BY <1>4, <2>1
    <3>. QED
      BY <2>1, <3>1
  <2>. QED
    BY <2>1, <2>2, <2>3, <2>4, Zenon
<1>7. ASSUME ~ ended, accepted
      PROVE  Result'.SizePosition + Len(Result'.coded) = Len(data)
             /\ Result'.ID \o Result'.coded = data
  <2>. HIDE DEF id
  <2>. QED
    BY <1>5, <1>6, <1>7
<1>8. ASSUME ~ ended, ClassInfos = id, id \in Path[1].children
      PROVE  /\ accepted /\ Len(data) + CodedValue(PossibleSize) <= MaxDataSize
                   => ElementAt(data, 0)
             /\ ElementAt(data, 0) /\ MaxDataSize > 0 => accepted
  <2>. DEFINE e == Candidate(id, PossibleSize, 0, AllowDummyElt)
  <2>1. /\ accepted /\ Len(id) + Len(PossibleSize) + CodedValue(PossibleSize)
                          <= MaxDataSize
              => Accepted(e, MaxDataSize, AllowDummyElt)
        /\ Accepted(e, MaxDataSize, AllowDummyElt) /\ MaxDataSize > 0 => accepted
    <3>. HIDE DEF id
    <3>. QED
      BY <1>1, <1>4, <1>8, BothAccept DEF accepted
  <2>2. ElementAt(data, 0) <=> Accepted(e, MaxDataSize, AllowDummyElt)
    BY <1>1, <1>8, ElementOfHead
  <2>3. Len(id) + Len(PossibleSize) = Len(data)
    BY <1>6, <1>8
  <2>. HIDE DEF e, id
  <2>. QED
    BY <2>1, <2>2, <2>3
<1>9. ASSUME ~ ended, ClassInfos \in Path[1].children, Begins(data, ClassInfos)
      PROVE  ClassInfos = id
  <2>1. /\ ClassInfos # << >> /\ ClassInfos \in Seq(Octet)
        /\ MarkedLength(Head(ClassInfos), IdMax) = Len(ClassInfos)
    BY <1>9, ContextChildren
  <2>2. Len(ClassInfos) \in Nat \ {0} /\ Len(ClassInfos) <= Len(data)
    BY <1>9, <2>1 DEF Begins
  <2>3. data[1] = Head(ClassInfos)
    BY <1>1, <1>9, <2>1, <2>2 DEF Begins
  <2>4. Len(ClassInfos) = PossibleID_Length
    BY <1>6, <1>9, <2>1, <2>3
  <2>. QED
    BY <1>9, <2>4 DEF Begins
<1>10. HeadsAgree'
  <2>1. ASSUME ~ ended', Result'.found
        PROVE  (pos = DataStart(Result))' /\ (Result.ID \o Result.coded = data)'
    <3>1. ~ ended /\ accepted
      BY <1>2, <1>5, <2>1
    <3>. QED
      BY <1>1, <1>2, <1>7, <3>1 DEF DataStart
  <2>2. ASSUME ~ ended', ClassFound', (Result.ID \in Path[1].children)',
               (pos + CodedValue(Result.coded) <= MaxDataSize)'
        PROVE  ElementAt(data, 0)'
    <3>1. ~ ended /\ accepted
      BY <1>2, <1>5, <2>2 DEF ClassFound
    <3>2. ClassInfos = id /\ id \in Path[1].children
      <4>. HIDE DEF id
      <4>. QED
        BY <1>5, <2>2, <3>1 DEF ClassFound
    <3>3. Len(data) + CodedValue(PossibleSize) <= MaxDataSize
      <4>. HIDE DEF id
      <4>. QED
        BY <1>1, <1>2, <1>5, <2>2, <3>1
    <3>4. ElementAt(data, 0)
      BY <1>8, <3>1, <3>2, <3>3
    <3>. QED
      BY <1>2, <3>4 DEF ElementAt
  <2>3. ASSUME ~ ended', (ClassInfos \in Path[1].children)', Begins(data, ClassInfos)',
               (MaxDataSize > 0)', ElementAt(data, 0)'
        PROVE  ClassFound'
    <3>1. /\ ~ ended /\ ClassInfos \in Path[1].children /\ Begins(data, ClassInfos)
          /\ MaxDataSize > 0
      BY <1>2, <2>3
    <3>2. ElementAt(data, 0)
      BY <1>2, <2>3 DEF ElementAt
    <3>3. ClassInfos = id
      BY <1>9, <3>1
    <3>4. accepted
      BY <1>8, <3>1, <3>2, <3>3
    <3>5. Result'.found /\ ~ Result'.dummy
      BY <1>5, <3>3, <3>4
    <3>. QED
      BY <3>5 DEF ClassFound
  <2>. QED
    BY <2>1, <2>2, <2>3, Zenon DEF HeadsAgree
<1>. QED
  BY <1>1, <1>2, <1>10 DEF HeadInv, NextIdInv, NextSizeInv

(* No step of the scan is one of FindNextID.                               *)
LEMMA HeadNext == HeadInv /\ [StreamNext]_streamVars => HeadInv'
<1>. SUFFICES ASSUME HeadInv, [StreamNext]_streamVars, ClassInfos' # Scan
              PROVE  HeadInv'
  BY DEF HeadInv
<1>1. ClassInfos' = ClassInfos /\ ClassInfos # Scan
  BY DEF StreamNext, FindNextElement, FindNextID, NextIdRead, NextIdNotFound,
         NextSizeRead, NextSizeTooLong, NextReturned, ScanVars, streamVars
<1>2. CASE UNCHANGED streamVars
  <2>1. /\ MaxDataSize' = MaxDataSize /\ AllowDummyElt' = AllowDummyElt
        /\ data' = data /\ pos' = pos /\ pc' = pc /\ Result' = Result
        /\ PossibleID_Length' = PossibleID_Length
        /\ PossibleSizeLength' = PossibleSizeLength
        /\ PossibleSize' = PossibleSize /\ ended' = ended
    BY <1>2 DEF streamVars, vars, parameters, locals
  <2>2. ElementAt(data, 0)' <=> ElementAt(data, 0)
    BY <2>1 DEF ElementAt
  <2>3. HeadsAgree' <=> HeadsAgree
    BY <1>1, <2>1, <2>2 DEF HeadsAgree, ClassFound
  <2>4. (NextIdInv' <=> NextIdInv) /\ (NextSizeInv' <=> NextSizeInv)
    BY <2>1 DEF NextIdInv, NextSizeInv
  <2>. QED
    BY <1>1, <2>1, <2>3, <2>4 DEF HeadInv
<1>3. CASE FindNextElement
  <2>1. pc \in {"id", "size", "created"}
    BY <1>3 DEF FindNextElement, Next, IdFound, IdRead, IdNotFound, SizeRead,
       SizeEndOfStream, SizeFound, Accept, Reject, Refused
  <2>. QED
    BY <1>1, <2>1 DEF HeadInv
<1>4. CASE FindNextID
  BY <1>1, <1>4, NextIdReadInv, NextNotFoundInv, NextSizeReadInv, NextReturnedInv
     DEF FindNextID
<1>. QED
  BY <1>2, <1>3, <1>4 DEF StreamNext

(* A call that scans takes no step of FindNextID.                          *)
ScanStays == ClassInfos = Scan => pc \in {"id", "size", "created", "done"}

(* The first step is one of the scan, or the first of FindNextID.          *)
LEMMA ScanInit == StreamInit => ScanStays
  BY DEF StreamInit, Init, Called, ScanStays

(* The steps of FindNextID begin where the scan never is.                  *)
LEMMA ScanNext == ScanStays /\ [StreamNext]_streamVars => ScanStays'
<1>. SUFFICES ASSUME ScanStays, [StreamNext]_streamVars, ClassInfos' = Scan
              PROVE  pc' \in {"id", "size", "created", "done"}
  BY DEF ScanStays
<1>1. ClassInfos = Scan /\ pc \in {"id", "size", "created", "done"}
  BY DEF StreamNext, FindNextElement, FindNextID, NextIdRead, NextIdNotFound,
         NextSizeRead, NextSizeTooLong, NextReturned, ScanVars, streamVars,
         ScanStays
<1>2. CASE UNCHANGED streamVars
  BY <1>1, <1>2 DEF streamVars, vars, locals
<1>3. CASE FindNextElement
  BY <1>3 DEF FindNextElement, Next, IdFound, IdRead, IdNotFound, SizeRead,
       SizeEndOfStream, SizeFound, Accept, Reject, ReturnNull
<1>4. CASE FindNextID
  BY <1>1, <1>4 DEF FindNextID, NextIdRead, NextIdNotFound, NextSizeRead,
       NextSizeTooLong, NextReturned, NextSizeIncomplete
<1>. QED
  BY <1>2, <1>3, <1>4 DEF StreamNext

(* The two ways to read a head agree on it: what FindNextID returns lies   *)
(* where the stream was, and for a class of the context it returns an      *)
(* element just when the scan would return that one first.                 *)
THEOREM BothHeadsAgree == StreamSpec => []HeadsAgree
<1>1. HeadInv /\ ScanStays => HeadsAgree
  BY DEF HeadInv, HeadsAgree, ScanStays
<1>. QED
  BY <1>1, HeadInit, HeadNext, ScanInit, ScanNext, PTL DEF StreamSpec
=============================================================================
