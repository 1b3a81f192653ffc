------------------------- MODULE ElementEdit_proofs -------------------------
(***************************************************************************)
(* Proofs about editing in place, for any elements, IDs, sizes and length  *)
(* of the file.                                                            *)
(***************************************************************************)
EXTENDS ElementEdit, Induction, SequenceTheorems, TLAPS

-----------------------------------------------------------------------------
(***************************************************************************)
(* Lengths of sizes, and the void element that fills so many octets.       *)
(***************************************************************************)

(* The greatest length CodedSizeLength gives unasked.                      *)
Longest == IF SizeMax < 5 THEN SizeMax ELSE 5

(* The number of masks, and of what is reserved.                           *)
LEMMA SizeFacts ==
  /\ SizeMax \in Nat \ {0} /\ Mask[1] \in Nat \ {0}
  /\ Len(AllOnes) \in Nat /\ Len(AllOnes) >= 5 /\ Len(AllOnes) >= SizeMax
  /\ \A n \in 1 .. Len(AllOnes) : AllOnes[n] \in Nat
  /\ \A n \in 1 .. Len(AllOnes) - 1 :
       AllOnes[n + 1] = Mask[1] * AllOnes[n] + Mask[1] - 1
  /\ Longest \in 1 .. 5 /\ Longest <= SizeMax
  /\ FileMax \in Nat /\ FileMax < AllOnes[Longest]
  /\ AllOnes[1] > 1 /\ Mask[1] = AllOnes[1] + 1
<1>1. Len(Mask) \in Nat /\ Len(Mask) > 0 /\ \A n \in 1 .. Len(Mask) : Mask[n] \in Nat \ {0}
  BY MaskAssumption
<1>2. Mask[1] \in Nat \ {0} /\ AllOnes[1] = Mask[1] - 1
  BY <1>1, AllOnesAssumption
<1>3. SizeMax \in Nat \ {0}
  BY <1>1 DEF SizeMax
<1>4. Longest \in 1 .. 5 /\ Longest <= SizeMax
  BY <1>3 DEF Longest
<1>5. /\ Len(AllOnes) \in Nat /\ Len(AllOnes) >= 5 /\ Len(AllOnes) >= SizeMax
      /\ \A n \in 1 .. Len(AllOnes) : AllOnes[n] \in Nat
      /\ \A n \in 1 .. Len(AllOnes) - 1 :
           AllOnes[n + 1] = Mask[1] * AllOnes[n] + Mask[1] - 1
  BY AllOnesAssumption DEF SizeMax
<1>6. FileMax \in Nat /\ FileMax < AllOnes[Longest] /\ AllOnes[1] > 1
  BY CodingAssumption, SizesAssumption DEF Longest
<1>7. Mask[1] = AllOnes[1] + 1
  BY <1>2
<1>. QED
  BY <1>2, <1>3, <1>4, <1>5, <1>6, <1>7

(* All ones of more octets is more, by one at least.                       *)
LEMMA AllOnesGrow ==
  ASSUME NEW m \in 1 .. Len(AllOnes), NEW n \in m .. Len(AllOnes)
  PROVE  AllOnes[m] + (n - m) <= AllOnes[n]
<1>. DEFINE A == {k \in 0 .. n - m : AllOnes[m] + k <= AllOnes[m + k]}
<1>1. Len(AllOnes) \in Nat /\ m \in Nat /\ n \in Nat /\ n - m \in Nat
  BY SizeFacts
<1>2. 0 \in A
  BY <1>1, SizeFacts
<1>3. ASSUME NEW k \in 1 .. n - m, k - 1 \in A
      PROVE  k \in A
  <2>1. AllOnes[m] + (k - 1) <= AllOnes[m + (k - 1)]
    BY <1>3
  <2>2. m + (k - 1) \in 1 .. Len(AllOnes) - 1 /\ (m + (k - 1)) + 1 = m + k
    BY <1>1
  <2>. DEFINE a == AllOnes[m + (k - 1)]
  <2>3. a \in Nat /\ AllOnes[m] \in Nat /\ AllOnes[m + k] = Mask[1] * a + Mask[1] - 1
    BY <2>2, SizeFacts
  <2>4. PICK d \in Nat : Mask[1] = 2 + d
    <3>1. Mask[1] \in Nat /\ AllOnes[1] \in Nat /\ Mask[1] >= 2
      BY SizeFacts
    <3>2. Mask[1] - 2 \in Nat /\ Mask[1] = 2 + (Mask[1] - 2)
      BY <3>1
    <3>. QED
      BY <3>2
  <2>. HIDE DEF a
  <2>5. Mask[1] * a = 2 * a + d * a /\ d * a \in Nat
    BY <2>3, <2>4
  <2>6. a + 1 <= AllOnes[m + k]
    BY <2>3, <2>4, <2>5
  <2>7. AllOnes[m] + k <= AllOnes[m + k]
    <3>1. AllOnes[m] + (k - 1) <= a /\ k \in Nat
      BY <2>1 DEF a
    <3>2. m + k \in 1 .. Len(AllOnes)
      BY <2>2, <1>1
    <3>3. AllOnes[m + k] \in Nat
      BY <3>2, SizeFacts
    <3>. QED
      BY <3>1, <3>3, <2>3, <2>6
  <2>. QED
    BY <2>7
<1>. HIDE DEF A
<1>4. \A k \in 0 .. n - m : k \in A
  BY <1>1, <1>2, <1>3, UpTo
<1>5. n - m \in A
  BY <1>1, <1>4
<1>6. m + (n - m) = n
  BY <1>1
<1>. QED
  BY <1>5, <1>6 DEF A

(* The fewest octets for a size, and what they hold.                       *)
Shortest(size) == CodedSizeLength(size, 0, TRUE)

IsShortest(n, size) ==
  /\ n \in 1 .. Longest /\ size < AllOnes[n]
  /\ n > 1 => size >= AllOnes[n - 1]

(* The fewest octets are as many as a size needs; more are used if asked.  *)
LEMMA ShortestIs ==
  ASSUME NEW size \in 0 .. FileMax
  PROVE  /\ IsShortest(Shortest(size), size)
         /\ \A length \in 0 .. SizeMax :
              CodedSizeLength(size, length, TRUE)
                = IF Shortest(size) < length THEN length ELSE Shortest(size)
<1>1. /\ AllOnes[1] \in Nat /\ AllOnes[2] \in Nat /\ AllOnes[3] \in Nat
      /\ AllOnes[4] \in Nat /\ AllOnes[5] \in Nat
  BY SizeFacts
<1>2. /\ AllOnes[1] <= AllOnes[2] /\ AllOnes[2] <= AllOnes[3]
      /\ AllOnes[3] <= AllOnes[4] /\ AllOnes[4] <= AllOnes[5]
  <2>0. Len(AllOnes) \in Nat /\ Len(AllOnes) >= 5
    BY SizeFacts
  <2>1. \A n \in 1 .. 4 : n \in 1 .. Len(AllOnes) /\ n + 1 \in n .. Len(AllOnes)
    BY <2>0
  <2>2. ASSUME NEW n \in 1 .. 4
        PROVE  AllOnes[n] <= AllOnes[n + 1]
    <3>1. AllOnes[n] + ((n + 1) - n) <= AllOnes[n + 1]
      BY <2>1, AllOnesGrow
    <3>2. AllOnes[n] \in Nat /\ AllOnes[n + 1] \in Nat
      <4>1. n \in 1 .. Len(AllOnes) /\ n + 1 \in 1 .. Len(AllOnes)
        BY <2>0
      <4>. QED
        BY <4>1, SizeFacts
    <3>. QED
      BY <3>1, <3>2
  <2>3. AllOnes[1] <= AllOnes[1 + 1] /\ AllOnes[2] <= AllOnes[2 + 1]
        /\ AllOnes[3] <= AllOnes[3 + 1] /\ AllOnes[4] <= AllOnes[4 + 1]
    BY <2>2
  <2>. QED
    BY <2>3
<1>3. size \in Nat /\ size < AllOnes[Longest] /\ Longest \in 1 .. 5
  <2>1. FileMax \in Nat /\ FileMax < AllOnes[Longest] /\ Longest \in 1 .. 5
    BY SizeFacts
  <2>2. AllOnes[Longest] \in Nat
    BY <2>1, SizeFacts
  <2>. QED
    BY <2>1, <2>2
<1>4. Longest = 1 \/ Longest = 2 \/ Longest = 3 \/ Longest = 4 \/ Longest = 5
  BY <1>3
<1>. DEFINE n == Shortest(size)
<1>5. /\ n \in 1 .. 5 /\ (n < 5 => size < AllOnes[n])
      /\ n > 1 => size >= AllOnes[n - 1]
  BY <1>1, <1>2, <1>3 DEF Shortest, CodedSizeLength
<1>6. n <= Longest /\ size < AllOnes[n]
  <2>. HIDE DEF n
  <2>1. n = 1 \/ n = 2 \/ n = 3 \/ n = 4 \/ n = 5
    BY <1>5
  <2>. QED
    BY <1>1, <1>2, <1>3, <1>4, <1>5, <2>1
<1>7. ASSUME NEW length \in 0 .. SizeMax
      PROVE  CodedSizeLength(size, length, TRUE) = IF n < length THEN length ELSE n
  <2>1. length \in Nat
    BY SizeFacts
  <2>. QED
    BY <1>1, <1>3, <2>1 DEF Shortest, CodedSizeLength
<1>8. IsShortest(n, size)
  <2>. HIDE DEF n
  <2>. QED
    BY <1>3, <1>5, <1>6 DEF IsShortest
<1>. QED
  BY <1>7, <1>8

(* A size that is not greater takes no more octets.                        *)
LEMMA ShortestGrows ==
  ASSUME NEW a \in 0 .. FileMax, NEW b \in a .. FileMax
  PROVE  Shortest(a) <= Shortest(b)
<1>. DEFINE m == Shortest(a)
            n == Shortest(b)
<1>1. a \in Nat /\ b \in Nat /\ a <= b /\ b \in 0 .. FileMax
  BY SizeFacts
<1>2. IsShortest(m, a) /\ IsShortest(n, b)
  BY <1>1, ShortestIs
<1>3. m \in Nat /\ n \in Nat /\ 1 <= n /\ m <= Len(AllOnes) /\ Len(AllOnes) \in Nat
  BY <1>2, SizeFacts DEF IsShortest
<1>. HIDE DEF m, n
<1>4. ASSUME m > n
      PROVE  FALSE
  <2>1. n \in 1 .. Len(AllOnes) /\ m - 1 \in n .. Len(AllOnes) /\ m > 1
    BY <1>3, <1>4
  <2>2. AllOnes[n] + (m - 1 - n) <= AllOnes[m - 1]
    BY <2>1, AllOnesGrow
  <2>3. AllOnes[n] \in Nat /\ AllOnes[m - 1] \in Nat
    <3>1. m - 1 \in 1 .. Len(AllOnes)
      BY <1>3, <2>1
    <3>. QED
      BY <2>1, <3>1, SizeFacts
  <2>4. a >= AllOnes[m - 1] /\ b < AllOnes[n]
    BY <1>2, <2>1 DEF IsShortest
  <2>. QED
    BY <1>1, <1>3, <1>4, <2>2, <2>3, <2>4
<1>. QED
  BY <1>3, <1>4 DEF m, n

(* A size takes fewer octets than it has.                                  *)
LEMMA ShortestIsShort ==
  ASSUME NEW size \in 0 .. FileMax
  PROVE  Shortest(size) <= (IF size = 0 THEN 1 ELSE size)
<1>. DEFINE n == Shortest(size)
<1>1. IsShortest(n, size) /\ size \in Nat
  <2>1. IsShortest(n, size)
    BY ShortestIs
  <2>2. size \in Nat
    BY SizeFacts
  <2>. QED
    BY <2>1, <2>2
<1>2. n \in Nat /\ n >= 1 /\ n <= Len(AllOnes) /\ Len(AllOnes) \in Nat
  BY <1>1, SizeFacts DEF IsShortest
<1>. HIDE DEF n
<1>3. CASE n = 1
  BY <1>1, <1>3 DEF n
<1>4. CASE n > 1
  <2>1. 1 \in 1 .. Len(AllOnes) /\ n - 1 \in 1 .. Len(AllOnes)
    BY <1>2, <1>4
  <2>2. AllOnes[1] + (n - 1 - 1) <= AllOnes[n - 1]
    BY <2>1, AllOnesGrow
  <2>3. AllOnes[1] \in Nat /\ AllOnes[1] > 1 /\ AllOnes[n - 1] \in Nat
    BY <2>1, SizeFacts
  <2>4. size >= AllOnes[n - 1]
    BY <1>1, <1>4 DEF IsShortest
  <2>. QED
    BY <1>1, <1>2, <2>2, <2>3, <2>4 DEF n
<1>. QED
  BY <1>2, <1>3, <1>4

(* What an object keeps.                                                   *)
ObjectState ==
  [Size : 0 .. FileMax, SizeLength : 0 .. SizeMax, bSizeIsFinite : BOOLEAN,
   ElementPosition : 0 .. FileMax, SizePosition : 0 .. FileMax, value : 0 .. 1]

(* The size in the head of an element of known size is one the octets of   *)
(* its code can hold.                                                      *)
LEMMA SizeFits ==
  ASSUME NEW size \in 0 .. FileMax, NEW length \in 0 .. SizeMax
  PROVE  /\ CodedSizeLength(size, length, TRUE) \in 1 .. SizeMax
         /\ size < AllOnes[CodedSizeLength(size, length, TRUE)]
<1>. DEFINE m == Shortest(size)
            n == CodedSizeLength(size, length, TRUE)
<1>1. IsShortest(m, size) /\ n = IF m < length THEN length ELSE m
  BY ShortestIs
<1>2. /\ m \in 1 .. Longest /\ size < AllOnes[m] /\ size \in Nat /\ length \in Nat
      /\ Longest \in Nat /\ Longest <= SizeMax /\ SizeMax \in Nat
      /\ SizeMax <= Len(AllOnes) /\ Len(AllOnes) \in Nat
  BY <1>1, SizeFacts DEF IsShortest
<1>. HIDE DEF m, n
<1>3. n \in 1 .. SizeMax /\ m \in 1 .. Len(AllOnes) /\ n \in m .. Len(AllOnes)
  BY <1>1, <1>2
<1>4. AllOnes[m] + (n - m) <= AllOnes[n]
  BY <1>3, AllOnesGrow
<1>5. AllOnes[m] \in Nat /\ AllOnes[n] \in Nat
  <2>1. n \in 1 .. Len(AllOnes)
    BY <1>2, <1>3
  <2>. QED
    BY <1>3, <2>1, SizeFacts
<1>6. size < AllOnes[n]
  BY <1>2, <1>3, <1>4, <1>5
<1>. QED
  BY <1>3, <1>6, Zenon DEF n

(* The length of the size of a void element that fills so many octets.     *)
VoidLength(full) == Shortest(full - 2)

(* SetVoidSize fills the octets it is given exactly, and the length it     *)
(* asks for is the one its size is written with.                           *)
LEMMA VoidFills ==
  ASSUME NEW full \in 2 .. FileMax, NEW o
  PROVE  /\ VoidLength(full) \in 1 .. SizeMax /\ VoidLength(full) < full
         /\ full > 2 => VoidLength(full) < full - 1
         /\ SetVoidSize(o, full) = [o EXCEPT !.SizeLength = VoidLength(full),
                                             !.Size = full - VoidLength(full) - 1]
         /\ CodedSizeLength(full - VoidLength(full) - 1, VoidLength(full), TRUE)
              = VoidLength(full)
<1>. DEFINE i == VoidLength(full)
            d == full - i - 1
            n == Shortest(d)
<1>1. full \in Nat /\ full >= 2 /\ full - 2 \in 0 .. FileMax /\ FileMax \in Nat
  BY SizeFacts
<1>2. i \in 1 .. Longest /\ i <= (IF full - 2 = 0 THEN 1 ELSE full - 2)
  BY <1>1, ShortestIs, ShortestIsShort DEF IsShortest, VoidLength
<1>3. /\ i \in 1 .. SizeMax /\ i < full /\ (full > 2 => i < full - 1)
      /\ i \in Nat /\ i >= 1
  BY <1>1, <1>2, SizeFacts
<1>4. d \in 0 .. FileMax /\ full - 2 \in d .. FileMax
  BY <1>1, <1>3
<1>5. n \in Nat /\ n >= 1 /\ n <= i
  <2>1. n <= i
    BY <1>4, ShortestGrows DEF VoidLength
  <2>2. n \in 1 .. Longest
    BY <1>4, ShortestIs DEF IsShortest
  <2>. QED
    BY <2>1, <2>2, SizeFacts
<1>6. CodedSizeLength(d, i, TRUE) = i
  <2>1. CodedSizeLength(d, i, TRUE) = IF n < i THEN i ELSE n
    <3>1. i \in 0 .. SizeMax
      BY <1>3, SizeFacts
    <3>. QED
      BY <1>4, <3>1, ShortestIs
  <2>. DEFINE c == CodedSizeLength(d, i, TRUE)
  <2>2. c = IF n < i THEN i ELSE n
    BY <2>1
  <2>. HIDE DEF i, d, n, c
  <2>3. c = i
    BY <1>3, <1>5, <2>2
  <2>. QED
    BY <2>3, Zenon DEF c
<1>7. SetVoidSize(o, full) = [o EXCEPT !.SizeLength = i, !.Size = d]
  <2>1. SetVoidSize(o, full) =
          CASE 1 + n + d < full -> [o EXCEPT !.SizeLength = full - (d + 1), !.Size = d]
            [] 1 + n + d > full -> [o EXCEPT !.SizeLength = n, !.Size = full - (n + 1)]
            [] OTHER -> [o EXCEPT !.SizeLength = n, !.Size = d]
    BY DEF SetVoidSize, Shortest, VoidLength
  <2>2. d = full - i - 1 /\ full - (d + 1) = i
    BY <1>1, <1>3
  <2>. HIDE DEF i, d, n
  <2>3. CASE n < i
    <3>1. 1 + n + d < full /\ ~ (1 + n + d > full)
      BY <1>1, <1>3, <1>5, <2>2, <2>3
    <3>2. SetVoidSize(o, full) = [o EXCEPT !.SizeLength = full - (d + 1), !.Size = d]
      BY <2>1, <3>1, Zenon
    <3>. QED
      BY <2>2, <3>2, Zenon
  <2>4. CASE n = i
    <3>1. ~ (1 + n + d < full) /\ ~ (1 + n + d > full)
      BY <1>1, <1>3, <1>5, <2>2, <2>4
    <3>. QED
      BY <2>1, <2>4, <3>1
  <2>. QED
    BY <1>3, <1>5, <2>3, <2>4
<1>. QED
  BY <1>3, <1>6, <1>7

-----------------------------------------------------------------------------
(***************************************************************************)
(* Octets in the file.                                                     *)
(***************************************************************************)

(* The octets w are in f behind `at`.                                      *)
WrittenAt(f, at, w) ==
  at + Len(w) <= Len(f) /\ \A i \in 1 .. Len(w) : f[at + i] = w[i]

(* From a + 1 to b the octets are the same.                                *)
Agree(f, g, a, b) == \A i \in a + 1 .. b : g[i] = f[i]

Anything == Object \cup {Filler}

(* IDs have octets, and no element is two things.                          *)
LEMMA IdFacts ==
  /\ \A e \in Anything : ID_LENGTH[e] \in Nat \ {0} /\ ClassId(e) \in Anything
  /\ \A v \in Voids \cup {Filler} : ID_LENGTH[v] = 1 /\ ClassId(v) = Filler
  /\ Filler \in Anything /\ Filler \notin Object /\ Master \in Object
  /\ \A e \in Leaves \cup Voids : e \in Object /\ e # Master /\ e # Filler
  /\ \A e \in Leaves : e \notin Voids
<1>1. IdMax \in Nat \ {0}
  <2>1. Len(Mask) \in Nat
    BY MaskAssumption
  <2>. QED
    BY <2>1, IdMaxAssumption
<1>2. \A e \in Anything : ID_LENGTH[e] \in 1 .. IdMax
  BY ObjectAssumption DEF Anything
<1>. QED
  BY <1>1, <1>2, ObjectAssumption DEF Anything, Object, ClassId

AreOctets(w, n) == w \in Seq(FileOctet) /\ Len(w) = n

(* Octets makes n octets of the file.                                      *)
LEMMA OctetsAre ==
  ASSUME NEW e \in Anything, NEW n \in Nat, NEW value \in Nat
  PROVE  /\ AreOctets(Octets("id", e, n, 0), n)
         /\ AreOctets(Octets("size", e, n, value), n)
         /\ AreOctets(Octets("data", e, n, value), n)
<1>1. ASSUME NEW kind \in {"id", "size", "data"}, NEW v \in Nat
      PROVE  AreOctets(Octets(kind, e, n, v), n)
  <2>. DEFINE octet(i) == [kind |-> kind, of |-> e, index |-> i, length |-> n,
                           value |-> v]
              w == [i \in 1 .. n |-> octet(i)]
  <2>1. \A i \in 1 .. n : octet(i) \in FileOctet
    BY DEF FileOctet, Anything
  <2>. HIDE DEF octet
  <2>2. w \in Seq(FileOctet) /\ Len(w) = n
    BY <2>1
  <2>. USE DEF octet
  <2>3. Octets(kind, e, n, v) = w
    BY DEF Octets
  <2>. HIDE DEF w
  <2>. QED
    BY <2>2, <2>3 DEF AreOctets
<1>2. \A kind \in {"id", "size", "data"}, v \in Nat : AreOctets(Octets(kind, e, n, v), n)
  BY <1>1
<1>3. 0 \in Nat /\ "id" \in {"id", "size", "data"} /\ "size" \in {"id", "size", "data"}
      /\ "data" \in {"id", "size", "data"}
  OBVIOUS
<1>. QED
  BY <1>2, <1>3, Zenon

(* What is written one after the other is one behind the other.            *)
LEMMA WrittenParts ==
  ASSUME NEW S, NEW f \in Seq(S), NEW a \in Seq(S), NEW b \in Seq(S), NEW at \in Nat,
         WrittenAt(f, at, a \o b)
  PROVE  WrittenAt(f, at, a) /\ WrittenAt(f, at + Len(a), b)
<1>1. /\ Len(a) \in Nat /\ Len(b) \in Nat /\ Len(f) \in Nat
      /\ Len(a \o b) = Len(a) + Len(b)
      /\ \A i \in 1 .. Len(a) : (a \o b)[i] = a[i]
      /\ \A i \in 1 .. Len(b) : (a \o b)[Len(a) + i] = b[i]
  <2>1. Len(a) \in Nat /\ Len(b) \in Nat /\ Len(f) \in Nat
    OBVIOUS
  <2>2. /\ Len(a \o b) = Len(a) + Len(b)
        /\ \A i \in 1 .. Len(a) + Len(b) :
             (a \o b)[i] = IF i <= Len(a) THEN a[i] ELSE b[i - Len(a)]
    BY ConcatProperties
  <2>3. ASSUME NEW i \in 1 .. Len(b)
        PROVE  (a \o b)[Len(a) + i] = b[i]
    <3>1. /\ Len(a) + i \in 1 .. Len(a) + Len(b) /\ ~ (Len(a) + i <= Len(a))
          /\ (Len(a) + i) - Len(a) = i
      BY <2>1
    <3>. QED
      BY <2>2, <3>1
  <2>4. ASSUME NEW i \in 1 .. Len(a)
        PROVE  (a \o b)[i] = a[i]
    <3>1. i \in 1 .. Len(a) + Len(b) /\ i <= Len(a)
      BY <2>1
    <3>. QED
      BY <2>2, <3>1
  <2>. QED
    BY <2>1, <2>2, <2>3, <2>4
<1>2. /\ at + (Len(a) + Len(b)) <= Len(f)
      /\ \A i \in 1 .. Len(a) + Len(b) : f[at + i] = (a \o b)[i]
  BY <1>1 DEF WrittenAt
<1>3. ASSUME NEW i \in 1 .. Len(a)
      PROVE  f[at + i] = a[i]
  <2>1. i \in 1 .. Len(a) + Len(b)
    BY <1>1
  <2>. QED
    BY <1>1, <1>2, <2>1
<1>4. ASSUME NEW i \in 1 .. Len(b)
      PROVE  f[at + Len(a) + i] = b[i]
  <2>1. Len(a) + i \in 1 .. Len(a) + Len(b) /\ at + (Len(a) + i) = at + Len(a) + i
    BY <1>1
  <2>2. f[at + (Len(a) + i)] = (a \o b)[Len(a) + i]
    BY <1>2, <2>1
  <2>. QED
    BY <1>1, <2>1, <2>2
<1>5. at + Len(a) <= Len(f) /\ at + Len(a) + Len(b) <= Len(f)
  BY <1>1, <1>2
<1>. QED
  BY <1>3, <1>4, <1>5 DEF WrittenAt

(* What is written somewhere is what is read there.                        *)
LEMMA WrittenIsRead ==
  ASSUME NEW S, NEW f \in Seq(S), NEW w \in Seq(S), NEW at \in Nat, NEW end \in Nat,
         end = at + Len(w), end <= Len(f)
  PROVE  SubSeq(f, at + 1, end) = w <=> WrittenAt(f, at, w)
<1>. DEFINE r == SubSeq(f, at + 1, end)
<1>1. Len(w) \in Nat /\ Len(f) \in Nat /\ \A i \in 1 .. Len(f) : f[i] \in S
  OBVIOUS
<1>2. /\ r \in Seq(S) /\ Len(r) = Len(w)
      /\ \A i \in 1 .. Len(w) : r[i] = f[at + i]
  <2>1. \A i \in at + 1 .. end : f[i] \in S
    BY <1>1
  <2>2. /\ r \in Seq(S) /\ Len(r) = IF at + 1 <= end THEN end - (at + 1) + 1 ELSE 0
        /\ \A i \in 1 .. end - (at + 1) + 1 : r[i] = f[at + 1 + i - 1]
    BY <2>1, SubSeqProperties
  <2>3. end - (at + 1) + 1 = Len(w)
    BY <1>1
  <2>4. Len(r) = Len(w)
    BY <1>1, <2>2, <2>3
  <2>5. ASSUME NEW i \in 1 .. Len(w)
        PROVE  r[i] = f[at + i]
    <3>1. at + 1 + i - 1 = at + i
      OBVIOUS
    <3>. QED
      BY <2>2, <2>3, <3>1
  <2>. QED
    BY <2>2, <2>4, <2>5
<1>. HIDE DEF r
<1>3. ASSUME WrittenAt(f, at, w)
      PROVE  r = w
  <2>1. \A i \in 1 .. Len(r) : r[i] = w[i]
    BY <1>2, <1>3 DEF WrittenAt
  <2>. QED
    BY <1>2, <2>1, SeqEqual
<1>4. ASSUME r = w
      PROVE  WrittenAt(f, at, w)
  BY <1>2, <1>4 DEF WrittenAt
<1>. QED
  BY <1>3, <1>4 DEF r

(* Where the octets are the same, the same is read.                        *)
LEMMA SameIsRead ==
  ASSUME NEW S, NEW f \in Seq(S), NEW g \in Seq(S), NEW a \in Nat, NEW b \in Nat,
         b <= Len(f), b <= Len(g), Agree(f, g, a, b)
  PROVE  SubSeq(g, a + 1, b) = SubSeq(f, a + 1, b)
<1>. DEFINE r == SubSeq(f, a + 1, b)
            t == SubSeq(g, a + 1, b)
            n == IF a + 1 <= b THEN b - (a + 1) + 1 ELSE 0
<1>1. /\ Len(f) \in Nat /\ \A i \in 1 .. Len(f) : f[i] \in S
      /\ Len(g) \in Nat /\ \A i \in 1 .. Len(g) : g[i] \in S
  OBVIOUS
<1>2. (\A i \in a + 1 .. b : f[i] \in S) /\ (\A i \in a + 1 .. b : g[i] \in S)
  BY <1>1
<1>3. /\ r \in Seq(S) /\ Len(r) = n
      /\ \A i \in 1 .. b - (a + 1) + 1 : r[i] = f[a + 1 + i - 1]
  BY <1>2, SubSeqProperties
<1>4. /\ t \in Seq(S) /\ Len(t) = n
      /\ \A i \in 1 .. b - (a + 1) + 1 : t[i] = g[a + 1 + i - 1]
  BY <1>2, SubSeqProperties
<1>5. ASSUME NEW i \in 1 .. n
      PROVE  t[i] = r[i]
  <2>1. i \in 1 .. b - (a + 1) + 1 /\ a + 1 + i - 1 \in a + 1 .. b
    OBVIOUS
  <2>2. g[a + 1 + i - 1] = f[a + 1 + i - 1]
    BY <2>1 DEF Agree
  <2>. QED
    BY <1>3, <1>4, <2>1, <2>2
<1>. HIDE DEF r, t, n
<1>6. t = r
  BY <1>3, <1>4, <1>5, SeqEqual
<1>. QED
  BY <1>6 DEF r, t

(* What Overlay does to a file.                                            *)
LEMMA OverlayIs ==
  ASSUME NEW S, NEW f \in Seq(S), NEW w \in Seq(S), NEW at \in 0 .. Len(f)
  PROVE  LET g == Overlay(f, at, w)
         IN  /\ g \in Seq(S)
             /\ Len(g) = IF Len(f) < at + Len(w) THEN at + Len(w) ELSE Len(f)
             /\ WrittenAt(g, at, w)
             /\ Agree(f, g, 0, at) /\ Agree(f, g, at + Len(w), Len(f))
<1>. DEFINE end == at + Len(w)
            n == IF Len(f) < end THEN end ELSE Len(f)
            octet(i) == IF i > at /\ i <= end THEN w[i - at] ELSE f[i]
            g == [i \in 1 .. n |-> octet(i)]
<1>1. /\ Len(w) \in Nat /\ \A i \in 1 .. Len(w) : w[i] \in S
      /\ Len(f) \in Nat /\ \A i \in 1 .. Len(f) : f[i] \in S
      /\ at \in Nat /\ at <= Len(f)
  OBVIOUS
<1>2. end \in Nat /\ n \in Nat /\ n >= end /\ n >= Len(f)
  BY <1>1
<1>3. ASSUME NEW i \in 1 .. n
      PROVE  octet(i) \in S
  <2>1. CASE i > at /\ i <= end
    <3>1. i - at \in 1 .. Len(w)
      BY <1>1, <2>1
    <3>. QED
      BY <1>1, <2>1, <3>1
  <2>2. CASE ~ (i > at /\ i <= end)
    <3>1. i \in 1 .. Len(f)
      BY <1>1, <1>2, <2>2
    <3>. QED
      BY <1>1, <2>2, <3>1
  <2>. QED
    BY <2>1, <2>2
<1>4. g \in Seq(S) /\ Len(g) = n /\ \A i \in 1 .. n : g[i] = octet(i)
  <2>. HIDE DEF octet, n
  <2>. QED
    BY <1>2, <1>3
<1>5. Overlay(f, at, w) = g
  BY DEF Overlay
<1>. HIDE DEF g
<1>6. WrittenAt(g, at, w)
  <2>1. ASSUME NEW i \in 1 .. Len(w)
        PROVE  g[at + i] = w[i]
    <3>1. at + i \in 1 .. n /\ at + i > at /\ at + i <= end /\ (at + i) - at = i
      BY <1>1, <1>2
    <3>. QED
      BY <1>4, <3>1
  <2>2. at + Len(w) <= Len(g)
    BY <1>1, <1>2, <1>4
  <2>. QED
    BY <2>1, <2>2 DEF WrittenAt
<1>7. Agree(f, g, 0, at)
  <2>1. ASSUME NEW i \in 0 + 1 .. at
        PROVE  g[i] = f[i]
    <3>1. i \in 1 .. n /\ ~ (i > at)
      BY <1>1, <1>2
    <3>. QED
      BY <1>4, <3>1
  <2>. QED
    BY <2>1 DEF Agree
<1>8. Agree(f, g, end, Len(f))
  <2>1. ASSUME NEW i \in end + 1 .. Len(f)
        PROVE  g[i] = f[i]
    <3>1. i \in 1 .. n /\ ~ (i <= end)
      BY <1>1, <1>2
    <3>. QED
      BY <1>4, <3>1
  <2>. QED
    BY <2>1 DEF Agree
<1>. QED
  BY <1>4, <1>5, <1>6, <1>7, <1>8

-----------------------------------------------------------------------------
(***************************************************************************)
(* Heads in the file.                                                      *)
(***************************************************************************)

(* The octets of a head, and how many they are.                            *)
LEMMA HeadIs ==
  ASSUME NEW e \in Anything, NEW o, o.Size \in Nat, SizeOctets(o) \in Nat \ {0}
  PROVE  /\ Head_(e, o) \in Seq(FileOctet) /\ Len(Head_(e, o)) = HeadSize(e, o)
         /\ HeadSize(e, o) = ID_LENGTH[e] + SizeOctets(o) /\ HeadSize(e, o) \in Nat
         /\ HeadSize(e, o) >= 2
<1>. DEFINE a == Octets("id", ClassId(e), ID_LENGTH[e], 0)
            b == Octets("size", ClassId(e), SizeOctets(o), o.Size)
<1>1. ClassId(e) \in Anything /\ ID_LENGTH[e] \in Nat \ {0}
  BY IdFacts
<1>2. SizeOctets(o) \in Nat \ {0}
  OBVIOUS
<1>3. a \in Seq(FileOctet) /\ Len(a) = ID_LENGTH[e]
  <2>1. ID_LENGTH[e] \in Nat /\ 0 \in Nat
    BY <1>1
  <2>. QED
    BY <1>1, <2>1, OctetsAre, Zenon DEF AreOctets
<1>4. b \in Seq(FileOctet) /\ Len(b) = SizeOctets(o)
  <2>1. SizeOctets(o) \in Nat /\ o.Size \in Nat
    BY <1>2
  <2>2. AreOctets(b, SizeOctets(o))
    BY <1>1, <2>1, OctetsAre, Zenon
  <2>. QED
    BY <2>2, Zenon DEF AreOctets
<1>5. Head_(e, o) = a \o b /\ HeadSize(e, o) = ID_LENGTH[e] + SizeOctets(o)
  BY DEF Head_, HeadSize
<1>. HIDE DEF a, b
<1>6. a \o b \in Seq(FileOctet) /\ Len(a \o b) = Len(a) + Len(b)
  BY <1>3, <1>4, ConcatProperties
<1>. QED
  BY <1>1, <1>2, <1>3, <1>4, <1>5, <1>6

(* The octet is the first of a size of e, of n octets.                     *)
IsCode(octet, e, n) == octet.of = ClassId(e) /\ octet.length = n

(* A head that was written is found, for an element of its size and the    *)
(* head's together.                                                        *)
LEMMA HeadIsRead ==
  ASSUME NEW f \in Seq(FileOctet), NEW at \in Nat, NEW e \in Anything, NEW o,
         o.Size \in Nat, SizeOctets(o) \in 1 .. SizeMax,
         o.Size # AllOnes[SizeOctets(o)], WrittenAt(f, at, Head_(e, o))
  PROVE  /\ HoldsHead(f, at, e, ElementSize(e, o))
         /\ IsCode(f[at + ID_LENGTH[e] + 1], e, SizeOctets(o))
<1>. DEFINE k == ID_LENGTH[e]
            n == SizeOctets(o)
            a == Octets("id", ClassId(e), k, 0)
            b == Octets("size", ClassId(e), n, o.Size)
            size == f[at + k + 1]
<1>1. ClassId(e) \in Anything /\ k \in Nat \ {0}
  BY IdFacts
<1>2. n \in Nat \ {0}
  BY SizeFacts
<1>3. a \in Seq(FileOctet) /\ Len(a) = k
  <2>1. k \in Nat /\ 0 \in Nat
    BY <1>1
  <2>. QED
    BY <1>1, <2>1, OctetsAre, Zenon DEF AreOctets
<1>4. b \in Seq(FileOctet) /\ Len(b) = n
  <2>1. n \in Nat
    BY <1>2
  <2>. QED
    BY <1>1, <2>1, OctetsAre, Zenon DEF AreOctets
<1>5. WrittenAt(f, at, a) /\ WrittenAt(f, at + k, b)
  <2>1. Head_(e, o) = a \o b
    BY DEF Head_
  <2>. HIDE DEF a, b
  <2>2. WrittenAt(f, at, a \o b)
    BY <2>1
  <2>. QED
    BY <1>3, <1>4, <2>2, WrittenParts
<1>6. at + k + n <= Len(f) /\ Len(f) \in Nat /\ at + k < Len(f) /\ at + k <= Len(f)
  <2>1. at + k + n <= Len(f) /\ Len(f) \in Nat
    BY <1>4, <1>5 DEF WrittenAt
  <2>. QED
    BY <1>1, <1>2, <2>1
<1>7. size = [kind |-> "size", of |-> ClassId(e), index |-> 1, length |-> n,
              value |-> o.Size]
  <2>1. 1 \in 1 .. n
    BY <1>2
  <2>2. size = b[1]
    <3>. HIDE DEF b
    <3>. QED
      BY <1>4, <1>5, <2>1 DEF WrittenAt
  <2>. QED
    BY <2>1, <2>2 DEF Octets
<1>8. /\ size.kind = "size" /\ size.of = ClassId(e) /\ size.length = n
      /\ size.value = o.Size
  BY <1>7
<1>9. SubSeq(f, at + 1, at + k) = a
  <2>. DEFINE end == at + k
  <2>. HIDE DEF a, k
  <2>1. end \in Nat /\ end = at + Len(a) /\ end <= Len(f)
    BY <1>1, <1>3, <1>6
  <2>. HIDE DEF end
  <2>2. SubSeq(f, at + 1, end) = a
    BY <1>3, <1>5, <2>1, WrittenIsRead
  <2>. QED
    BY <2>2 DEF end
<1>10. SubSeq(f, at + k + 1, at + k + n) = b
  <2>. DEFINE start == at + k
              end == start + n
  <2>. HIDE DEF b, k, n
  <2>1. start \in Nat /\ end \in Nat /\ end <= Len(f) /\ end = start + Len(b)
    BY <1>1, <1>2, <1>4, <1>6
  <2>2. WrittenAt(f, start, b)
    BY <1>5
  <2>. HIDE DEF start, end
  <2>3. SubSeq(f, start + 1, end) = b
    BY <1>4, <2>1, <2>2, WrittenIsRead
  <2>. QED
    BY <2>3 DEF start, end
<1>11. ElementSize(e, o) = k + n + o.Size
  BY <1>1, <1>2 DEF ElementSize, HeadSize
<1>. HIDE DEF n, k
<1>. QED
  BY <1>6, <1>8, <1>9, <1>10, <1>11, Zenon DEF HoldsHead, IsCode, n, k

(* A head stays where its octets do.                                       *)
LEMMA HeadStays ==
  ASSUME NEW f \in Seq(FileOctet), NEW g \in Seq(FileOctet), Len(f) <= Len(g),
         NEW at \in Nat, NEW e \in Anything, NEW full, HoldsHead(f, at, e, full),
         NEW end \in Nat, Agree(f, g, at, end),
         at + ID_LENGTH[e] + f[at + ID_LENGTH[e] + 1].length <= end
  PROVE  /\ HoldsHead(g, at, e, full)
         /\ g[at + ID_LENGTH[e] + 1] = f[at + ID_LENGTH[e] + 1]
<1>. DEFINE k == ID_LENGTH[e]
            size == f[at + k + 1]
<1>1. /\ at + k < Len(f)
      /\ SubSeq(f, at + 1, at + k) = Octets("id", ClassId(e), k, 0)
      /\ size.kind = "size" /\ at + k + size.length <= Len(f)
      /\ SubSeq(f, at + k + 1, at + k + size.length)
           = Octets("size", size.of, size.length, size.value)
      /\ size.value # AllOnes[size.length]
      /\ k + size.length + size.value = full
  BY DEF HoldsHead
<1>2. Len(f) \in Nat /\ Len(g) \in Nat /\ k \in Nat \ {0}
  BY IdFacts
<1>3. size.length \in Nat \ {0}
  <2>1. at + k + 1 \in 1 .. Len(f)
    <3>. HIDE DEF k, size
    <3>1. at + k < Len(f)
      BY <1>1
    <3>. QED
      BY <1>2, <3>1
  <2>2. size \in FileOctet
    BY <2>1
  <2>. QED
    BY <2>2 DEF FileOctet
<1>. HIDE DEF k
<1>. DEFINE n == size.length
<1>4. at + k + n <= end /\ n \in Nat \ {0} /\ at + k + n <= Len(f)
  BY <1>1, <1>3 DEF k
<1>5. g[at + k + 1] = size
  <2>1. at + k + 1 \in at + 1 .. end
    <3>. HIDE DEF n, size
    <3>. QED
      BY <1>2, <1>4
  <2>. QED
    BY <2>1 DEF Agree
<1>. HIDE DEF n, size
<1>6. SubSeq(g, at + 1, at + k) = SubSeq(f, at + 1, at + k)
  <2>1. /\ at + k \in Nat /\ at + k <= Len(f) /\ at + k <= Len(g)
        /\ \A i \in at + 1 .. at + k : i \in at + 1 .. end
    BY <1>2, <1>4
  <2>2. Agree(f, g, at, at + k)
    BY <2>1 DEF Agree
  <2>. QED
    BY <2>1, <2>2, SameIsRead
<1>7. SubSeq(g, at + k + 1, at + k + n) = SubSeq(f, at + k + 1, at + k + n)
  <2>. DEFINE start == at + k
              stop == start + n
  <2>1. /\ start \in Nat /\ stop \in Nat /\ stop <= Len(f) /\ stop <= Len(g)
        /\ \A i \in start + 1 .. stop : i \in at + 1 .. end
    BY <1>2, <1>4
  <2>. HIDE DEF start, stop
  <2>2. Agree(f, g, start, stop)
    BY <2>1 DEF Agree
  <2>3. \A a \in Nat, b \in Nat :
          b <= Len(f) /\ b <= Len(g) /\ Agree(f, g, a, b) =>
            SubSeq(g, a + 1, b) = SubSeq(f, a + 1, b)
    BY SameIsRead
  <2>4. SubSeq(g, start + 1, stop) = SubSeq(f, start + 1, stop)
    BY <2>1, <2>2, <2>3
  <2>. QED
    BY <2>4 DEF start, stop
<1>8. at + k < Len(g) /\ at + k + n <= Len(g)
  BY <1>1, <1>2, <1>4
<1>9. HoldsHead(g, at, e, full)
  <2>1. /\ at + k < Len(g)
        /\ SubSeq(g, at + 1, at + k) = Octets("id", ClassId(e), k, 0)
        /\ g[at + k + 1].kind = "size" /\ at + k + g[at + k + 1].length <= Len(g)
        /\ SubSeq(g, at + k + 1, at + k + g[at + k + 1].length)
             = Octets("size", g[at + k + 1].of, g[at + k + 1].length,
                      g[at + k + 1].value)
        /\ g[at + k + 1].value # AllOnes[g[at + k + 1].length]
        /\ k + g[at + k + 1].length + g[at + k + 1].value = full
    BY <1>1, <1>5, <1>6, <1>7, <1>8, Zenon DEF n
  <2>. QED
    BY <2>1, Zenon DEF HoldsHead, k
<1>. QED
  BY <1>5, <1>9 DEF k, size

-----------------------------------------------------------------------------
(***************************************************************************)
(* Places that cover a range, and none of which overlaps another.          *)
(***************************************************************************)

Tiling(S, extent, range) ==
  /\ \A s \in S : extent[s] \subseteq range
  /\ \A i \in range : \E s \in S : i \in extent[s]
  /\ \A s, t \in S : s # t => extent[s] \cap extent[t] = {}

(* A place that is added behind the others.                                *)
LEMMA Added ==
  ASSUME NEW S, NEW extent, NEW ext, NEW range, NEW n,
         Tiling(S, extent, range), n \notin S,
         \A s \in S : ext[s] = extent[s], range \cap ext[n] = {}
  PROVE  Tiling(S \cup {n}, ext, range \cup ext[n])
<1>. DEFINE T == S \cup {n}
<1>1. \A s \in S : ext[s] \cap ext[n] = {}
  BY DEF Tiling
<1>2. \A s, t \in S : s # t => ext[s] \cap ext[t] = {}
  BY DEF Tiling
<1>3. \A s, t \in T : s # t => ext[s] \cap ext[t] = {}
  BY <1>1, <1>2
<1>4. \A i \in range \cup ext[n] : \E s \in T : i \in ext[s]
  BY DEF Tiling
<1>5. \A s \in T : ext[s] \subseteq range \cup ext[n]
  BY DEF Tiling
<1>. QED
  BY <1>3, <1>4, <1>5 DEF Tiling

(* A place that is divided.                                                *)
LEMMA Divided ==
  ASSUME NEW S, NEW T, NEW extent, NEW ext, NEW range, NEW d \in S, NEW N,
         Tiling(S, extent, range), T = (S \ {d}) \cup N,
         \A s \in S \ {d} : ext[s] = extent[s], Tiling(N, ext, extent[d])
  PROVE  Tiling(T, ext, range)
<1>1. \A s \in N : ext[s] \subseteq extent[d]
  BY DEF Tiling
<1>2. \A s \in S \ {d} : ext[s] \cap extent[d] = {}
  BY DEF Tiling
<1>3. \A s \in S \ {d}, t \in N : ext[s] \cap ext[t] = {}
  BY <1>1, <1>2
<1>4. \A s, t \in S \ {d} : s # t => ext[s] \cap ext[t] = {}
  BY DEF Tiling
<1>5. \A s, t \in N : s # t => ext[s] \cap ext[t] = {}
  BY DEF Tiling
<1>6. \A s, t \in T : s # t => ext[s] \cap ext[t] = {}
  BY <1>3, <1>4, <1>5
<1>7. \A s \in T : ext[s] \subseteq range
  BY <1>1 DEF Tiling
<1>8. ASSUME NEW i \in range
      PROVE  \E s \in T : i \in ext[s]
  <2>1. PICK s \in S : i \in extent[s]
    BY DEF Tiling
  <2>2. CASE s = d
    <3>1. PICK t \in N : i \in ext[t]
      BY <2>1, <2>2 DEF Tiling
    <3>. QED
      BY <3>1
  <2>3. CASE s # d
    BY <2>1, <2>3
  <2>. QED
    BY <2>2, <2>3
<1>. QED
  BY <1>6, <1>7, <1>8 DEF Tiling

-----------------------------------------------------------------------------
(***************************************************************************)
(* The inductive invariant.                                                *)
(***************************************************************************)

SlotType == [at : 0 .. FileMax, full : 1 .. FileMax, holder : Anything]

(* The octets a place stands for, of a master its head's.                  *)
Width(s) == IF s.holder = Master THEN HeadSize(Master, obj[Master]) ELSE s.full

Extents == [s \in slots |-> s.at + 1 .. s.at + Width(s)]

(* The object that stands for an element says where it is, how long, and   *)
(* how long its size is; a leaf is not empty.                              *)
IsHeld(s) ==
  /\ s.holder \in Object =>
       /\ obj[s.holder].ElementPosition = s.at
       /\ ElementSize(s.holder, obj[s.holder]) = s.full
       /\ IsCode(file[s.at + ID_LENGTH[s.holder] + 1], s.holder, SizeOctets(obj[s.holder]))
  /\ s.holder \in Leaves => obj[s.holder].Size # 0

(* A place is within the file, and inside or outside of a closed master.   *)
IsPlaced(s) ==
  /\ s.at + s.full <= Len(file)
  /\ closed # NotClosed => s.at + s.full <= closed \/ s.at >= closed

AsAsked(s) ==
  /\ HoldsHead(file, s.at, s.holder, s.full) /\ HoldsData(file, s)
  /\ IsHeld(s) /\ IsPlaced(s)

(* An object stands for one element of the file at most.                   *)
OneObjectEach ==
  \A s, t \in slots : s.holder = t.holder /\ s.holder # Filler => s = t

(* Only the master's size is ever unknown, and until then 0; the master is *)
(* closed once its size is known.                                          *)
SizesKnown ==
  /\ \A e \in Leaves \cup Voids : obj[e].bSizeIsFinite
  /\ ~ obj[Master].bSizeIsFinite => obj[Master].Size = 0 /\ closed = NotClosed
  /\ obj[Master].bSizeIsFinite =>
       /\ closed # NotClosed
       /\ \E s \in slots : s.holder = Master /\ s.at + s.full = closed
  /\ closed <= Len(file)

IInv ==
  /\ file \in Seq(FileOctet) /\ Len(file) <= FileMax
  /\ obj \in [Object -> ObjectState]
  /\ slots \subseteq SlotType
  /\ closed \in Nat
  /\ Tiling(slots, Extents, 1 .. Len(file))
  /\ OneObjectEach /\ SizesKnown
  /\ \A s \in slots : AsAsked(s)

-----------------------------------------------------------------------------
(***************************************************************************)
(* What the invariant says of one place.                                   *)
(***************************************************************************)

(* The code of a size is known when the size is, or is 0.                  *)
IsCodable(o) ==
  /\ o.Size \in Nat /\ SizeOctets(o) \in 1 .. SizeMax
  /\ o.Size # AllOnes[SizeOctets(o)]

(* A known size has a code that is not the reserved one.                   *)
LEMMA FiniteIsCodable ==
  ASSUME NEW o \in ObjectState, o.bSizeIsFinite
  PROVE  IsCodable(o)
<1>1. o.Size \in 0 .. FileMax /\ o.SizeLength \in 0 .. SizeMax
  BY DEF ObjectState
<1>2. o.bSizeIsFinite = TRUE
  BY Zenon DEF ObjectState
<1>3. SizeOctets(o) = CodedSizeLength(o.Size, o.SizeLength, TRUE)
  BY <1>2, Zenon DEF SizeOctets
<1>. DEFINE size == o.Size
            length == o.SizeLength
            n == CodedSizeLength(size, length, TRUE)
<1>. HIDE DEF size, length
<1>4. n \in 1 .. SizeMax /\ size < AllOnes[n]
  BY <1>1, SizeFits DEF size, length
<1>5. size \in Nat
  BY <1>1, SizeFacts DEF size
<1>. HIDE DEF n
<1>6. AllOnes[n] \in Nat
  <2>1. n \in 1 .. Len(AllOnes)
    BY <1>4, SizeFacts
  <2>. QED
    BY <2>1, SizeFacts
<1>7. size # AllOnes[n]
  BY <1>4, <1>5, <1>6
<1>. USE DEF n, size, length
<1>. QED
  BY <1>3, <1>4, <1>5, <1>7, Zenon DEF IsCodable

(* The length of the size 0, known or not.                                 *)
LEMMA EmptyIsCodable ==
  ASSUME NEW o, o.Size = 0, o.SizeLength \in 0 .. SizeMax, o.bSizeIsFinite \in BOOLEAN
  PROVE  /\ IsCodable(o)
         /\ SizeOctets(o) = IF 1 < o.SizeLength THEN o.SizeLength ELSE 1
<1>. DEFINE length == o.SizeLength
            n == SizeOctets(o)
<1>1. AllOnes[1] \in Nat /\ AllOnes[1] > 1 /\ 0 < AllOnes[1] /\ 0 <= AllOnes[1]
  <2>1. 1 \in 1 .. Len(AllOnes)
    BY SizeFacts
  <2>. QED
    BY <2>1, SizeFacts
<1>2. n = IF 1 < length THEN length ELSE 1
  BY <1>1, Zenon DEF SizeOctets, CodedSizeLength
<1>3. length \in 0 .. SizeMax
  OBVIOUS
<1>. HIDE DEF length
<1>4. n \in 1 .. SizeMax /\ 1 \in 1 .. Len(AllOnes) /\ n \in 1 .. Len(AllOnes)
  BY <1>2, <1>3, SizeFacts
<1>. HIDE DEF n
<1>5. AllOnes[1] + (n - 1) <= AllOnes[n] /\ AllOnes[n] \in Nat
  BY <1>4, SizeFacts, AllOnesGrow
<1>6. 0 # AllOnes[n]
  BY <1>1, <1>4, <1>5
<1>. QED
  <2>1. o.Size \in Nat /\ o.Size # AllOnes[n]
    BY <1>6
  <2>. QED
    BY <1>2, <1>4, <2>1, Zenon DEF IsCodable, n, length

(* Every object's size has a code.                                         *)
LEMMA ObjectsAreCodable ==
  ASSUME IInv, NEW e \in Object
  PROVE  obj[e] \in ObjectState /\ IsCodable(obj[e])
<1>1. obj[e] \in ObjectState
  BY DEF IInv
<1>2. CASE e \in Leaves \cup Voids
  <2>1. obj[e].bSizeIsFinite
    BY <1>2, Zenon DEF IInv, SizesKnown
  <2>. QED
    BY <1>1, <2>1, FiniteIsCodable
<1>3. CASE e = Master /\ obj[e].bSizeIsFinite
  BY <1>1, <1>3, FiniteIsCodable
<1>4. CASE e = Master /\ ~ obj[e].bSizeIsFinite
  <2>1. obj[e].Size = 0
    BY <1>4, Zenon DEF IInv, SizesKnown
  <2>2. obj[e].SizeLength \in 0 .. SizeMax /\ obj[e].bSizeIsFinite \in BOOLEAN
    BY <1>1 DEF ObjectState
  <2>. QED
    BY <1>1, <2>1, <2>2, EmptyIsCodable
<1>. QED
  BY <1>2, <1>3, <1>4 DEF Object

(* The size of a head, and of an element.                                  *)
LEMMA SizesAre ==
  ASSUME NEW e \in Anything, NEW o, IsCodable(o)
  PROVE  /\ HeadSize(e, o) = ID_LENGTH[e] + SizeOctets(o)
         /\ ElementSize(e, o) = HeadSize(e, o) + o.Size
         /\ HeadSize(e, o) \in Nat /\ ElementSize(e, o) \in Nat
         /\ HeadSize(e, o) >= 2 /\ ID_LENGTH[e] \in Nat \ {0}
         /\ SizeOctets(o) \in Nat \ {0} /\ o.Size \in Nat
<1>1. ID_LENGTH[e] \in Nat \ {0}
  BY IdFacts
<1>2. SizeOctets(o) \in Nat \ {0} /\ o.Size \in Nat
  BY SizeFacts DEF IsCodable
<1>3. HeadSize(e, o) = ID_LENGTH[e] + SizeOctets(o)
  BY DEF HeadSize
<1>4. ElementSize(e, o) = o.Size + HeadSize(e, o)
  BY DEF ElementSize
<1>. QED
  BY <1>1, <1>2, <1>3, <1>4

(* A place is within the file, and its head within it.                     *)
LEMMA SlotFacts ==
  ASSUME IInv, NEW s \in slots
  PROVE  /\ s.at \in Nat /\ s.full \in Nat \ {0} /\ s.holder \in Anything
         /\ Width(s) \in Nat \ {0} /\ Width(s) <= s.full
         /\ s.at + s.full <= Len(file) /\ Len(file) \in Nat /\ Len(file) <= FileMax
         /\ file[s.at + ID_LENGTH[s.holder] + 1].length \in Nat
         /\ s.at + ID_LENGTH[s.holder] + file[s.at + ID_LENGTH[s.holder] + 1].length
              <= s.at + Width(s)
         /\ Extents[s] = s.at + 1 .. s.at + Width(s)
<1>. DEFINE k == ID_LENGTH[s.holder]
            size == file[s.at + k + 1]
<1>1. s \in SlotType /\ AsAsked(s) /\ Len(file) <= FileMax /\ file \in Seq(FileOctet)
  BY Zenon DEF IInv
<1>2. s.at \in Nat /\ s.full \in Nat \ {0} /\ s.holder \in Anything
  BY <1>1, SizeFacts DEF SlotType
<1>3. s.at + s.full <= Len(file) /\ Len(file) \in Nat
  BY <1>1 DEF AsAsked, IsPlaced
<1>4. k \in Nat \ {0}
  BY <1>2, IdFacts
<1>5. /\ s.at + k < Len(file) /\ size.value # AllOnes[size.length]
      /\ k + size.length + size.value = s.full
  BY <1>1 DEF AsAsked, HoldsHead
<1>6. size.length \in Nat /\ size.value \in Nat
  <2>. DEFINE i == s.at + k + 1
  <2>1. i \in 1 .. Len(file)
    <3>1. s.at + k < Len(file)
      BY <1>5
    <3>. HIDE DEF k, size
    <3>. QED
      BY <1>2, <1>3, <1>4, <3>1
  <2>. HIDE DEF i
  <2>2. file[i] \in FileOctet
    BY <1>1, <2>1
  <2>. QED
    BY <2>2 DEF FileOctet, i
<1>7. Extents[s] = s.at + 1 .. s.at + Width(s)
  BY DEF Extents
<1>8. CASE s.holder # Master
  <2>1. Width(s) = s.full
    BY <1>8 DEF Width
  <2>2. k + size.length + size.value = s.full
    BY <1>5
  <2>. HIDE DEF k, size
  <2>3. s.at + k + size.length <= s.at + Width(s)
    BY <1>2, <1>4, <1>6, <2>1, <2>2
  <2>. QED
    BY <1>1, <1>2, <1>3, <1>6, <1>7, <2>1, <2>3 DEF k, size
<1>9. CASE s.holder = Master
  <2>0. Master \in Object /\ Master \in Anything
    BY IdFacts DEF Anything
  <2>1. IsCodable(obj[Master])
    BY <2>0, ObjectsAreCodable
  <2>2. /\ Width(s) = HeadSize(Master, obj[Master])
        /\ s.full = ElementSize(Master, obj[Master])
        /\ size.length = SizeOctets(obj[Master])
    BY <1>1, <1>9, <2>0, Zenon DEF Width, AsAsked, IsHeld, IsCode
  <2>3. /\ HeadSize(Master, obj[Master]) = k + SizeOctets(obj[Master])
        /\ ElementSize(Master, obj[Master])
              = HeadSize(Master, obj[Master]) + obj[Master].Size
        /\ HeadSize(Master, obj[Master]) \in Nat /\ HeadSize(Master, obj[Master]) >= 2
        /\ obj[Master].Size \in Nat
    BY <1>9, <2>0, <2>1, SizesAre
  <2>. HIDE DEF k, size
  <2>4. /\ Width(s) \in Nat \ {0} /\ Width(s) <= s.full
        /\ s.at + k + size.length <= s.at + Width(s)
    BY <1>2, <1>4, <1>6, <2>2, <2>3
  <2>. QED
    BY <1>1, <1>2, <1>3, <1>6, <1>7, <2>4 DEF k, size
<1>. QED
  BY <1>8, <1>9

(* Two places have no octet in common.                                     *)
LEMMA Apart ==
  ASSUME IInv, NEW s \in slots, NEW t \in slots, s # t
  PROVE  (s.at + 1 .. s.at + Width(s)) \cap (t.at + 1 .. t.at + Width(t)) = {}
<1>1. Extents[s] \cap Extents[t] = {}
  BY DEF IInv, Tiling
<1>2. Extents[s] = s.at + 1 .. s.at + Width(s) /\ Extents[t] = t.at + 1 .. t.at + Width(t)
  BY SlotFacts
<1>. QED
  BY <1>1, <1>2

(* What is written within a place leaves the rest of it, and every other.  *)
LEMMA Elsewhere ==
  ASSUME IInv, NEW d \in slots, NEW w \in Seq(FileOctet), NEW at \in Nat,
         d.at <= at, at + Len(w) <= d.at + Width(d), file' = Overlay(file, at, w)
  PROVE  /\ file' \in Seq(FileOctet) /\ Len(file') = Len(file)
         /\ WrittenAt(file', at, w)
         /\ Agree(file, file', d.at, at)
         /\ Agree(file, file', at + Len(w), d.at + Width(d))
         /\ \A t \in slots : t # d => Agree(file, file', t.at, t.at + Width(t))
<1>. DEFINE end == at + Len(w)
            stop == d.at + Width(d)
<1>1. /\ d.at \in Nat /\ Width(d) \in Nat \ {0} /\ stop <= Len(file)
      /\ Len(file) \in Nat /\ Len(w) \in Nat /\ file \in Seq(FileOctet)
  <2>1. /\ d.at \in Nat /\ Width(d) \in Nat \ {0} /\ d.full \in Nat /\ Width(d) <= d.full
        /\ d.at + d.full <= Len(file) /\ Len(file) \in Nat
    BY SlotFacts
  <2>2. file \in Seq(FileOctet) /\ Len(w) \in Nat
    BY DEF IInv
  <2>. QED
    BY <2>1, <2>2
<1>2. end \in Nat /\ end <= stop /\ at \in 0 .. Len(file) /\ ~ (Len(file) < end)
  BY <1>1
<1>3. /\ file' \in Seq(FileOctet) /\ Len(file') = Len(file) /\ WrittenAt(file', at, w)
      /\ Agree(file, file', 0, at) /\ Agree(file, file', end, Len(file))
  BY <1>1, <1>2, OverlayIs
<1>. HIDE DEF end, stop
<1>4. ASSUME NEW i \in 1 .. Len(file), i <= at \/ i > end
      PROVE  file'[i] = file[i]
  <2>1. i \in 0 + 1 .. at \/ i \in end + 1 .. Len(file)
    BY <1>1, <1>2, <1>4
  <2>. QED
    BY <1>3, <2>1 DEF Agree
<1>5. Agree(file, file', d.at, at)
  <2>1. \A i \in d.at + 1 .. at : i \in 1 .. Len(file) /\ i <= at
    BY <1>1, <1>2
  <2>. QED
    BY <1>4, <2>1 DEF Agree
<1>6. Agree(file, file', end, stop)
  <2>1. \A i \in end + 1 .. stop : i \in 1 .. Len(file) /\ i > end
    BY <1>1, <1>2 DEF stop
  <2>. QED
    BY <1>4, <2>1 DEF Agree
<1>7. ASSUME NEW t \in slots, t # d
      PROVE  Agree(file, file', t.at, t.at + Width(t))
  <2>1. /\ t.at \in Nat /\ Width(t) \in Nat \ {0} /\ t.full \in Nat /\ Width(t) <= t.full
        /\ t.at + t.full <= Len(file)
    BY SlotFacts
  <2>2. (t.at + 1 .. t.at + Width(t)) \cap (d.at + 1 .. stop) = {}
    BY <1>7, Apart DEF stop
  <2>3. ASSUME NEW i \in t.at + 1 .. t.at + Width(t)
        PROVE  file'[i] = file[i]
    <3>1. i \in 1 .. Len(file)
      BY <1>1, <2>1
    <3>2. i \notin d.at + 1 .. stop
      BY <2>2
    <3>3. i <= at \/ i > end
      BY <1>1, <1>2, <3>1, <3>2 DEF stop
    <3>. QED
      BY <1>4, <3>1, <3>3
  <2>. QED
    BY <2>3 DEF Agree
<1>. QED
  BY <1>3, <1>5, <1>6, <1>7 DEF end, stop

(* What is appended leaves every place.                                    *)
LEMMA Behind ==
  ASSUME IInv, NEW w \in Seq(FileOctet), file' = Overlay(file, Len(file), w)
  PROVE  /\ file' \in Seq(FileOctet) /\ Len(file') = Len(file) + Len(w)
         /\ WrittenAt(file', Len(file), w)
         /\ \A t \in slots : Agree(file, file', t.at, t.at + Width(t))
<1>1. file \in Seq(FileOctet) /\ Len(file) \in Nat /\ Len(w) \in Nat
  BY DEF IInv
<1>2. /\ file' \in Seq(FileOctet) /\ WrittenAt(file', Len(file), w)
      /\ Len(file') = IF Len(file) < Len(file) + Len(w) THEN Len(file) + Len(w)
                                                        ELSE Len(file)
      /\ Agree(file, file', 0, Len(file))
  <2>1. Len(file) \in 0 .. Len(file)
    BY <1>1
  <2>. QED
    BY <1>1, <2>1, OverlayIs
<1>3. Len(file') = Len(file) + Len(w)
  BY <1>1, <1>2
<1>4. ASSUME NEW t \in slots
      PROVE  Agree(file, file', t.at, t.at + Width(t))
  <2>1. /\ t.at \in Nat /\ Width(t) \in Nat \ {0} /\ t.full \in Nat /\ Width(t) <= t.full
        /\ t.at + t.full <= Len(file)
    BY SlotFacts
  <2>2. \A i \in t.at + 1 .. t.at + Width(t) : i \in 0 + 1 .. Len(file)
    BY <1>1, <2>1
  <2>. QED
    BY <1>2, <2>2 DEF Agree
<1>. QED
  BY <1>2, <1>3, <1>4

(* The head of a place none of whose octets is written stays.              *)
LEMMA HeadIsKept ==
  ASSUME NEW s \in slots, IInv, file' \in Seq(FileOctet), Len(file) <= Len(file'),
         Agree(file, file', s.at, s.at + Width(s))
  PROVE  /\ HoldsHead(file', s.at, s.holder, s.full)
         /\ file'[s.at + ID_LENGTH[s.holder] + 1] = file[s.at + ID_LENGTH[s.holder] + 1]
<1>. DEFINE stop == s.at + Width(s)
<1>1. /\ s.at \in Nat /\ s.holder \in Anything /\ stop \in Nat
      /\ s.at + ID_LENGTH[s.holder] + file[s.at + ID_LENGTH[s.holder] + 1].length <= stop
  BY SlotFacts
<1>2. HoldsHead(file, s.at, s.holder, s.full) /\ file \in Seq(FileOctet)
  BY Zenon DEF IInv, AsAsked
<1>3. Agree(file, file', s.at, stop)
  OBVIOUS
<1>. HIDE DEF stop
<1>. QED
  BY <1>1, <1>2, <1>3, HeadStays

(* A place none of whose octets is written, and whose object stays as it   *)
(* is, holds what it was asked to hold.                                    *)
LEMMA SlotStays ==
  ASSUME IInv, file' \in Seq(FileOctet), Len(file) <= Len(file'), NEW s \in slots,
         Agree(file, file', s.at, s.at + Width(s)),
         s.holder # Filler => obj'[s.holder] = obj[s.holder],
         closed' = closed \/ closed' = Len(file)
  PROVE  AsAsked(s)' /\ Width(s)' = Width(s)
<1>. DEFINE k == ID_LENGTH[s.holder]
            stop == s.at + Width(s)
<1>1. /\ s.at \in Nat /\ s.full \in Nat \ {0} /\ s.holder \in Anything
      /\ Width(s) \in Nat \ {0} /\ Width(s) <= s.full
      /\ s.at + s.full <= Len(file) /\ Len(file) \in Nat
      /\ s.at + k + file[s.at + k + 1].length <= stop
  BY SlotFacts
<1>2. /\ HoldsHead(file, s.at, s.holder, s.full) /\ HoldsData(file, s)
      /\ IsHeld(s) /\ IsPlaced(s) /\ file \in Seq(FileOctet)
  BY Zenon DEF IInv, AsAsked
<1>3. stop \in Nat /\ stop <= Len(file) /\ Len(file') \in Nat
  BY <1>1
<1>4. /\ HoldsHead(file', s.at, s.holder, s.full)
      /\ file'[s.at + k + 1] = file[s.at + k + 1]
  BY HeadIsKept
<1>5. HoldsData(file, s)'
  <2>1. CASE s.holder \notin Leaves
    BY <2>1 DEF HoldsData
  <2>2. CASE s.holder \in Leaves
    <3>. DEFINE o == obj[s.holder]
                end == s.at + s.full
                start == end - o.Size
    <3>1. obj'[s.holder] = o /\ s.holder \in Object
      BY <2>2, IdFacts
    <3>2. s.holder # Master
      BY <2>2, IdFacts
    <3>3. Width(s) = s.full
      BY <3>2 DEF Width
    <3>4. SubSeq(file, start + 1, end) = Data(s.holder, o)
      BY <1>2, <2>2 DEF HoldsData
    <3>5. o.Size \in Nat /\ o.Size <= s.full
      <4>1. IsCodable(o)
        BY <3>1, ObjectsAreCodable
      <4>2. s.full = HeadSize(s.holder, o) + o.Size /\ HeadSize(s.holder, o) \in Nat
            /\ o.Size \in Nat
        <5>1. s.full = ElementSize(s.holder, o)
          BY <1>2, <3>1, Zenon DEF IsHeld
        <5>. HIDE DEF o
        <5>. QED
          BY <1>1, <4>1, <5>1, SizesAre
      <4>. HIDE DEF o
      <4>. QED
        BY <1>1, <4>2
    <3>6. start \in Nat /\ end \in Nat /\ end <= Len(file) /\ end <= Len(file')
          /\ start >= s.at
      <4>. DEFINE n == o.Size
      <4>0. s.at \in Nat /\ s.full \in Nat
        BY <1>1
      <4>1. n \in Nat /\ n <= s.full /\ start = s.at + s.full - n
        BY <3>5, <4>0
      <4>2. s.at + s.full <= Len(file')
        BY <1>1, <1>3
      <4>. HIDE DEF n, start
      <4>3. start \in Nat /\ start >= s.at
        BY <4>0, <4>1
      <4>. QED
        BY <1>1, <4>2, <4>3
    <3>7. Agree(file, file', start, end)
      <4>. HIDE DEF start, o
      <4>1. \A i \in start + 1 .. end : i \in s.at + 1 .. s.at + Width(s)
        BY <1>1, <3>3, <3>6
      <4>. QED
        BY <4>1 DEF Agree
    <3>8. SubSeq(file', start + 1, end) = SubSeq(file, start + 1, end)
      <4>. HIDE DEF start, end
      <4>. QED
        BY <1>2, <3>6, <3>7, SameIsRead
    <3>. QED
      BY <3>1, <3>4, <3>8, Zenon DEF HoldsData
  <2>. QED
    BY <2>1, <2>2
<1>6. Width(s)' = Width(s)
  BY IdFacts DEF Width
<1>7. IsHeld(s)'
  <2>1. CASE s.holder \in Object
    <3>1. obj'[s.holder] = obj[s.holder]
      BY <2>1, IdFacts
    <3>. QED
      BY <1>2, <1>4, <2>1, <3>1, Zenon DEF IsHeld
  <2>2. CASE s.holder \notin Object
    BY <2>2, IdFacts, Zenon DEF IsHeld, Object
  <2>. QED
    BY <2>1, <2>2
<1>8. IsPlaced(s)'
  BY <1>1, <1>2, <1>3 DEF IsPlaced
<1>. QED
  BY <1>4, <1>5, <1>6, <1>7, <1>8, Zenon DEF AsAsked

(* Writing within one place that is not there any more, or whose leaf has  *)
(* other data, is editing in place.                                        *)
LEMMA WithinOnePlace ==
  ASSUME IInv, NEW d \in slots, Len(file') = Len(file),
         \A t \in slots : t # d => Agree(file, file', t.at, t.at + Width(t)),
         d \in slots' => d.holder \in Leaves /\ obj'[d.holder] # obj[d.holder]
  PROVE  InPlace
<1>1. ASSUME NEW s \in slots \cap slots',
             s.holder \in Leaves => obj'[s.holder] = obj[s.holder],
             NEW i \in Extent(s)
      PROVE  file'[i] = file[i]
  <2>1. s # d /\ s \in slots
    BY <1>1
  <2>2. Agree(file, file', s.at, s.at + Width(s))
    BY <2>1
  <2>3. i \in s.at + 1 .. s.at + Width(s)
    BY <1>1 DEF Extent, Width
  <2>. QED
    BY <2>2, <2>3 DEF Agree
<1>. QED
  BY <1>1, Zenon DEF InPlace

-----------------------------------------------------------------------------
(***************************************************************************)
(* What the operations make of an object, and write.                       *)
(***************************************************************************)

(* An object of known size; what its head and its data take.               *)
IsSized(o) == o \in ObjectState /\ o.bSizeIsFinite

(* The positions change nothing but themselves.                            *)
LEMMA PlacedIs ==
  ASSUME NEW e \in Anything, NEW o \in ObjectState, NEW p \in Nat, NEW z,
         z = Placed(e, o, p), IsCodable(o), p + HeadSize(e, o) <= FileMax
  PROVE  /\ z \in ObjectState /\ z.ElementPosition = p
         /\ z.Size = o.Size /\ z.SizeLength = o.SizeLength
         /\ z.bSizeIsFinite = o.bSizeIsFinite /\ z.value = o.value
         /\ SizeOctets(z) = SizeOctets(o) /\ IsCodable(z)
         /\ \A x : /\ HeadSize(x, z) = HeadSize(x, o) /\ Data(x, z) = Data(x, o)
                  /\ ElementSize(x, z) = ElementSize(x, o)
<1>. DEFINE q == p + HeadSize(e, o)
<1>1. q \in 0 .. FileMax /\ p \in 0 .. FileMax
  <2>1. HeadSize(e, o) \in Nat /\ HeadSize(e, o) >= 2
    BY SizesAre
  <2>. QED
    BY <2>1, SizeFacts
<1>2. z = [o EXCEPT !.ElementPosition = p, !.SizePosition = q]
  BY DEF Placed
<1>. HIDE DEF q
<1>3. /\ z \in ObjectState /\ z.ElementPosition = p
      /\ z.Size = o.Size /\ z.SizeLength = o.SizeLength /\ z.value = o.value
  BY <1>1, <1>2 DEF ObjectState
<1>4. z.bSizeIsFinite = o.bSizeIsFinite
  BY <1>2, Zenon DEF ObjectState
<1>5. SizeOctets(z) = SizeOctets(o)
  BY <1>3, <1>4, Zenon DEF SizeOctets
<1>6. IsCodable(z)
  BY <1>3, <1>5, Zenon DEF IsCodable
<1>7. \A x : HeadSize(x, z) = HeadSize(x, o) /\ ElementSize(x, z) = ElementSize(x, o)
  BY <1>3, <1>5, Zenon DEF HeadSize, ElementSize
<1>8. \A x : Data(x, z) = Data(x, o)
  BY <1>3, Zenon DEF Data
<1>. QED
  BY <1>3, <1>4, <1>5, <1>6, <1>7, <1>8

(* The object of an element that was given a size and a length of it.      *)
Given(b, size, length) == [b EXCEPT !.Size = size, !.SizeLength = length]

HasSize(e, o, size) ==
  /\ o.Size = size /\ SizeOctets(o) \in Nat \ {0}
  /\ ElementSize(e, o) = HeadSize(e, o) + size
  /\ HeadSize(e, o) \in Nat /\ ElementSize(e, o) \in Nat
  /\ ElementSize(e, o) >= size
  /\ size <= FileMax => IsSized(o) /\ IsCodable(o)

(* An element given a size that fits in the file has a code for it.        *)
LEMMA SizedIs ==
  ASSUME NEW e \in Anything, NEW b, NEW size \in Nat, NEW length \in 0 .. SizeMax,
         NEW o, IsSized(b), o = Given(b, size, length)
  PROVE  HasSize(e, o, size)
<1>. DEFINE n == SizeOctets(o)
<1>1. b \in ObjectState /\ b.bSizeIsFinite
  BY DEF IsSized
<1>2. o.Size = size /\ o.SizeLength = length
  BY <1>1 DEF ObjectState, Given
<1>3. o.bSizeIsFinite = b.bSizeIsFinite
  BY <1>1, Zenon DEF ObjectState, Given
<1>4. b.bSizeIsFinite = TRUE
  BY <1>1, Zenon DEF ObjectState
<1>5. n = CodedSizeLength(size, length, TRUE)
  BY <1>2, <1>3, <1>4, Zenon DEF SizeOctets
<1>6. length \in Nat
  BY SizeFacts
<1>7. n \in Nat \ {0}
  BY <1>5, <1>6 DEF CodedSizeLength
<1>8. ID_LENGTH[e] \in Nat
  BY IdFacts
<1>9. HeadSize(e, o) = ID_LENGTH[e] + n /\ ElementSize(e, o) = size + HeadSize(e, o)
  BY <1>2 DEF HeadSize, ElementSize
<1>10. ASSUME size <= FileMax
       PROVE  IsSized(o) /\ IsCodable(o)
  <2>1. size \in 0 .. FileMax
    BY <1>10, SizeFacts
  <2>2. o \in ObjectState
    BY <1>1, <2>1 DEF ObjectState, Given
  <2>3. o.bSizeIsFinite
    BY <1>3, <1>4, Zenon
  <2>. QED
    BY <2>2, <2>3, FiniteIsCodable DEF IsSized
<1>. HIDE DEF n
<1>11. /\ ElementSize(e, o) = HeadSize(e, o) + size
       /\ HeadSize(e, o) \in Nat /\ ElementSize(e, o) \in Nat
       /\ ElementSize(e, o) >= size
  BY <1>7, <1>8, <1>9
<1>. QED
  BY <1>2, <1>7, <1>10, <1>11 DEF n, HasSize

(* The object of a void element that was given octets to fill.             *)
IsFull(v, o, full) ==
  /\ IsSized(o) /\ IsCodable(o)
  /\ ElementSize(v, o) = full /\ HeadSize(v, o) <= full
  /\ full > 2 => o.Size # 0

(* SetVoidSize makes an element of exactly the octets it is to fill.       *)
LEMMA VoidIs ==
  ASSUME NEW v \in Voids \cup {Filler}, NEW b, NEW full \in 2 .. FileMax, NEW o,
         IsSized(b), o = SetVoidSize(b, full)
  PROVE  IsFull(v, o, full)
<1>0. PICK n, d : n = VoidLength(full) /\ d = full - n - 1
  OBVIOUS
<1>1. /\ n \in 1 .. SizeMax /\ n < full /\ (full > 2 => n < full - 1)
      /\ o = [b EXCEPT !.SizeLength = n, !.Size = d]
      /\ CodedSizeLength(d, n, TRUE) = n
  BY <1>0, VoidFills
<1>2. n \in Nat /\ n >= 1 /\ full \in Nat /\ n \in 0 .. SizeMax /\ full <= FileMax
      /\ FileMax \in Nat
  BY <1>1, SizeFacts
<1>3. d \in Nat /\ d <= FileMax /\ (full > 2 => d # 0) /\ 1 + n + d = full
  BY <1>0, <1>1, <1>2
<1>4. o = Given(b, d, n)
  BY <1>1 DEF Given
<1>5. v \in Anything /\ ID_LENGTH[v] = 1
  BY IdFacts, ObjectAssumption DEF Anything, Object
<1>6. /\ o.Size = d /\ IsSized(o) /\ IsCodable(o)
      /\ ElementSize(v, o) = HeadSize(v, o) + d
  <2>1. HasSize(v, o, d)
    BY <1>2, <1>3, <1>4, <1>5, SizedIs, Zenon
  <2>. QED
    BY <1>3, <2>1 DEF HasSize
<1>7. b.bSizeIsFinite = TRUE
  BY Zenon DEF IsSized, ObjectState
<1>8. SizeOctets(o) = n
  <2>1. b \in ObjectState
    BY DEF IsSized
  <2>2. o.SizeLength = n /\ o.bSizeIsFinite = b.bSizeIsFinite
    BY <1>4, <2>1, Zenon DEF ObjectState, Given
  <2>. QED
    BY <1>1, <1>6, <1>7, <2>2, Zenon DEF SizeOctets
<1>9. HeadSize(v, o) = 1 + n
  BY <1>5, <1>8 DEF HeadSize
<1>10. ElementSize(v, o) = full /\ HeadSize(v, o) <= full /\ (full > 2 => o.Size # 0)
  BY <1>2, <1>3, <1>6, <1>9
<1>. QED
  BY <1>6, <1>10, Zenon DEF IsFull

(* A new element.                                                          *)
LEMMA NewIsSized ==
  IsSized(NewObject(TRUE))
<1>1. 0 \in 0 .. FileMax /\ 0 \in 0 .. SizeMax /\ 0 \in 0 .. 1
  BY SizeFacts
<1>. QED
  BY <1>1, Zenon DEF IsSized, NewObject, ObjectState

(* A leaf's data are that many octets.                                     *)
LEMMA DataIs ==
  ASSUME NEW e \in Anything, NEW o, o.Size \in Nat, o.value \in Nat
  PROVE  Data(e, o) \in Seq(FileOctet) /\ Len(Data(e, o)) = o.Size
<1>1. AreOctets(Octets("data", e, o.Size, o.value), o.Size)
  BY OctetsAre
<1>. QED
  BY <1>1, Zenon DEF Data, AreOctets

(* What is written of a leaf.                                              *)
LEMMA LeafOctets ==
  ASSUME NEW e \in Leaves, NEW b, NEW size \in Nat, NEW length \in 0 .. SizeMax,
         NEW o, NEW w, IsSized(b), o = Given(b, size, length),
         w = Head_(e, o) \o Data(e, o)
  PROVE  AreOctets(w, ElementSize(e, o))
<1>1. e \in Anything
  BY IdFacts DEF Anything
<1>2. /\ o.Size = size /\ SizeOctets(o) \in Nat \ {0}
      /\ ElementSize(e, o) = HeadSize(e, o) + size
  <2>1. HasSize(e, o, size)
    BY <1>1, SizedIs, Zenon
  <2>. QED
    BY <2>1 DEF HasSize
<1>3. o.value \in Nat /\ o.Size \in Nat
  <2>1. b \in ObjectState
    BY DEF IsSized
  <2>. QED
    BY <1>2, <2>1 DEF Given, ObjectState
<1>. DEFINE head == Head_(e, o)
            data == Data(e, o)
<1>4. head \in Seq(FileOctet) /\ Len(head) = HeadSize(e, o)
  BY <1>1, <1>2, <1>3, HeadIs
<1>5. data \in Seq(FileOctet) /\ Len(data) = size
  BY <1>1, <1>2, <1>3, DataIs
<1>. HIDE DEF head, data
<1>6. head \o data \in Seq(FileOctet) /\ Len(head \o data) = Len(head) + Len(data)
  BY <1>4, <1>5, ConcatProperties
<1>. QED
  BY <1>2, <1>4, <1>5, <1>6 DEF head, data, AreOctets

(* A head is found where it was written.                                   *)
HeadFound(f, at, e, o) ==
  /\ HoldsHead(f, at, e, ElementSize(e, o))
  /\ IsCode(f[at + ID_LENGTH[e] + 1], e, SizeOctets(o))

(* The head that was written is the one that is read.                      *)
LEMMA CodedHeadIsRead ==
  ASSUME NEW f \in Seq(FileOctet), NEW at \in Nat, NEW e \in Anything, NEW o,
         IsCodable(o), WrittenAt(f, at, Head_(e, o))
  PROVE  HeadFound(f, at, e, o)
<1>1. o.Size \in Nat /\ SizeOctets(o) \in 1 .. SizeMax /\ o.Size # AllOnes[SizeOctets(o)]
  BY DEF IsCodable
<1>2. /\ HoldsHead(f, at, e, ElementSize(e, o))
      /\ IsCode(f[at + ID_LENGTH[e] + 1], e, SizeOctets(o))
  BY <1>1, HeadIsRead
<1>. QED
  BY <1>2, Zenon DEF HeadFound

(* A leaf that was written is where it should be and reads as it should.   *)
LEMMA LeafIsWritten ==
  ASSUME NEW e \in Leaves, NEW o, NEW at \in Nat, NEW s,
         IsSized(o), IsCodable(o), o.Size # 0,
         file' \in Seq(FileOctet), WrittenAt(file', at, Head_(e, o) \o Data(e, o)),
         obj'[e] = Placed(e, o, at), at + HeadSize(e, o) <= FileMax,
         s = Slot(at, ElementSize(e, o), e), IsPlaced(s)'
  PROVE  AsAsked(s)'
<1>1. e \in Anything /\ e # Master /\ e \in Leaves \cup Voids
  BY IdFacts DEF Anything
<1>2. o \in ObjectState
  BY DEF IsSized
<1>. DEFINE z == obj'[e]
<1>3. /\ z \in ObjectState /\ z.ElementPosition = at /\ z.Size = o.Size
      /\ Data(e, z) = Data(e, o) /\ ElementSize(e, z) = ElementSize(e, o)
      /\ SizeOctets(z) = SizeOctets(o)
  <2>. HIDE DEF z
  <2>1. z = Placed(e, o, at)
    BY DEF z
  <2>. QED
    BY <1>1, <1>2, <2>1, PlacedIs
<1>4. /\ Head_(e, o) \in Seq(FileOctet) /\ Len(Head_(e, o)) = HeadSize(e, o)
      /\ HeadSize(e, o) \in Nat
  <2>1. o.Size \in Nat /\ SizeOctets(o) \in Nat \ {0}
    BY SizeFacts DEF IsCodable
  <2>. QED
    BY <1>1, <2>1, HeadIs
<1>5. Data(e, o) \in Seq(FileOctet) /\ Len(Data(e, o)) = o.Size
  <2>1. o.Size \in Nat /\ o.value \in Nat
    BY <1>2, SizeFacts DEF ObjectState
  <2>. QED
    BY <1>1, <2>1, DataIs
<1>6. WrittenAt(file', at, Head_(e, o)) /\ WrittenAt(file', at + HeadSize(e, o), Data(e, o))
  BY <1>4, <1>5, WrittenParts
<1>7. s.at = at /\ s.full = ElementSize(e, o) /\ s.holder = e
  BY DEF Slot
<1>8. /\ HoldsHead(file', s.at, s.holder, s.full)
      /\ IsCode(file'[s.at + ID_LENGTH[e] + 1], e, SizeOctets(o))
  <2>1. HeadFound(file', at, e, o)
    BY <1>1, <1>6, CodedHeadIsRead, Zenon
  <2>. QED
    BY <1>7, <2>1, Zenon DEF HeadFound
<1>9. HoldsData(file, s)'
  <2>. DEFINE start == at + HeadSize(e, o)
              end == s.at + s.full
  <2>1. o.Size \in Nat
    BY DEF IsCodable
  <2>2. ElementSize(e, o) = HeadSize(e, o) + o.Size
    BY <1>1, SizesAre
  <2>3. /\ start \in Nat /\ end \in Nat /\ end = start + Len(Data(e, o))
        /\ end - z.Size = start
    <3>1. end = at + (HeadSize(e, o) + o.Size)
      BY <1>7, <2>2
    <3>2. z.Size = o.Size
      BY <1>3
    <3>. DEFINE h == HeadSize(e, o)
                n == o.Size
    <3>3. h \in Nat /\ n \in Nat /\ end = at + (h + n) /\ z.Size = n
          /\ Len(Data(e, o)) = n /\ start = at + h
      BY <1>4, <1>5, <2>1, <3>1, <3>2
    <3>. HIDE DEF h, n, start, end, z
    <3>. QED
      BY <3>3
  <2>4. end <= Len(file')
    BY <2>3, <1>6 DEF WrittenAt
  <2>. HIDE DEF start, end
  <2>5. WrittenAt(file', start, Data(e, o))
    BY <1>6 DEF start
  <2>6. SubSeq(file', start + 1, end) = Data(e, o)
    <3>. DEFINE g == file'
                w == Data(e, o)
    <3>1. /\ g \in Seq(FileOctet) /\ w \in Seq(FileOctet) /\ WrittenAt(g, start, w)
          /\ start \in Nat /\ end \in Nat /\ end = start + Len(w) /\ end <= Len(g)
      BY <1>5, <2>3, <2>4, <2>5
    <3>. HIDE DEF g, w
    <3>2. SubSeq(g, start + 1, end) = w
      BY <3>1, WrittenIsRead
    <3>. QED
      BY <3>2 DEF g, w
  <2>7. SubSeq(file', end - z.Size + 1, end) = Data(e, z)
    BY <1>3, <2>3, <2>6
  <2>. QED
    BY <1>7, <2>7, Zenon DEF HoldsData, end
<1>10. IsHeld(s)'
  <2>1. /\ z.ElementPosition = s.at /\ ElementSize(e, z) = s.full /\ z.Size # 0
        /\ IsCode(file'[s.at + ID_LENGTH[e] + 1], e, SizeOctets(z))
    BY <1>3, <1>7, <1>8
  <2>. QED
    BY <1>7, <2>1, Zenon DEF IsHeld
<1>. QED
  BY <1>8, <1>9, <1>10, Zenon DEF AsAsked

(* The state of one object.                                                *)
LEMMA OneObject ==
  ASSUME IInv, NEW e \in Object, NEW z \in ObjectState, obj' = [obj EXCEPT ![e] = z]
  PROVE  /\ obj' \in [Object -> ObjectState] /\ obj'[e] = z
         /\ \A x : x # e => obj'[x] = obj[x]
<1>1. obj \in [Object -> ObjectState]
  BY DEF IInv
<1>. HIDE DEF ObjectState, Object
<1>2. obj' \in [Object -> ObjectState] /\ obj'[e] = z
  BY <1>1
<1>3. \A x \in Object : x # e => obj'[x] = obj[x]
  BY <1>1
<1>. QED
  BY <1>2, <1>3

(* Of the master nothing changes.                                          *)
LEMMA SizesStayKnown ==
  ASSUME IInv, \A e \in Leaves \cup Voids : obj'[e].bSizeIsFinite,
         obj'[Master] = obj[Master], closed' = closed, Len(file) <= Len(file'),
         Len(file') \in Nat, \A s \in slots : s.holder = Master => s \in slots'
  PROVE  SizesKnown'
<1>1. /\ ~ obj[Master].bSizeIsFinite => obj[Master].Size = 0 /\ closed = NotClosed
      /\ obj[Master].bSizeIsFinite =>
           /\ closed # NotClosed
           /\ \E s \in slots : s.holder = Master /\ s.at + s.full = closed
      /\ closed <= Len(file)
  BY Zenon DEF IInv, SizesKnown
<1>2. closed' <= Len(file')
  <2>1. closed \in Nat /\ Len(file) \in Nat
    BY DEF IInv
  <2>. QED
    BY <1>1, <2>1
<1>. QED
  BY <1>1, <1>2, Zenon DEF SizesKnown, NotClosed

(* An element that is written behind all others.                           *)
LEMMA Appended ==
  ASSUME NEW e \in Object, NEW w \in Seq(FileOctet), NEW z \in ObjectState, NEW n,
         IInv, ~ InFile(e), Len(w) # 0,
         file' = Overlay(file, Len(file), w), Len(file') <= FileMax,
         obj' = [obj EXCEPT ![e] = z],
         n = Slot(Len(file), Len(w), e), slots' = slots \cup {n},
         Width(n)' = Len(w), closed' = closed, AsAsked(n)', SizesKnown'
  PROVE  IInv' /\ InPlace
<1>1. /\ file \in Seq(FileOctet) /\ Len(file) \in Nat /\ Len(w) \in Nat \ {0}
      /\ slots \subseteq SlotType /\ closed \in Nat
      /\ Tiling(slots, Extents, 1 .. Len(file)) /\ OneObjectEach
  BY DEF IInv
<1>2. /\ file' \in Seq(FileOctet) /\ Len(file') = Len(file) + Len(w)
      /\ \A t \in slots : Agree(file, file', t.at, t.at + Width(t))
  BY Behind
<1>3. obj' \in [Object -> ObjectState] /\ \A x : x # e => obj'[x] = obj[x]
  BY OneObject, Zenon
<1>4. \A t \in slots : t.holder # e
  BY DEF InFile
<1>5. ASSUME NEW t \in slots
      PROVE  AsAsked(t)' /\ Width(t)' = Width(t)
  <2>1. obj'[t.holder] = obj[t.holder]
    BY <1>3, <1>4
  <2>2. Len(file) <= Len(file')
    BY <1>1, <1>2
  <2>. QED
    BY <1>2, <2>1, <2>2, SlotStays
<1>6. n.at = Len(file) /\ n.full = Len(w) /\ n.holder = e
  BY DEF Slot
<1>7. n \notin slots
  BY <1>4, <1>6
<1>8. slots' \subseteq SlotType
  <2>1. /\ e \in Anything /\ Len(file) \in 0 .. FileMax
        /\ Len(w) \in 1 .. FileMax
    BY <1>1, <1>2, SizeFacts DEF Anything
  <2>2. n \in SlotType
    BY <2>1 DEF Slot, SlotType
  <2>. QED
    BY <1>1, <2>2
<1>9. Tiling(slots, Extents, 1 .. Len(file))'
  <2>1. PICK more, range : /\ more = Len(file) + 1 .. Len(file) + Len(w)
                           /\ range = 1 .. Len(file)
    OBVIOUS
  <2>2. PICK extent, ext : /\ extent = Extents
                           /\ ext = [s \in slots \cup {n} |->
                                       s.at + 1 .. s.at + Width(s)']
    OBVIOUS
  <2>3. Extents' = ext
    BY <2>2 DEF Extents
  <2>4. \A s \in slots : ext[s] = extent[s]
    BY <1>5, <2>2 DEF Extents
  <2>5. ext[n] = more
    BY <1>6, <2>1, <2>2
  <2>6. range \cap more = {} /\ range \cup more = 1 .. Len(file')
    BY <1>1, <1>2, <2>1
  <2>7. Tiling(slots, extent, range)
    BY <1>1, <2>1, <2>2
  <2>8. Tiling(slots \cup {n}, ext, range \cup ext[n])
    <3>1. range \cap ext[n] = {}
      BY <2>5, <2>6
    <3>. QED
      BY <1>7, <2>4, <2>7, <3>1, Added, Zenon
  <2>. QED
    BY <2>3, <2>5, <2>6, <2>8, Zenon
<1>10. OneObjectEach'
  <2>1. \A s, t \in slots : s.holder = t.holder /\ s.holder # Filler => s = t
    BY <1>1 DEF OneObjectEach
  <2>2. ASSUME NEW s \in slots', NEW t \in slots', s.holder = t.holder, s.holder # Filler
        PROVE  s = t
    <3>1. CASE s = n \/ t = n
      BY <1>4, <1>6, <2>2, <3>1
    <3>2. CASE s # n /\ t # n
      BY <2>1, <2>2, <3>2
    <3>. QED
      BY <3>1, <3>2
  <2>. QED
    BY <2>2 DEF OneObjectEach
<1>11. \A s \in slots' : AsAsked(s)'
  BY <1>5
<1>12. InPlace
  <2>1. ASSUME NEW s \in slots \cap slots', NEW i \in Extent(s)
        PROVE  file'[i] = file[i]
    <3>1. Agree(file, file', s.at, s.at + Width(s))
      BY <1>2
    <3>2. i \in s.at + 1 .. s.at + Width(s)
      BY <2>1 DEF Extent, Width
    <3>. QED
      BY <3>1, <3>2 DEF Agree
  <2>2. \E s \in slots' : s.at = Len(file)
    BY <1>6
  <2>. QED
    BY <2>1, <2>2, Zenon DEF InPlace
<1>13. IInv'
  BY <1>1, <1>2, <1>3, <1>8, <1>9, <1>10, <1>11, Zenon DEF IInv
<1>. QED
  BY <1>12, <1>13

-----------------------------------------------------------------------------
(***************************************************************************)
(* Every operation keeps the invariant.                                    *)
(***************************************************************************)

(* Render appends a leaf that no place stands for yet.                     *)
LEMMA RenderKeepsIInv ==
  ASSUME IInv, 0 \notin Sizes, NEW e \in Leaves, NEW size \in Sizes,
         NEW length \in SizeLengths, Render(e, size, length)
  PROVE  IInv' /\ InPlace
<1>0. PICK b, end : b = obj[e] /\ end = Len(file)
  OBVIOUS
<1>a. PICK o : o = Given(b, size, length)
  OBVIOUS
<1>b. PICK w, z, full : /\ w = Head_(e, o) \o Data(e, o)
                        /\ z = Placed(e, o, end) /\ full = ElementSize(e, o)
  OBVIOUS
<1>c. PICK n : n = Slot(end, full, e)
  OBVIOUS
<1>1. /\ file' = Overlay(file, end, w) /\ obj' = [obj EXCEPT ![e] = z]
      /\ slots' = slots \cup {n} /\ Len(file') <= FileMax /\ closed' = closed
      /\ ~ InFile(e)
  BY <1>0, <1>a, <1>b, <1>c DEF Render, Given
<1>2. /\ e \in Anything /\ e \in Object /\ e \in Leaves \cup Voids /\ e # Master
      /\ size \in Nat /\ size # 0 /\ length \in 0 .. SizeMax
      /\ end \in Nat /\ file \in Seq(FileOctet)
  BY <1>0, IdFacts, SizesAssumption DEF Anything, IInv
<1>3. IsSized(b)
  BY <1>0, <1>2, ObjectsAreCodable, Zenon DEF IsSized, IInv, SizesKnown
<1>4. w \in Seq(FileOctet) /\ Len(w) = full
  <2>1. AreOctets(w, ElementSize(e, o))
    BY <1>a, <1>b, <1>2, <1>3, LeafOctets, Zenon
  <2>. QED
    BY <1>b, <2>1 DEF AreOctets
<1>5. /\ o.Size = size /\ full = HeadSize(e, o) + size
      /\ HeadSize(e, o) \in Nat /\ full \in Nat /\ full >= size
      /\ size <= FileMax => IsSized(o) /\ IsCodable(o)
  <2>1. HasSize(e, o, size)
    BY <1>a, <1>2, <1>3, SizedIs, Zenon
  <2>. QED
    BY <1>b, <2>1 DEF HasSize
<1>6. /\ file' \in Seq(FileOctet) /\ Len(file') = end + full
      /\ WrittenAt(file', end, w)
  BY <1>0, <1>1, <1>4, Behind
<1>7. IsSized(o) /\ IsCodable(o) /\ o \in ObjectState
  <2>1. size <= FileMax
    BY <1>1, <1>2, <1>5, <1>6, SizeFacts
  <2>. QED
    BY <1>5, <2>1, Zenon DEF IsSized
<1>8. end + HeadSize(e, o) <= FileMax
  <2>. DEFINE h == HeadSize(e, o)
  <2>1. h \in Nat /\ end + (h + size) <= FileMax
    BY <1>1, <1>5, <1>6
  <2>. HIDE DEF h
  <2>2. end + h <= FileMax
    BY <1>2, <2>1, SizeFacts
  <2>. QED
    BY <2>2 DEF h
<1>9. z \in ObjectState /\ z.bSizeIsFinite
  <2>1. z \in ObjectState /\ z.bSizeIsFinite = o.bSizeIsFinite
    BY <1>b, <1>2, <1>7, <1>8, PlacedIs
  <2>. QED
    BY <1>7, <2>1, Zenon DEF IsSized
<1>10. obj'[e] = z /\ \A x : x # e => obj'[x] = obj[x]
  BY <1>1, <1>2, <1>9, OneObject, Zenon
<1>11. n.at = end /\ n.full = full /\ n.holder = e
  BY <1>c DEF Slot
<1>12. IsPlaced(n)'
  <2>1. closed \in Nat /\ closed <= end
    BY <1>0 DEF IInv, SizesKnown
  <2>2. n.at + n.full <= Len(file') /\ n.at >= closed'
    BY <1>1, <1>2, <1>5, <1>6, <1>11, <2>1
  <2>. QED
    BY <2>2 DEF IsPlaced
<1>13. AsAsked(n)'
  <2>1. WrittenAt(file', end, Head_(e, o) \o Data(e, o))
    BY <1>b, <1>6
  <2>2. n = Slot(end, ElementSize(e, o), e) /\ obj'[e] = Placed(e, o, end)
    BY <1>b, <1>c, <1>10
  <2>3. o.Size # 0
    BY <1>2, <1>5
  <2>. QED
    BY <1>2, <1>6, <1>7, <1>8, <1>12, <2>1, <2>2, <2>3, LeafIsWritten
<1>14. SizesKnown'
  <2>1. \A x \in Leaves \cup Voids : obj'[x].bSizeIsFinite
    BY <1>9, <1>10, Zenon DEF IInv, SizesKnown
  <2>2. obj'[Master] = obj[Master]
    BY <1>2, <1>10, Zenon
  <2>3. Len(file') \in Nat /\ end <= Len(file')
    BY <1>2, <1>5, <1>6
  <2>. QED
    BY <1>0, <1>1, <2>1, <2>2, <2>3, SizesStayKnown
<1>15. Width(n)' = Len(w)
  BY <1>2, <1>4, <1>11 DEF Width
<1>16. n = Slot(Len(file), Len(w), e) /\ Len(w) # 0 /\ file' = Overlay(file, Len(file), w)
  BY <1>0, <1>c, <1>1, <1>2, <1>4, <1>5
<1>. QED
  BY <1>1, <1>2, <1>4, <1>9, <1>13, <1>14, <1>15, <1>16, Appended

(* Until it is in the file the master's size is not known.                 *)
LEMMA NewMaster ==
  ASSUME IInv, ~ InFile(Master)
  PROVE  /\ obj[Master].bSizeIsFinite = FALSE /\ closed = NotClosed
         /\ obj[Master] \in ObjectState
<1>1. Master \in Object
  BY IdFacts
<1>2. obj[Master] \in ObjectState
  BY <1>1 DEF IInv
<1>3. ~ obj[Master].bSizeIsFinite
  BY Zenon DEF IInv, SizesKnown, InFile
<1>4. closed = NotClosed
  BY <1>3, Zenon DEF IInv, SizesKnown
<1>5. obj[Master].bSizeIsFinite \in BOOLEAN
  BY <1>2 DEF ObjectState
<1>. QED
  BY <1>2, <1>3, <1>4, <1>5, Zenon

(* WriteHead appends a master's head of unknown size.                      *)
LEMMA WriteHeadKeepsIInv ==
  ASSUME IInv, NEW length \in MasterSizeLengths, WriteHead(length)
  PROVE  IInv' /\ InPlace
<1>0. PICK b, end : b = obj[Master] /\ end = Len(file)
  OBVIOUS
<1>a. PICK o : o = Given(b, 0, length)
  OBVIOUS
<1>b. PICK w, z : w = Head_(Master, o) /\ z = Placed(Master, o, end)
  OBVIOUS
<1>c. PICK n : n = Slot(end, HeadSize(Master, o), Master)
  OBVIOUS
<1>1. /\ file' = Overlay(file, end, w) /\ obj' = [obj EXCEPT ![Master] = z]
      /\ slots' = slots \cup {n} /\ Len(file') <= FileMax /\ closed' = closed
      /\ ~ InFile(Master)
  BY <1>0, <1>a, <1>b, <1>c DEF WriteHead, Given
<1>2. /\ Master \in Anything /\ Master \in Object /\ length \in 0 .. SizeMax
      /\ Master \notin Leaves \cup Voids
      /\ end \in Nat /\ file \in Seq(FileOctet)
  BY <1>0, IdFacts, SizesAssumption DEF Anything, IInv
<1>3. b \in ObjectState /\ b.bSizeIsFinite = FALSE /\ closed = NotClosed
  BY <1>0, <1>1, NewMaster
<1>4. /\ o \in ObjectState /\ o.Size = 0 /\ o.SizeLength = length
      /\ o.bSizeIsFinite = FALSE
  <2>1. o \in ObjectState /\ o.Size = 0 /\ o.SizeLength = length
    <3>1. 0 \in 0 .. FileMax
      BY SizeFacts
    <3>. QED
      BY <1>a, <1>2, <1>3, <3>1 DEF Given, ObjectState
  <2>2. o.bSizeIsFinite = FALSE
    BY <1>a, <1>3, Zenon DEF Given, ObjectState
  <2>. QED
    BY <2>1, <2>2
<1>5. IsCodable(o)
  <2>1. o.SizeLength \in 0 .. SizeMax /\ o.bSizeIsFinite \in BOOLEAN
    BY <1>2, <1>4
  <2>. QED
    BY <1>4, <2>1, EmptyIsCodable
<1>6. PICK k : /\ k = HeadSize(Master, o) /\ k \in Nat /\ k >= 2
               /\ ElementSize(Master, o) = k
  <2>1. /\ ElementSize(Master, o) = HeadSize(Master, o) + o.Size
        /\ HeadSize(Master, o) \in Nat /\ HeadSize(Master, o) >= 2
    BY <1>2, <1>5, SizesAre
  <2>. QED
    BY <1>4, <2>1
<1>7. w \in Seq(FileOctet) /\ Len(w) = k
  <2>1. o.Size \in Nat /\ SizeOctets(o) \in Nat \ {0}
    BY <1>2, <1>5, SizesAre
  <2>. QED
    BY <1>b, <1>2, <1>6, <2>1, HeadIs
<1>8. /\ file' \in Seq(FileOctet) /\ Len(file') = end + k
      /\ WrittenAt(file', end, w)
  BY <1>0, <1>1, <1>7, Behind
<1>9. /\ z \in ObjectState /\ z.ElementPosition = end /\ z.Size = 0
      /\ z.bSizeIsFinite = FALSE /\ SizeOctets(z) = SizeOctets(o)
      /\ HeadSize(Master, z) = k /\ ElementSize(Master, z) = k
  <2>1. end + HeadSize(Master, o) <= FileMax
    BY <1>1, <1>6, <1>8
  <2>2. /\ z \in ObjectState /\ z.ElementPosition = end /\ z.Size = o.Size
        /\ z.bSizeIsFinite = o.bSizeIsFinite /\ SizeOctets(z) = SizeOctets(o)
        /\ HeadSize(Master, z) = HeadSize(Master, o)
        /\ ElementSize(Master, z) = ElementSize(Master, o)
    BY <1>b, <1>2, <1>4, <1>5, <2>1, PlacedIs
  <2>. QED
    BY <1>4, <1>6, <2>2, Zenon
<1>10. obj'[Master] = z /\ \A x : x # Master => obj'[x] = obj[x]
  BY <1>1, <1>2, <1>9, OneObject, Zenon
<1>11. n.at = end /\ n.full = k /\ n.holder = Master
  BY <1>c, <1>6 DEF Slot
<1>12. Width(n)' = k
  BY <1>9, <1>10, <1>11 DEF Width
<1>13. AsAsked(n)'
  <2>1. /\ HoldsHead(file', end, Master, k)
        /\ IsCode(file'[end + ID_LENGTH[Master] + 1], Master, SizeOctets(o))
    <3>1. /\ HoldsHead(file', end, Master, ElementSize(Master, o))
          /\ IsCode(file'[end + ID_LENGTH[Master] + 1], Master, SizeOctets(o))
      BY <1>b, <1>2, <1>5, <1>8, CodedHeadIsRead, Zenon DEF HeadFound
    <3>. QED
      BY <1>6, <3>1
  <2>2. HoldsData(file, n)'
    BY <1>2, <1>11, Zenon DEF HoldsData
  <2>3. IsHeld(n)'
    BY <1>2, <1>9, <1>10, <1>11, <2>1, Zenon DEF IsHeld
  <2>4. IsPlaced(n)'
    <3>1. n.at + n.full <= Len(file')
      BY <1>2, <1>6, <1>8, <1>11
    <3>. QED
      BY <1>1, <1>3, <3>1 DEF IsPlaced
  <2>5. HoldsHead(file', n.at, n.holder, n.full)
    BY <1>11, <2>1
  <2>. QED
    BY <2>2, <2>3, <2>4, <2>5, Zenon DEF AsAsked
<1>14. SizesKnown'
  <2>1. \A x \in Leaves \cup Voids : obj'[x].bSizeIsFinite
    BY <1>2, <1>10, Zenon DEF IInv, SizesKnown
  <2>2. closed' <= Len(file')
    BY <1>1, <1>2, <1>3, <1>6, <1>8 DEF NotClosed
  <2>. QED
    BY <1>1, <1>3, <1>9, <1>10, <2>1, <2>2, Zenon DEF SizesKnown, NotClosed
<1>15. n = Slot(Len(file), Len(w), Master) /\ Len(w) # 0 /\ Width(n)' = Len(w)
       /\ file' = Overlay(file, Len(file), w)
  BY <1>0, <1>c, <1>1, <1>6, <1>7, <1>12
<1>. QED
  BY <1>1, <1>2, <1>7, <1>9, <1>13, <1>14, <1>15, Appended

(* Places that take the place of one, of its octets.                       *)
LEMMA TakesThePlace ==
  ASSUME NEW d \in slots, NEW N, IInv, slots' = (slots \ {d}) \cup N,
         Len(file') = Len(file), \A t \in slots : t # d => Width(t)' = Width(t),
         Tiling(N, [s \in slots' |-> s.at + 1 .. s.at + Width(s)'],
                d.at + 1 .. d.at + Width(d))
  PROVE  Tiling(slots, Extents, 1 .. Len(file))'
<1>1. PICK extent, ext, range :
        /\ extent = Extents /\ ext = [s \in slots' |-> s.at + 1 .. s.at + Width(s)']
        /\ range = 1 .. Len(file)
  OBVIOUS
<1>2. Extents' = ext
  BY <1>1 DEF Extents
<1>3. \A s \in slots \ {d} : ext[s] = extent[s]
  BY <1>1 DEF Extents
<1>4. Tiling(slots, extent, range)
  BY <1>1 DEF IInv
<1>5. extent[d] = d.at + 1 .. d.at + Width(d)
  BY <1>1 DEF Extents
<1>6. Tiling(N, ext, extent[d])
  BY <1>1, <1>5
<1>7. Tiling(slots', ext, range)
  BY <1>3, <1>4, <1>6, Divided, Zenon
<1>. QED
  BY <1>1, <1>2, <1>7

(* The void element that Overwrite makes of an element fills it, and the   *)
(* octets outside of it stay.                                              *)
IsOverwritten(d, v, z) ==
  /\ file' \in Seq(FileOctet) /\ Len(file') = Len(file)
  /\ HoldsHead(file', d.at, v, d.full)
  /\ IsCode(file'[d.at + ID_LENGTH[v] + 1], v, SizeOctets(z))
  /\ \A t \in slots : t # d => Agree(file, file', t.at, t.at + Width(t))
  /\ z \in ObjectState /\ z.bSizeIsFinite
  /\ z.ElementPosition = d.at /\ ElementSize(v, z) = d.full

(* Overwrite and VoidMe write a head that fits in the element's place, and *)
(* make the void element an object of that place.                          *)
LEMMA VoidedIs ==
  ASSUME NEW e \in Leaves, NEW d \in slots, NEW v \in Voids \cup {Filler}, NEW o, NEW done,
         IInv, IsVoidable(e), d.holder = e, IsSized(o),
         done = Voided(e, v, o), file' = done.file
  PROVE  IsOverwritten(d, v, done.o)
<1>0. PICK b, full, at : b = obj[e] /\ full = ElementSize(e, b) /\ at = b.ElementPosition
  OBVIOUS
<1>1. /\ e \in Object /\ e # Master /\ e \in Anything /\ v \in Anything
      /\ file \in Seq(FileOctet)
  BY IdFacts DEF Anything, IInv
<1>2. at = d.at /\ full = d.full /\ b.Size # 0
  BY <1>0, <1>1, Zenon DEF IInv, AsAsked, IsHeld
<1>3. /\ d.at \in Nat /\ d.full \in Nat /\ Width(d) = d.full
      /\ d.at + d.full <= Len(file) /\ Len(file) \in Nat /\ Len(file) <= FileMax
  <2>1. Width(d) = d.full
    BY <1>1 DEF Width
  <2>. QED
    BY <2>1, SlotFacts
<1>4. full > 2
  <2>1. IsCodable(b)
    BY <1>0, <1>1, ObjectsAreCodable
  <2>2. /\ ElementSize(e, b) = HeadSize(e, b) + b.Size
        /\ HeadSize(e, b) \in Nat /\ HeadSize(e, b) >= 2 /\ b.Size \in Nat
    BY <1>1, <2>1, SizesAre
  <2>3. PICK h, n : h = HeadSize(e, b) /\ n = b.Size
    OBVIOUS
  <2>4. full = h + n /\ h \in Nat /\ h >= 2 /\ n \in Nat /\ n # 0
    BY <1>0, <1>2, <2>2, <2>3
  <2>. QED
    BY <2>4
<1>5. full \in 2 .. FileMax
  BY <1>2, <1>3, <1>4, SizeFacts
<1>6. PICK sized : sized = SetVoidSize(o, full)
  OBVIOUS
<1>7. /\ IsSized(sized) /\ IsCodable(sized) /\ sized \in ObjectState
      /\ ElementSize(v, sized) = full /\ HeadSize(v, sized) <= full
      /\ sized.Size # 0
  <2>1. /\ IsSized(sized) /\ IsCodable(sized)
        /\ ElementSize(v, sized) = full /\ HeadSize(v, sized) <= full
        /\ full > 2 => sized.Size # 0
    <3>1. IsFull(v, sized, full)
      BY <1>5, <1>6, VoidIs, Zenon
    <3>. QED
      BY <3>1 DEF IsFull
  <2>. QED
    BY <1>4, <2>1 DEF IsSized
<1>8. PICK w : w = Head_(v, sized)
  OBVIOUS
<1>9. done.o = Placed(v, sized, at) /\ file' = Overlay(file, at, w)
  BY <1>0, <1>6, <1>7, <1>8 DEF Voided
<1>10. /\ w \in Seq(FileOctet) /\ Len(w) = HeadSize(v, sized) /\ HeadSize(v, sized) \in Nat
  <2>1. sized.Size \in Nat /\ SizeOctets(sized) \in Nat \ {0}
    BY <1>1, <1>7, SizesAre
  <2>. QED
    BY <1>1, <1>8, <2>1, HeadIs
<1>11. /\ file' \in Seq(FileOctet) /\ Len(file') = Len(file)
       /\ WrittenAt(file', at, w)
       /\ \A t \in slots : t # d => Agree(file, file', t.at, t.at + Width(t))
  <2>1. at \in Nat /\ d.at <= at /\ at + Len(w) <= d.at + Width(d)
    BY <1>2, <1>3, <1>7, <1>10
  <2>. QED
    BY <1>9, <1>10, <2>1, Elsewhere
<1>12. HeadFound(file', at, v, sized)
  <2>1. at \in Nat
    BY <1>2, <1>3
  <2>. QED
    BY <1>1, <1>7, <1>8, <1>11, <2>1, CodedHeadIsRead, Zenon
<1>13. PICK z : z = done.o
  OBVIOUS
<1>14. /\ z \in ObjectState /\ z.ElementPosition = at
       /\ z.bSizeIsFinite = sized.bSizeIsFinite
       /\ SizeOctets(z) = SizeOctets(sized) /\ ElementSize(v, z) = full
  <2>1. at \in Nat /\ at + HeadSize(v, sized) <= FileMax
    BY <1>2, <1>3, <1>7, <1>10, SizeFacts
  <2>2. z = Placed(v, sized, at)
    BY <1>9, <1>13
  <2>. QED
    BY <1>1, <1>7, <2>1, <2>2, PlacedIs
<1>15. z.bSizeIsFinite
  BY <1>7, <1>14, Zenon DEF IsSized
<1>. QED
  BY <1>2, <1>7, <1>11, <1>12, <1>13, <1>14, <1>15, Zenon DEF IsOverwritten, HeadFound

(* A void element's head is one of any.                                    *)
LEMMA AnyVoid ==
  ASSUME NEW f, NEW at, NEW full, NEW v \in Voids \cup {Filler}, HoldsHead(f, at, v, full)
  PROVE  HoldsHead(f, at, Filler, full)
<1>1. ID_LENGTH[v] = ID_LENGTH[Filler] /\ ClassId(v) = ClassId(Filler)
  BY IdFacts
<1>. QED
  BY <1>1 DEF HoldsHead

(* The place of an element in the file.                                    *)
LEMMA OneSlot ==
  ASSUME IInv, NEW e \in Object, InFile(e)
  PROVE  SlotOf(e) \in slots /\ SlotOf(e).holder = e
         /\ \A s \in slots : s.holder = e => s = SlotOf(e)
<1>1. SlotOf(e) \in slots /\ SlotOf(e).holder = e
  BY DEF InFile, SlotOf
<1>2. e # Filler
  BY IdFacts
<1>. QED
  BY <1>1, <1>2, Zenon DEF IInv, OneObjectEach

(* VoidMe puts a void element that no object stands for in a leaf's place. *)
LEMMA VoidMeKeepsIInv ==
  ASSUME IInv, NEW e \in Leaves, VoidMe(e)
  PROVE  IInv' /\ InPlace
<1>0. PICK d, o : d = SlotOf(e) /\ o = NewObject(TRUE)
  OBVIOUS
<1>a. PICK m, done : m = [d EXCEPT !.holder = Filler] /\ done = Voided(e, Filler, o)
  OBVIOUS
<1>1. /\ IsVoidable(e) /\ file' = done.file /\ slots' = (slots \ {d}) \cup {m}
      /\ obj' = obj /\ closed' = closed
  BY <1>0, <1>a DEF VoidMe
<1>2. /\ e \in Object /\ e # Master /\ e # Filler
      /\ Filler \notin Object /\ Filler # Master /\ Filler \notin Leaves
      /\ Filler \in Anything
  BY IdFacts DEF Object
<1>3. d \in slots /\ d.holder = e
  BY <1>0, <1>1, <1>2, OneSlot DEF IsVoidable
<1>4. IsOverwritten(d, Filler, done.o)
  <2>1. IsSized(o) /\ Filler \in Voids \cup {Filler}
    BY <1>0, NewIsSized
  <2>. QED
    BY <1>a, <1>1, <1>3, <2>1, VoidedIs, Zenon
<1>5. /\ file' \in Seq(FileOctet) /\ Len(file') = Len(file)
      /\ HoldsHead(file', d.at, Filler, d.full)
      /\ \A t \in slots : t # d => Agree(file, file', t.at, t.at + Width(t))
  BY <1>4, Zenon DEF IsOverwritten
<1>6. d \in SlotType /\ file \in Seq(FileOctet) /\ slots \subseteq SlotType
      /\ IsPlaced(d) /\ OneObjectEach /\ SizesKnown /\ closed \in Nat
      /\ obj \in [Object -> ObjectState] /\ Len(file) <= FileMax
  BY <1>3, Zenon DEF IInv, AsAsked
<1>b. Len(file) \in Nat
  BY <1>6
<1>7. m.at = d.at /\ m.full = d.full /\ m.holder = Filler /\ m \in SlotType
  BY <1>a, <1>2, <1>6 DEF SlotType
<1>8. ASSUME NEW t \in slots, t # d
      PROVE  AsAsked(t)' /\ Width(t)' = Width(t)
  <2>1. Len(file) <= Len(file') /\ Agree(file, file', t.at, t.at + Width(t))
    BY <1>b, <1>5, <1>8
  <2>2. obj'[t.holder] = obj[t.holder]
    BY <1>1
  <2>. QED
    BY <1>1, <1>5, <2>1, <2>2, SlotStays
<1>9. AsAsked(m)'
  <2>1. HoldsHead(file', m.at, m.holder, m.full)
    BY <1>5, <1>7
  <2>2. HoldsData(file, m)'
    BY <1>2, <1>7, Zenon DEF HoldsData
  <2>3. IsHeld(m)'
    BY <1>2, <1>7, Zenon DEF IsHeld
  <2>4. IsPlaced(m)'
    BY <1>1, <1>5, <1>6, <1>7 DEF IsPlaced
  <2>. QED
    BY <2>1, <2>2, <2>3, <2>4, Zenon DEF AsAsked
<1>10. Width(m)' = Width(d)
  BY <1>2, <1>3, <1>7 DEF Width
<1>11. Tiling(slots, Extents, 1 .. Len(file))'
  <2>1. PICK ext : ext = [s \in slots' |-> s.at + 1 .. s.at + Width(s)']
    OBVIOUS
  <2>2. m \in slots' /\ ext[m] = d.at + 1 .. d.at + Width(d)
    BY <1>1, <1>7, <1>10, <2>1
  <2>3. Tiling({m}, ext, d.at + 1 .. d.at + Width(d))
    BY <2>2 DEF Tiling
  <2>. QED
    BY <1>1, <1>3, <1>5, <1>8, <2>1, <2>3, TakesThePlace
<1>12. OneObjectEach'
  <2>1. ASSUME NEW s \in slots', NEW t \in slots', s.holder = t.holder, s.holder # Filler
        PROVE  s = t
    BY <1>1, <1>6, <1>7, <2>1 DEF OneObjectEach
  <2>. QED
    BY <2>1 DEF OneObjectEach
<1>13. SizesKnown'
  <2>1. \A x \in Leaves \cup Voids : obj'[x].bSizeIsFinite
    BY <1>1, <1>6, Zenon DEF SizesKnown
  <2>2. \A s \in slots : s.holder = Master => s \in slots'
    BY <1>1, <1>2, <1>3
  <2>3. obj'[Master] = obj[Master] /\ Len(file) <= Len(file') /\ Len(file') \in Nat
    BY <1>b, <1>1, <1>5
  <2>. QED
    BY <1>1, <2>1, <2>2, <2>3, SizesStayKnown
<1>14. slots' \subseteq SlotType
  BY <1>1, <1>6, <1>7
<1>15. \A s \in slots' : AsAsked(s)'
  BY <1>1, <1>8, <1>9
<1>16. /\ obj' \in [Object -> ObjectState] /\ closed' \in Nat
       /\ Len(file') <= FileMax
  BY <1>1, <1>5, <1>6
<1>17. InPlace
  <2>1. d \notin slots'
    BY <1>1, <1>2, <1>3, <1>7
  <2>. QED
    BY <1>3, <1>5, <2>1, WithinOnePlace
<1>18. IInv'
  BY <1>5, <1>11, <1>12, <1>13, <1>14, <1>15, <1>16, Zenon DEF IInv
<1>. QED
  BY <1>17, <1>18

(* The place of a void element whose object is used for another.           *)
LEMMA VoidIsForgotten ==
  ASSUME NEW s \in slots, NEW v \in Voids, NEW m, IInv, file' \in Seq(FileOctet),
         Len(file) <= Len(file'), Agree(file, file', s.at, s.at + Width(s)),
         s.holder = v, m = [s EXCEPT !.holder = Filler], closed' = closed
  PROVE  AsAsked(m)' /\ Width(m)' = Width(s)
<1>1. /\ v # Master /\ Filler \notin Object /\ Filler # Master /\ Filler \notin Leaves
      /\ v \in Voids \cup {Filler}
  BY IdFacts DEF Object
<1>2. s \in SlotType /\ IsPlaced(s)
  BY Zenon DEF IInv, AsAsked
<1>3. m.at = s.at /\ m.full = s.full /\ m.holder = Filler
  BY <1>2 DEF SlotType
<1>4. HoldsHead(file', m.at, m.holder, m.full)
  <2>1. HoldsHead(file', s.at, v, s.full)
    BY HeadIsKept
  <2>2. HoldsHead(file', s.at, Filler, s.full)
    BY <1>1, <2>1, AnyVoid
  <2>. QED
    BY <1>3, <2>2
<1>5. HoldsData(file, m)'
  BY <1>1, <1>3, Zenon DEF HoldsData
<1>6. IsHeld(m)'
  BY <1>1, <1>3, Zenon DEF IsHeld
<1>7. IsPlaced(m)'
  <2>1. /\ s.at \in Nat /\ s.full \in Nat /\ s.at + s.full <= Len(file)
        /\ Len(file) \in Nat /\ Len(file') \in Nat
    BY SlotFacts
  <2>2. m.at + m.full <= Len(file')
    BY <1>3, <2>1
  <2>. QED
    BY <1>2, <1>3, <2>2 DEF IsPlaced
<1>8. Width(m)' = Width(s)
  BY <1>1, <1>3 DEF Width
<1>. QED
  BY <1>4, <1>5, <1>6, <1>7, <1>8, Zenon DEF AsAsked

(* Overwrite puts the void element's object in a leaf's place; where the   *)
(* object was before remains a void element that none stands for.          *)
LEMMA OverwriteKeepsIInv ==
  ASSUME IInv, NEW e \in Leaves, NEW v \in Voids, Overwrite(v, e)
  PROVE  IInv' /\ InPlace
<1>0. PICK d, o : d = SlotOf(e) /\ o = obj[v]
  OBVIOUS
<1>a. PICK done : done = Voided(e, v, o)
  OBVIOUS
<1>b. PICK z, m, F :
        /\ z = done.o /\ m = [d EXCEPT !.holder = v]
        /\ F = [s \in slots |-> IF s.holder = e THEN [s EXCEPT !.holder = v]
                                ELSE IF s.holder = v THEN [s EXCEPT !.holder = Filler]
                                ELSE s]
  OBVIOUS
<1>1. /\ IsVoidable(e) /\ file' = done.file /\ obj' = [obj EXCEPT ![v] = z]
      /\ slots' = {F[s] : s \in slots} /\ closed' = closed
  BY <1>0, <1>a, <1>b DEF Overwrite
<1>2. /\ e \in Object /\ e # Master /\ e # Filler /\ e # v
      /\ v \in Object /\ v # Master /\ v # Filler /\ v \notin Leaves
      /\ v \in Voids \cup {Filler} /\ v \in Anything
      /\ Filler \notin Object /\ Filler # Master /\ Filler \in Anything
  BY IdFacts, ObjectAssumption DEF Object, Anything
<1>3. d \in slots /\ d.holder = e /\ \A s \in slots : s.holder = e => s = d
  BY <1>0, <1>1, <1>2, OneSlot DEF IsVoidable
<1>4. IsOverwritten(d, v, z)
  <2>1. IsSized(o)
    BY <1>0, <1>2, ObjectsAreCodable, Zenon DEF IsSized, IInv, SizesKnown
  <2>. QED
    BY <1>a, <1>b, <1>1, <1>2, <1>3, <2>1, VoidedIs, Zenon
<1>5. /\ file' \in Seq(FileOctet) /\ Len(file') = Len(file)
      /\ HoldsHead(file', d.at, v, d.full)
      /\ IsCode(file'[d.at + ID_LENGTH[v] + 1], v, SizeOctets(z))
      /\ \A t \in slots : t # d => Agree(file, file', t.at, t.at + Width(t))
      /\ z \in ObjectState /\ z.bSizeIsFinite
      /\ z.ElementPosition = d.at /\ ElementSize(v, z) = d.full
  BY <1>4, Zenon DEF IsOverwritten
<1>6. d \in SlotType /\ file \in Seq(FileOctet) /\ slots \subseteq SlotType
      /\ IsPlaced(d) /\ OneObjectEach /\ SizesKnown /\ closed \in Nat
      /\ Len(file) <= FileMax
  BY <1>3, Zenon DEF IInv, AsAsked
<1>7. Len(file) \in Nat
  BY <1>6
<1>8. obj' \in [Object -> ObjectState] /\ obj'[v] = z /\ \A x : x # v => obj'[x] = obj[x]
  BY <1>1, <1>2, <1>5, OneObject, Zenon
<1>9. ASSUME NEW s \in slots
      PROVE  /\ F[s] \in SlotType /\ F[s].at = s.at
             /\ F[s].holder = IF s.holder = e THEN v
                              ELSE IF s.holder = v THEN Filler ELSE s.holder
             /\ s # d => AsAsked(F[s])' /\ Width(F[s])' = Width(s)
  <2>1. s \in SlotType /\ Len(file) <= Len(file')
    BY <1>5, <1>6, <1>7
  <2>2. CASE s.holder = e
    <3>1. F[s] = [s EXCEPT !.holder = v] /\ s = d
      BY <1>b, <1>3, <2>2
    <3>. QED
      BY <1>2, <2>1, <2>2, <3>1 DEF SlotType
  <2>3. CASE s.holder = v
    <3>1. F[s] = [s EXCEPT !.holder = Filler] /\ s # d
      BY <1>b, <1>2, <1>3, <2>3
    <3>2. Agree(file, file', s.at, s.at + Width(s))
      BY <1>5, <3>1
    <3>3. AsAsked(F[s])' /\ Width(F[s])' = Width(s)
      <4>1. PICK n : n = F[s]
        OBVIOUS
      <4>. QED
        BY <1>1, <1>5, <2>1, <2>3, <3>1, <3>2, <4>1, VoidIsForgotten
    <3>. QED
      BY <1>2, <2>1, <2>3, <3>1, <3>3 DEF SlotType
  <2>4. CASE s.holder # e /\ s.holder # v
    <3>1. F[s] = s /\ s # d
      BY <1>b, <1>3, <2>4
    <3>2. Agree(file, file', s.at, s.at + Width(s)) /\ obj'[s.holder] = obj[s.holder]
      BY <1>5, <1>8, <2>4, <3>1
    <3>3. AsAsked(s)' /\ Width(s)' = Width(s)
      BY <1>1, <1>5, <2>1, <3>2, SlotStays
    <3>. QED
      BY <2>1, <2>4, <3>1, <3>3
  <2>. QED
    BY <2>2, <2>3, <2>4
<1>10. F[d] = m /\ m.at = d.at /\ m.full = d.full /\ m.holder = v
  BY <1>b, <1>3, <1>6 DEF SlotType
<1>11. AsAsked(m)'
  <2>1. HoldsHead(file', m.at, m.holder, m.full)
    BY <1>5, <1>10
  <2>2. HoldsData(file, m)'
    BY <1>2, <1>10, Zenon DEF HoldsData
  <2>3. IsHeld(m)'
    BY <1>2, <1>5, <1>8, <1>10, Zenon DEF IsHeld
  <2>4. IsPlaced(m)'
    BY <1>1, <1>5, <1>6, <1>10 DEF IsPlaced
  <2>. QED
    BY <2>1, <2>2, <2>3, <2>4, Zenon DEF AsAsked
<1>12. Width(m)' = Width(d)
  BY <1>2, <1>3, <1>10 DEF Width
<1>13. \A s \in slots : AsAsked(F[s])' /\ Width(F[s])' = Width(s)
  BY <1>9, <1>10, <1>11, <1>12
<1>14. Tiling(slots, Extents, 1 .. Len(file))'
  <2>1. PICK extent, ext, range :
          /\ extent = Extents /\ ext = [s \in slots' |-> s.at + 1 .. s.at + Width(s)']
          /\ range = 1 .. Len(file)
    OBVIOUS
  <2>2. Extents' = ext
    BY <2>1 DEF Extents
  <2>3. Tiling(slots, extent, range)
    BY <2>1 DEF IInv
  <2>4. \A s \in slots : ext[F[s]] = extent[s]
    BY <1>1, <1>9, <1>13, <2>1 DEF Extents
  <2>5. Tiling({F[s] : s \in slots}, ext, range)
    BY <2>3, <2>4 DEF Tiling
  <2>. QED
    BY <1>1, <1>5, <2>1, <2>2, <2>5
<1>15. OneObjectEach'
  <2>1. ASSUME NEW s \in slots, NEW t \in slots,
               F[s].holder = F[t].holder, F[s].holder # Filler
        PROVE  F[s] = F[t]
    <3>1. s.holder = t.holder /\ s.holder # Filler
      BY <1>2, <1>9, <2>1
    <3>. QED
      BY <1>6, <3>1 DEF OneObjectEach
  <2>. QED
    BY <1>1, <2>1 DEF OneObjectEach
<1>16. SizesKnown'
  <2>1. \A x \in Leaves \cup Voids : obj'[x].bSizeIsFinite
    BY <1>5, <1>6, <1>8, Zenon DEF SizesKnown
  <2>2. \A s \in slots : s.holder = Master => s \in slots'
    <3>1. \A s \in slots : s.holder = Master => F[s] = s
      BY <1>b, <1>2
    <3>. QED
      BY <1>1, <3>1
  <2>3. obj'[Master] = obj[Master] /\ Len(file) <= Len(file') /\ Len(file') \in Nat
    BY <1>2, <1>5, <1>7, <1>8
  <2>. QED
    BY <1>1, <2>1, <2>2, <2>3, SizesStayKnown
<1>17. slots' \subseteq SlotType
  BY <1>1, <1>9
<1>18. \A s \in slots' : AsAsked(s)'
  BY <1>1, <1>13
<1>19. closed' \in Nat /\ Len(file') <= FileMax
  BY <1>1, <1>5, <1>6
<1>20. InPlace
  <2>1. d \notin slots'
    <3>1. \A s \in slots : F[s].holder # e
      BY <1>2, <1>9
    <3>. QED
      BY <1>1, <1>3, <3>1
  <2>. QED
    BY <1>3, <1>5, <2>1, WithinOnePlace
<1>21. IInv'
  BY <1>5, <1>8, <1>14, <1>15, <1>16, <1>17, <1>18, <1>19, Zenon DEF IInv
<1>. QED
  BY <1>20, <1>21

(* What ReplaceWith writes behind the element: the head of a void element, *)
(* unless the element takes all the octets.                                *)
Rest(o, n) == IF n # 0 THEN Head_(Filler, o) ELSE << >>

(* The void element behind the one that ReplaceWith renders fills what is  *)
(* left, when something is.                                                *)
LEMMA RestIs ==
  ASSUME NEW n \in 0 .. FileMax, NEW o, LeavesRoom(n),
         o = SetVoidSize(NewObject(TRUE), n)
  PROVE  /\ Rest(o, n) \in Seq(FileOctet) /\ Len(Rest(o, n)) <= n
         /\ n # 0 => IsCodable(o) /\ ElementSize(Filler, o) = n
<1>1. Filler \in Voids \cup {Filler} /\ Filler \in Anything /\ ID_LENGTH[Filler] = 1
  BY IdFacts
<1>2. CASE n = 0
  <2>1. Rest(o, n) = << >>
    BY <1>2 DEF Rest
  <2>2. << >> \in Seq(FileOctet) /\ Len(<< >>) = 0 /\ 0 <= 0
    OBVIOUS
  <2>3. Rest(o, n) \in Seq(FileOctet) /\ Len(Rest(o, n)) = 0
    BY <2>1, <2>2, Zenon
  <2>4. Len(Rest(o, n)) <= n
    BY <1>2, <2>2, <2>3, Zenon
  <2>. QED
    BY <1>2, <2>3, <2>4, Zenon
<1>3. CASE n # 0
  <2>1. n \in 2 .. FileMax
    BY <1>1, <1>3, SizeFacts DEF LeavesRoom
  <2>2. PICK b : b = NewObject(TRUE)
    OBVIOUS
  <2>3. IsSized(b) /\ o = SetVoidSize(b, n)
    BY <2>2, NewIsSized
  <2>4. IsCodable(o) /\ ElementSize(Filler, o) = n /\ HeadSize(Filler, o) <= n
    <3>1. PICK q : q = Filler
      OBVIOUS
    <3>2. q \in Voids \cup {Filler}
      BY <3>1
    <3>3. IsFull(q, o, n)
      BY <2>1, <2>3, <3>2, VoidIs, Zenon
    <3>. QED
      BY <3>1, <3>3, Zenon DEF IsFull
  <2>5. Rest(o, n) = Head_(Filler, o)
    BY <1>3 DEF Rest
  <2>6. Head_(Filler, o) \in Seq(FileOctet) /\ Len(Head_(Filler, o)) = HeadSize(Filler, o)
    <3>1. o.Size \in Nat /\ SizeOctets(o) \in Nat \ {0}
      BY <1>1, <2>4, SizesAre
    <3>. QED
      BY <1>1, <3>1, HeadIs
  <2>. QED
    BY <2>4, <2>5, <2>6
<1>. QED
  BY <1>2, <1>3

(* ReplaceWith puts an element, and a void element for what it leaves, in  *)
(* the place of a void element.                                            *)
LEMMA ReplaceWithKeepsIInv ==
  ASSUME IInv, 0 \notin Sizes, NEW e \in Leaves, NEW v \in Voids, NEW size \in Sizes,
         NEW length \in SizeLengths, ReplaceWith(v, e, size, length)
  PROVE  IInv' /\ InPlace
<1>0. PICK d, b, at : d = SlotOf(v) /\ b = obj[e] /\ at = obj[v].ElementPosition
  OBVIOUS
<1>a. PICK o : o = Given(b, size, length)
  OBVIOUS
<1>b. PICK w, z, full : /\ w = Head_(e, o) \o Data(e, o)
                        /\ z = Placed(e, o, at) /\ full = ElementSize(e, o)
  OBVIOUS
<1>c. PICK left : left = ElementSize(v, obj[v]) - full
  OBVIOUS
<1>d. PICK r, n, m : /\ r = SetVoidSize(NewObject(TRUE), left)
                     /\ n = Slot(at, full, e) /\ m = Slot(at + full, left, Filler)
  OBVIOUS
<1>e. PICK rest, N : rest = Rest(r, left) /\ N = {n} \cup (IF left # 0 THEN {m} ELSE {})
  OBVIOUS
<1>1. /\ InFile(v) /\ ~ InFile(e) /\ LeavesRoom(left)
      /\ file' = Overlay(file, at, w \o rest) /\ obj' = [obj EXCEPT ![e] = z]
      /\ slots' = (slots \ {d}) \cup N /\ closed' = closed
  <2>1. /\ InFile(v) /\ ~ InFile(e) /\ LeavesRoom(left)
        /\ file' = Overlay(file, at, w \o rest) /\ obj' = [obj EXCEPT ![e] = z]
        /\ slots' = (slots \ {d}) \cup {n} \cup (IF left # 0 THEN {m} ELSE {})
        /\ closed' = closed
    BY <1>0, <1>a, <1>b, <1>c, <1>d, <1>e DEF ReplaceWith, Given, Rest
  <2>2. (slots \ {d}) \cup {n} \cup (IF left # 0 THEN {m} ELSE {}) = (slots \ {d}) \cup N
    BY <1>e
  <2>. QED
    BY <2>1, <2>2
<1>2. /\ e \in Anything /\ e \in Object /\ e \in Leaves \cup Voids /\ e # Master
      /\ e # Filler /\ v \in Object /\ v # Master /\ v \in Anything
      /\ Filler \notin Object /\ Filler # Master /\ Filler \notin Leaves
      /\ Filler \in Anything /\ ID_LENGTH[Filler] = 1
      /\ size \in Nat /\ size # 0 /\ length \in 0 .. SizeMax
  BY IdFacts, SizesAssumption DEF Anything, Object
<1>3. /\ file \in Seq(FileOctet) /\ slots \subseteq SlotType /\ OneObjectEach
      /\ SizesKnown /\ closed \in Nat /\ Len(file) <= FileMax
  BY Zenon DEF IInv
<1>4. d \in slots /\ d.holder = v
  BY <1>0, <1>1, <1>2, OneSlot
<1>5. PICK c, len, k : /\ c = d.full /\ len = Len(file) /\ k = closed
                       /\ at = d.at /\ left = c - full /\ IsPlaced(d)
  BY <1>0, <1>2, <1>4, <1>c, Zenon DEF IInv, AsAsked, IsHeld
<1>6. /\ at \in Nat /\ c \in Nat \ {0} /\ Width(d) = c
      /\ at + c <= len /\ len \in Nat /\ len <= FileMax /\ FileMax \in Nat
      /\ closed # NotClosed => at + c <= k \/ at >= k
  <2>1. Width(d) = c
    BY <1>2, <1>4, <1>5 DEF Width
  <2>2. /\ d.at \in Nat /\ d.full \in Nat \ {0}
        /\ d.at + d.full <= Len(file) /\ Len(file) \in Nat
    BY <1>4, SlotFacts
  <2>. QED
    BY <1>3, <1>5, <2>1, <2>2, SizeFacts DEF IsPlaced
<1>7. IsSized(b)
  BY <1>0, <1>2, ObjectsAreCodable, Zenon DEF IsSized, IInv, SizesKnown
<1>8. w \in Seq(FileOctet) /\ Len(w) = full
  <2>1. AreOctets(w, ElementSize(e, o))
    BY <1>a, <1>b, <1>2, <1>7, LeafOctets, Zenon
  <2>. QED
    BY <1>b, <2>1 DEF AreOctets
<1>9. PICK h : /\ h = HeadSize(e, o) /\ o.Size = size /\ full = h + size
               /\ h \in Nat /\ full \in Nat
               /\ size <= FileMax => IsSized(o) /\ IsCodable(o)
  <2>1. HasSize(e, o, size)
    BY <1>a, <1>2, <1>7, SizedIs, Zenon
  <2>. QED
    BY <1>b, <2>1 DEF HasSize
<1>10. /\ left \in 0 .. FileMax /\ full + left = c /\ full <= c
       /\ size <= FileMax /\ at \in Nat /\ at + h <= FileMax /\ at + full <= FileMax
       /\ full \in 1 .. FileMax
  <2>1. /\ left >= 0 /\ left = c - full /\ full = h + size
        /\ at \in Nat /\ c \in Nat /\ at + c <= len /\ len \in Nat /\ len <= FileMax
        /\ FileMax \in Nat /\ size \in Nat /\ size # 0 /\ h \in Nat
    BY <1>1, <1>2, <1>5, <1>6, <1>9 DEF LeavesRoom
  <2>. QED
    BY <2>1
<1>11. IsSized(o) /\ IsCodable(o) /\ o \in ObjectState
  BY <1>9, <1>10, Zenon DEF IsSized
<1>12. /\ rest \in Seq(FileOctet) /\ Len(rest) <= left /\ Len(rest) \in Nat
       /\ left # 0 => IsCodable(r) /\ ElementSize(Filler, r) = left /\ rest = Head_(Filler, r)
  <2>1. /\ rest \in Seq(FileOctet) /\ Len(rest) <= left
        /\ left # 0 => IsCodable(r) /\ ElementSize(Filler, r) = left
    BY <1>1, <1>10, <1>d, <1>e, RestIs
  <2>2. left # 0 => rest = Head_(Filler, r)
    BY <1>e DEF Rest
  <2>. QED
    BY <2>1, <2>2
<1>13. /\ file' \in Seq(FileOctet) /\ Len(file') = Len(file)
       /\ WrittenAt(file', at, w) /\ WrittenAt(file', at + full, rest)
       /\ \A t \in slots : t # d => Agree(file, file', t.at, t.at + Width(t))
  <2>1. PICK all : all = w \o rest
    OBVIOUS
  <2>2. all \in Seq(FileOctet) /\ Len(all) = Len(w) + Len(rest)
    BY <1>8, <1>12, <2>1, ConcatProperties
  <2>3. d.at <= at /\ at + Len(all) <= d.at + Width(d)
    <3>1. PICK q : q = Len(rest)
      OBVIOUS
    <3>2. at + (full + q) <= at + c
      BY <1>6, <1>9, <1>10, <1>12, <3>1
    <3>. QED
      BY <1>5, <1>6, <1>8, <2>2, <3>1, <3>2
  <2>4. /\ file' \in Seq(FileOctet) /\ Len(file') = Len(file) /\ WrittenAt(file', at, all)
        /\ \A t \in slots : t # d => Agree(file, file', t.at, t.at + Width(t))
    BY <1>1, <1>4, <1>10, <2>1, <2>2, <2>3, Elsewhere
  <2>5. PICK g : g = file'
    OBVIOUS
  <2>6. WrittenAt(g, at, w) /\ WrittenAt(g, at + Len(w), rest)
    <3>1. g \in Seq(FileOctet) /\ WrittenAt(g, at, w \o rest)
      BY <2>1, <2>4, <2>5
    <3>. QED
      BY <1>8, <1>10, <1>12, <3>1, WrittenParts
  <2>. QED
    BY <1>8, <2>4, <2>5, <2>6
<1>14. z \in ObjectState /\ z.bSizeIsFinite
  <2>1. z \in ObjectState /\ z.bSizeIsFinite = o.bSizeIsFinite
    <3>1. at + HeadSize(e, o) <= FileMax
      BY <1>9, <1>10
    <3>. QED
      BY <1>b, <1>2, <1>10, <1>11, <3>1, PlacedIs
  <2>. QED
    BY <1>11, <2>1, Zenon DEF IsSized
<1>15. /\ obj' \in [Object -> ObjectState] /\ obj'[e] = z
       /\ \A x : x # e => obj'[x] = obj[x]
  BY <1>1, <1>2, <1>14, OneObject, Zenon
<1>16. ASSUME NEW t \in slots, t # d
       PROVE  AsAsked(t)' /\ Width(t)' = Width(t) /\ t.holder # e
  <2>1. Len(file) <= Len(file') /\ Agree(file, file', t.at, t.at + Width(t))
    BY <1>5, <1>6, <1>13, <1>16
  <2>2. t.holder # e
    BY <1>1 DEF InFile
  <2>3. obj'[t.holder] = obj[t.holder]
    BY <1>15, <2>2
  <2>. QED
    BY <1>1, <1>13, <2>1, <2>2, <2>3, SlotStays
<1>17. /\ n.at = at /\ n.full = full /\ n.holder = e /\ n \in SlotType
       /\ m.at = at + full /\ m.full = left /\ m.holder = Filler
       /\ left # 0 => m \in SlotType
  <2>1. /\ n.at = at /\ n.full = full /\ n.holder = e
        /\ m.at = at + full /\ m.full = left /\ m.holder = Filler
    BY <1>d DEF Slot
  <2>2. at \in 0 .. FileMax /\ at + full \in 0 .. FileMax /\ full \in 1 .. FileMax
        /\ (left # 0 => left \in 1 .. FileMax)
    <3>1. at <= FileMax
      BY <1>6
    <3>2. at + full \in Nat
      BY <1>9, <1>10
    <3>. QED
      BY <1>6, <1>10, <3>1, <3>2
  <2>3. n \in SlotType
    BY <1>d, <1>2, <2>2 DEF Slot, SlotType
  <2>4. left # 0 => m \in SlotType
    BY <1>d, <1>2, <2>2 DEF Slot, SlotType
  <2>. QED
    BY <2>1, <2>3, <2>4
<1>18. IsPlaced(n)' /\ IsPlaced(m)'
  <2>1. k \in Nat /\ closed' = k /\ (closed' # NotClosed => at + c <= k \/ at >= k)
    BY <1>1, <1>3, <1>5, <1>6
  <2>2. at + full + left = at + c /\ at + full <= at + c
    BY <1>6, <1>9, <1>10
  <2>3. n.at + n.full <= Len(file') /\ m.at + m.full <= Len(file')
    <3>1. Len(file') = len /\ at + c <= len /\ at + c \in Nat /\ len \in Nat
      BY <1>5, <1>6, <1>13
    <3>2. at + full <= len /\ at + full + left <= len
      BY <1>9, <1>10, <2>2, <3>1
    <3>. QED
      BY <1>17, <3>1, <3>2
  <2>4. /\ closed' # NotClosed => n.at + n.full <= closed' \/ n.at >= closed'
        /\ closed' # NotClosed => m.at + m.full <= closed' \/ m.at >= closed'
    BY <1>6, <1>9, <1>10, <1>17, <2>1, <2>2
  <2>. QED
    BY <2>3, <2>4 DEF IsPlaced
<1>19. AsAsked(n)'
  <2>1. n = Slot(at, ElementSize(e, o), e) /\ obj'[e] = Placed(e, o, at)
    BY <1>b, <1>d, <1>15
  <2>2. o.Size # 0 /\ at + HeadSize(e, o) <= FileMax
    BY <1>2, <1>9, <1>10
  <2>3. WrittenAt(file', at, Head_(e, o) \o Data(e, o))
    BY <1>b, <1>13
  <2>. QED
    BY <1>10, <1>11, <1>13, <1>18, <2>1, <2>2, <2>3, LeafIsWritten
<1>20. ASSUME left # 0
       PROVE  AsAsked(m)'
  <2>1. HeadFound(file', at + full, Filler, r)
    <3>1. PICK p, g : p = at + full /\ g = file'
      OBVIOUS
    <3>2. p \in Nat /\ g \in Seq(FileOctet) /\ WrittenAt(g, p, Head_(Filler, r))
      BY <1>9, <1>10, <1>12, <1>13, <1>20, <3>1
    <3>3. HeadFound(g, p, Filler, r)
      BY <1>2, <1>12, <1>20, <3>2, CodedHeadIsRead, Zenon
    <3>. QED
      BY <3>1, <3>3
  <2>2. HoldsHead(file', m.at, m.holder, m.full)
    BY <1>12, <1>17, <1>20, <2>1, Zenon DEF HeadFound
  <2>3. HoldsData(file, m)'
    BY <1>2, <1>17, Zenon DEF HoldsData
  <2>4. IsHeld(m)'
    BY <1>2, <1>17, Zenon DEF IsHeld
  <2>. QED
    BY <1>18, <2>2, <2>3, <2>4, Zenon DEF AsAsked
<1>21. Width(n)' = full /\ Width(m)' = left
  BY <1>2, <1>17 DEF Width
<1>22. Tiling(slots, Extents, 1 .. Len(file))'
  <2>1. PICK ext : ext = [s \in slots' |-> s.at + 1 .. s.at + Width(s)']
    OBVIOUS
  <2>2. n \in slots' /\ ext[n] = at + 1 .. at + full
    BY <1>1, <1>e, <1>17, <1>21, <2>1
  <2>3. d.at + 1 .. d.at + Width(d) = at + 1 .. at + (full + left)
    BY <1>5, <1>6, <1>9, <1>10
  <2>4. Tiling(N, ext, d.at + 1 .. d.at + Width(d))
    <3>1. CASE left = 0
      <4>1. N = {n} /\ at + full = at + (full + left)
        BY <1>e, <1>9, <1>10, <3>1
      <4>. QED
        BY <2>2, <2>3, <4>1 DEF Tiling
    <3>2. CASE left # 0
      <4>1. N = {n, m} /\ m \in slots'
        BY <1>1, <1>e, <3>2
      <4>2. ext[m] = at + full + 1 .. at + full + left
        BY <1>17, <1>21, <2>1, <4>1
      <4>3. /\ ext[n] \cap ext[m] = {}
            /\ ext[n] \cup ext[m] = at + 1 .. at + (full + left)
        <5>1. at \in Nat /\ full \in Nat /\ left \in Nat
          BY <1>6, <1>9, <1>10
        <5>2. (at + 1 .. at + full) \cap (at + full + 1 .. at + full + left) = {}
          BY <5>1
        <5>3. (at + 1 .. at + full) \cup (at + full + 1 .. at + full + left)
                = at + 1 .. at + (full + left)
          BY <5>1
        <5>. QED
          BY <2>2, <4>2, <5>2, <5>3
      <4>. QED
        BY <2>3, <4>1, <4>3 DEF Tiling
    <3>. QED
      BY <3>1, <3>2
  <2>5. \A t \in slots : t # d => Width(t)' = Width(t)
    BY <1>16
  <2>. QED
    BY <1>1, <1>4, <1>13, <2>1, <2>4, <2>5, TakesThePlace
<1>23. OneObjectEach'
  <2>1. ASSUME NEW s \in slots', NEW t \in slots', s.holder = t.holder, s.holder # Filler
        PROVE  s = t
    <3>1. /\ s = n \/ (s \in slots /\ s.holder # e)
          /\ t = n \/ (t \in slots /\ t.holder # e)
      BY <1>1, <1>e, <1>16, <1>17, <2>1
    <3>. QED
      BY <1>3, <1>17, <2>1, <3>1 DEF OneObjectEach
  <2>. QED
    BY <2>1 DEF OneObjectEach
<1>24. SizesKnown'
  <2>1. \A x \in Leaves \cup Voids : obj'[x].bSizeIsFinite
    BY <1>3, <1>14, <1>15, Zenon DEF SizesKnown
  <2>2. \A s \in slots : s.holder = Master => s \in slots'
    BY <1>1, <1>2, <1>4
  <2>3. obj'[Master] = obj[Master] /\ Len(file) <= Len(file') /\ Len(file') \in Nat
    BY <1>2, <1>5, <1>6, <1>13, <1>15
  <2>. QED
    BY <1>1, <2>1, <2>2, <2>3, SizesStayKnown
<1>25. slots' \subseteq SlotType
  BY <1>1, <1>3, <1>e, <1>17
<1>26. \A s \in slots' : AsAsked(s)'
  BY <1>1, <1>e, <1>16, <1>19, <1>20
<1>27. closed' \in Nat /\ Len(file') <= FileMax
  BY <1>1, <1>3, <1>13
<1>28. InPlace
  <2>1. d \notin slots'
    <3>1. v # e /\ v # Filler
      BY <1>2, IdFacts
    <3>2. n # d /\ m # d
      BY <1>4, <1>17, <3>1
    <3>. QED
      BY <1>1, <1>e, <3>2
  <2>. QED
    BY <1>4, <1>13, <2>1, WithinOnePlace
<1>29. IInv'
  BY <1>13, <1>15, <1>22, <1>23, <1>24, <1>25, <1>26, <1>27, Zenon DEF IInv
<1>. QED
  BY <1>28, <1>29

(* OverwriteData writes the octets of the data, and no others.             *)
LEMMA OverwriteDataKeepsIInv ==
  ASSUME IInv, NEW e \in Leaves, OverwriteData(e)
  PROVE  IInv' /\ InPlace
<1>0. PICK b, d : b = obj[e] /\ d = SlotOf(e)
  OBVIOUS
<1>a. PICK o : o = [b EXCEPT !.value = 1 - @]
  OBVIOUS
<1>b. PICK h, at, w : /\ h = HeadSize(e, b) /\ at = b.ElementPosition
                      /\ w = Data(e, o)
  OBVIOUS
<1>2. /\ e \in Anything /\ e \in Object /\ e \in Leaves \cup Voids /\ e # Master
      /\ e # Filler
  BY IdFacts DEF Anything
<1>3. b \in ObjectState /\ IsCodable(b) /\ b.bSizeIsFinite
  BY <1>0, <1>2, ObjectsAreCodable, Zenon DEF IInv, SizesKnown
<1>4. /\ o \in ObjectState /\ o.Size = b.Size /\ o.SizeLength = b.SizeLength
      /\ o.ElementPosition = b.ElementPosition /\ o.value \in Nat
  <2>1. b.value \in {0, 1}
    BY <1>3 DEF ObjectState
  <2>2. 1 - b.value \in 0 .. 1
    BY <2>1
  <2>. QED
    BY <1>a, <1>3, <2>2 DEF ObjectState
<1>5. o.bSizeIsFinite = b.bSizeIsFinite
  BY <1>a, <1>3, Zenon DEF ObjectState
<1>6. /\ SizeOctets(o) = SizeOctets(b) /\ HeadSize(e, o) = h
      /\ ElementSize(e, o) = ElementSize(e, b)
  <2>1. SizeOctets(o) = SizeOctets(b)
    BY <1>4, <1>5, Zenon DEF SizeOctets
  <2>. QED
    BY <1>b, <1>4, <2>1, Zenon DEF HeadSize, ElementSize
<1>1. /\ InFile(e) /\ obj' = [obj EXCEPT ![e] = o] /\ file' = Overlay(file, at + h, w)
      /\ slots' = slots /\ closed' = closed
  <2>1. /\ InFile(e) /\ obj' = [obj EXCEPT ![e] = o]
        /\ file' = Overlay(file, o.ElementPosition + HeadSize(e, o), w)
        /\ slots' = slots /\ closed' = closed
    BY <1>0, <1>a, <1>b DEF OverwriteData
  <2>. QED
    BY <1>b, <1>4, <1>6, <2>1
<1>7. d \in slots /\ d.holder = e
  BY <1>0, <1>1, <1>2, OneSlot
<1>8. PICK c, n, len : c = d.full /\ n = b.Size /\ len = Len(file)
  OBVIOUS
<1>9. /\ at = d.at /\ ElementSize(e, b) = d.full /\ n # 0
      /\ IsCode(file[d.at + ID_LENGTH[e] + 1], e, SizeOctets(b))
      /\ HoldsHead(file, d.at, e, d.full) /\ IsPlaced(d) /\ file \in Seq(FileOctet)
      /\ Len(file) <= FileMax /\ OneObjectEach /\ slots \subseteq SlotType
      /\ closed \in Nat /\ SizesKnown
  BY <1>0, <1>b, <1>2, <1>7, <1>8, Zenon DEF IInv, AsAsked, IsHeld
<1>10. /\ c = h + n /\ h \in Nat /\ n \in Nat /\ h >= 2
       /\ h = ID_LENGTH[e] + SizeOctets(b) /\ ID_LENGTH[e] \in Nat
       /\ SizeOctets(b) \in Nat
  BY <1>b, <1>2, <1>3, <1>8, <1>9, SizesAre
<1>11. /\ at \in Nat /\ c \in Nat /\ Width(d) = c /\ at + c <= len /\ len \in Nat
  <2>1. Width(d) = c
    BY <1>2, <1>7, <1>8 DEF Width
  <2>2. d.at \in Nat /\ d.full \in Nat /\ d.at + d.full <= Len(file) /\ Len(file) \in Nat
    BY <1>7, SlotFacts
  <2>. QED
    BY <1>8, <1>9, <2>1, <2>2
<1>12. w \in Seq(FileOctet) /\ Len(w) = n
  <2>1. o.Size \in Nat /\ o.value \in Nat /\ o.Size = n
    BY <1>4, <1>8, <1>10
  <2>. QED
    BY <1>b, <1>2, <2>1, DataIs
<1>13. PICK p, g : p = at + h /\ g = file'
  OBVIOUS
<1>14. /\ g \in Seq(FileOctet) /\ Len(g) = len /\ WrittenAt(g, p, w)
       /\ Agree(file, g, at, p)
       /\ \A t \in slots : t # d => Agree(file, g, t.at, t.at + Width(t))
  <2>1. p \in Nat /\ d.at <= p /\ p + Len(w) <= d.at + Width(d) /\ file' = Overlay(file, p, w)
    <3>1. p \in Nat /\ at <= p /\ p + n <= at + c
      BY <1>10, <1>11, <1>13
    <3>. QED
      BY <1>1, <1>9, <1>11, <1>12, <1>13, <3>1
  <2>. QED
    BY <1>7, <1>8, <1>9, <1>12, <1>13, <2>1, Elsewhere
<1>15. p \in Nat /\ p <= len /\ p + n = at + c /\ p + n <= len
  BY <1>10, <1>11, <1>13
<1>16. /\ obj' \in [Object -> ObjectState] /\ obj'[e] = o
       /\ \A x : x # e => obj'[x] = obj[x]
  BY <1>1, <1>2, <1>4, OneObject, Zenon
<1>17. ASSUME NEW t \in slots, t # d
       PROVE  AsAsked(t)' /\ Width(t)' = Width(t)
  <2>1. t.holder # e
    BY <1>2, <1>7, <1>9, <1>17 DEF OneObjectEach
  <2>2. obj'[t.holder] = obj[t.holder]
    BY <1>16, <2>1
  <2>3. Len(file) <= Len(file') /\ Agree(file, file', t.at, t.at + Width(t))
        /\ file' \in Seq(FileOctet)
    BY <1>8, <1>11, <1>13, <1>14, <1>17
  <2>. QED
    BY <1>1, <2>2, <2>3, SlotStays
<1>18. AsAsked(d)'
  <2>1. HoldsHead(g, at, e, c) /\ g[at + ID_LENGTH[e] + 1] = file[at + ID_LENGTH[e] + 1]
    <3>1. at + ID_LENGTH[e] + file[at + ID_LENGTH[e] + 1].length <= p
      <4>1. PICK i, l : i = ID_LENGTH[e] /\ l = SizeOctets(b)
        OBVIOUS
      <4>2. at + i + l <= p
        BY <1>10, <1>11, <1>13, <4>1
      <4>. QED
        BY <1>9, <4>1, <4>2 DEF IsCode
    <3>2. Len(file) <= Len(g) /\ HoldsHead(file, at, e, c)
      BY <1>8, <1>9, <1>11, <1>14
    <3>. QED
      BY <1>2, <1>9, <1>11, <1>14, <1>15, <3>1, <3>2, HeadStays
  <2>2. HoldsData(file, d)'
    <3>1. PICK end : end = p + n
      OBVIOUS
    <3>2. SubSeq(g, p + 1, end) = w
      <4>1. /\ end \in Nat /\ end = p + Len(w) /\ end <= Len(g) /\ p \in Nat
            /\ w \in Seq(FileOctet) /\ g \in Seq(FileOctet) /\ WrittenAt(g, p, w)
        BY <1>10, <1>12, <1>14, <1>15, <3>1
      <4>. QED
        BY <4>1, WrittenIsRead
    <3>3. d.at + d.full = end /\ end - o.Size = p
      BY <1>4, <1>8, <1>9, <1>10, <1>11, <1>15, <3>1
    <3>4. SubSeq(g, (d.at + d.full) - o.Size + 1, d.at + d.full) = w
      BY <3>2, <3>3
    <3>. QED
      BY <1>b, <1>7, <1>13, <1>16, <3>4, Zenon DEF HoldsData
  <2>3. IsHeld(d)'
    BY <1>4, <1>6, <1>7, <1>8, <1>9, <1>b, <1>13, <1>16, <2>1, Zenon DEF IsHeld
  <2>4. IsPlaced(d)'
    <3>1. Len(file') = Len(file)
      BY <1>8, <1>13, <1>14
    <3>. QED
      BY <1>1, <1>9, <3>1 DEF IsPlaced
  <2>5. HoldsHead(file', d.at, d.holder, d.full)
    BY <1>7, <1>8, <1>9, <1>13, <2>1
  <2>. QED
    BY <2>2, <2>3, <2>4, <2>5, Zenon DEF AsAsked
<1>19. Len(file') = Len(file) /\ Len(file) \in Nat /\ file' \in Seq(FileOctet)
  BY <1>8, <1>11, <1>13, <1>14
<1>20. Width(d)' = Width(d)
  BY <1>2, <1>7 DEF Width
<1>21. Tiling(slots, Extents, 1 .. Len(file))'
  <2>1. \A s \in slots : Width(s)' = Width(s)
    BY <1>17, <1>20
  <2>2. Extents' = Extents
    BY <1>1, <2>1 DEF Extents
  <2>3. Tiling(slots, Extents, 1 .. Len(file))
    BY DEF IInv
  <2>. QED
    BY <1>1, <1>19, <2>2, <2>3
<1>22. OneObjectEach'
  BY <1>1, <1>9 DEF OneObjectEach
<1>23. SizesKnown'
  <2>1. \A x \in Leaves \cup Voids : obj'[x].bSizeIsFinite
    BY <1>3, <1>5, <1>9, <1>16, Zenon DEF SizesKnown
  <2>2. /\ \A s \in slots : s.holder = Master => s \in slots'
        /\ obj'[Master] = obj[Master] /\ Len(file) <= Len(file') /\ Len(file') \in Nat
    BY <1>1, <1>2, <1>16, <1>19
  <2>. QED
    BY <1>1, <2>1, <2>2, SizesStayKnown
<1>24. slots' \subseteq SlotType /\ closed' \in Nat /\ Len(file') <= FileMax
  BY <1>1, <1>9, <1>19
<1>25. \A s \in slots' : AsAsked(s)'
  BY <1>1, <1>17, <1>18
<1>26. InPlace
  <2>1. o.value # b.value
    <3>1. b.value \in {0, 1} /\ o.value = 1 - b.value
      BY <1>3, <1>a DEF ObjectState
    <3>. QED
      BY <3>1
  <2>2. d.holder \in Leaves /\ obj'[d.holder] # obj[d.holder]
    BY <1>0, <1>7, <1>16, <2>1
  <2>3. Len(file') = Len(file)
        /\ \A t \in slots : t # d => Agree(file, file', t.at, t.at + Width(t))
    BY <1>13, <1>14, <1>19
  <2>. QED
    BY <1>7, <2>2, <2>3, WithinOnePlace
<1>27. IInv'
  BY <1>16, <1>19, <1>21, <1>22, <1>23, <1>24, <1>25, Zenon DEF IInv
<1>. QED
  BY <1>26, <1>27

(* A size that is forced in the octets of the unknown one, when it is not  *)
(* what these are reserved for, has its code in as many.                   *)
LEMMA ForcedFits ==
  ASSUME NEW size \in 0 .. FileMax, NEW length \in 0 .. SizeMax, NEW n,
         n = (IF 1 < length THEN length ELSE 1),
         CodedSizeLength(size, length, FALSE) = n, size # AllOnes[n]
  PROVE  CodedSizeLength(size, length, TRUE) = n
<1>1. PICK c : c = Shortest(size)
  OBVIOUS
<1>2. /\ IsShortest(c, size)
      /\ CodedSizeLength(size, length, TRUE) = IF c < length THEN length ELSE c
  BY <1>1, ShortestIs
<1>3. /\ c \in 1 .. 5 /\ c \in 1 .. SizeMax /\ c \in 1 .. Len(AllOnes)
      /\ length \in Nat /\ n \in 1 .. Len(AllOnes) /\ n \in Nat /\ n >= length
      /\ size \in Nat /\ Len(AllOnes) \in Nat
  <2>1. c \in 1 .. Longest
    BY <1>2 DEF IsShortest
  <2>2. /\ Longest \in 1 .. 5 /\ Longest <= SizeMax /\ SizeMax \in Nat \ {0}
        /\ SizeMax <= Len(AllOnes) /\ Len(AllOnes) \in Nat /\ FileMax \in Nat
    BY SizeFacts
  <2>. QED
    BY <2>1, <2>2
<1>4. ASSUME c > n
      PROVE  FALSE
  <2>1. n \in 1 .. 4 /\ c - 1 \in n .. Len(AllOnes) /\ c > 1 /\ c - 1 \in 1 .. Len(AllOnes)
    BY <1>3, <1>4
  <2>2. size >= AllOnes[c - 1]
    BY <1>2, <2>1 DEF IsShortest
  <2>3. AllOnes[n] + (c - 1 - n) <= AllOnes[c - 1]
    BY <1>3, <2>1, AllOnesGrow
  <2>4. AllOnes[n] \in Nat /\ AllOnes[c - 1] \in Nat
    BY <1>3, <2>1, SizeFacts
  <2>5. size > AllOnes[n]
    BY <1>3, <2>1, <2>2, <2>3, <2>4
  <2>6. \A u \in 1 .. 4 : AllOnes[u] \in Nat
    <3>1. \A u \in 1 .. 4 : u \in 1 .. Len(AllOnes)
      BY SizeFacts
    <3>. QED
      BY <3>1, SizeFacts
  <2>7. \A u \in 1 .. 4 : u <= n => AllOnes[u] <= AllOnes[n]
    <3>1. ASSUME NEW u \in 1 .. 4, u <= n
          PROVE  AllOnes[u] <= AllOnes[n]
      <4>1. u \in 1 .. Len(AllOnes) /\ n \in u .. Len(AllOnes)
        BY <1>3, <2>1, <3>1
      <4>2. AllOnes[u] + (n - u) <= AllOnes[n] /\ AllOnes[u] \in Nat
        BY <4>1, AllOnesGrow, SizeFacts
      <4>. QED
        BY <1>3, <2>1, <2>4, <3>1, <4>2
    <3>. QED
      BY <3>1
  <2>8. PICK u : /\ u \in 1 .. 5 /\ (u < 5 => size <= AllOnes[u])
                 /\ CodedSizeLength(size, length, FALSE) = IF u < length THEN length ELSE u
    <3>. DEFINE f(k) == size <= AllOnes[k]
                u == IF f(1) THEN 1 ELSE IF f(2) THEN 2 ELSE IF f(3) THEN 3
                     ELSE IF f(4) THEN 4 ELSE 5
    <3>1. CodedSizeLength(size, length, FALSE) = IF u < length THEN length ELSE u
      BY DEF CodedSizeLength
    <3>2. u \in 1 .. 5 /\ (u < 5 => size <= AllOnes[u])
      BY <1>3, <2>6
    <3>. HIDE DEF u
    <3>. QED
      BY <3>1, <3>2
  <2>9. u <= n /\ u \in 1 .. 4
    <3>1. n = IF u < length THEN length ELSE u
      BY <2>8, Zenon
    <3>. QED
      BY <1>3, <2>1, <2>8, <3>1
  <2>10. size <= AllOnes[u] /\ AllOnes[u] <= AllOnes[n] /\ AllOnes[u] \in Nat
    <3>1. u = 1 \/ u = 2 \/ u = 3 \/ u = 4
      BY <2>9
    <3>. QED
      BY <2>6, <2>7, <2>8, <2>9, <3>1
  <2>. QED
    BY <1>3, <2>4, <2>5, <2>10
<1>5. c <= n
  BY <1>3, <1>4
<1>6. n = IF c < length THEN length ELSE c
  BY <1>3, <1>5
<1>. QED
  BY <1>2, <1>6, Zenon

(* A head that is written over one that says the same is the same.         *)
LEMMA HeadIsSame ==
  ASSUME NEW f \in Seq(FileOctet), NEW g \in Seq(FileOctet), NEW at \in Nat,
         NEW e \in Anything, NEW o, IsCodable(o), WrittenAt(g, at, Head_(e, o)),
         HoldsHead(f, at, e, ElementSize(e, o)),
         IsCode(f[at + ID_LENGTH[e] + 1], e, SizeOctets(o))
  PROVE  Agree(f, g, at, at + HeadSize(e, o))
<1>0. PICK k, n, full : k = ID_LENGTH[e] /\ n = SizeOctets(o) /\ full = ElementSize(e, o)
  OBVIOUS
<1>1. PICK a, b : /\ a = Octets("id", ClassId(e), k, 0)
                  /\ b = Octets("size", ClassId(e), n, o.Size)
  OBVIOUS
<1>2. /\ k \in Nat \ {0} /\ n \in Nat \ {0} /\ o.Size \in Nat
      /\ HeadSize(e, o) = k + n /\ full = HeadSize(e, o) + o.Size
      /\ ClassId(e) \in Anything
  BY <1>0, SizesAre, IdFacts
<1>3. a \in Seq(FileOctet) /\ Len(a) = k /\ b \in Seq(FileOctet) /\ Len(b) = n
  <2>1. k \in Nat /\ n \in Nat /\ 0 \in Nat
    BY <1>2
  <2>. QED
    BY <1>1, <1>2, <2>1, OctetsAre, Zenon DEF AreOctets
<1>4. WrittenAt(g, at, a) /\ WrittenAt(g, at + k, b)
  <2>1. WrittenAt(g, at, a \o b)
    BY <1>0, <1>1 DEF Head_
  <2>. QED
    BY <1>3, <2>1, WrittenParts
<1>5. PICK size : /\ size = f[at + k + 1] /\ at + k < Len(f)
                  /\ SubSeq(f, at + 1, at + k) = a
                  /\ at + k + size.length <= Len(f)
                  /\ SubSeq(f, at + k + 1, at + k + size.length)
                       = Octets("size", size.of, size.length, size.value)
                  /\ k + size.length + size.value = full
                  /\ size.of = ClassId(e) /\ size.length = n
  BY <1>0, <1>1, Zenon DEF HoldsHead, IsCode
<1>6. size.value = o.Size
  <2>1. size.value \in Nat
    <3>1. at + k + 1 \in 1 .. Len(f)
      BY <1>2, <1>5
    <3>2. size \in FileOctet
      BY <1>5, <3>1
    <3>. QED
      BY <3>2 DEF FileOctet
  <2>2. PICK x, y : x = size.value /\ y = o.Size
    OBVIOUS
  <2>3. k + n + x = k + n + y /\ x \in Nat /\ y \in Nat
    BY <1>2, <1>5, <2>1, <2>2
  <2>. QED
    BY <1>2, <2>2, <2>3
<1>7. WrittenAt(f, at, a) /\ WrittenAt(f, at + k, b)
  <2>1. SubSeq(f, at + k + 1, at + k + n) = b
    BY <1>1, <1>5, <1>6
  <2>2. PICK start, end : start = at + k /\ end = start + n
    OBVIOUS
  <2>3. /\ start \in Nat /\ end \in Nat /\ start <= Len(f) /\ end <= Len(f)
        /\ start = at + Len(a) /\ end = start + Len(b)
    BY <1>2, <1>3, <1>5, <2>2
  <2>4. WrittenAt(f, at, a)
    BY <1>3, <1>5, <2>2, <2>3, WrittenIsRead
  <2>5. WrittenAt(f, start, b)
    <3>1. SubSeq(f, start + 1, end) = b
      BY <2>1, <2>2
    <3>. QED
      BY <1>3, <2>3, <3>1, WrittenIsRead
  <2>. QED
    BY <2>2, <2>4, <2>5
<1>8. ASSUME NEW i \in at + 1 .. at + (k + n)
      PROVE  g[i] = f[i]
  <2>1. CASE i <= at + k
    <3>1. i - at \in 1 .. Len(a) /\ at + (i - at) = i
      BY <1>2, <1>3, <1>8, <2>1
    <3>. QED
      BY <1>4, <1>7, <3>1 DEF WrittenAt
  <2>2. CASE i > at + k
    <3>1. i - (at + k) \in 1 .. Len(b) /\ (at + k) + (i - (at + k)) = i
      BY <1>2, <1>3, <1>8, <2>2
    <3>. QED
      BY <1>4, <1>7, <3>1 DEF WrittenAt
  <2>. QED
    BY <1>2, <1>8, <2>1, <2>2
<1>. QED
  BY <1>2, <1>8 DEF Agree

(* What ForceSize makes of the master and writes: a head of as many        *)
(* octets, at the place of the one that was there.                         *)
IsForced(d, z, w) ==
  /\ InFile(Master) /\ d = SlotOf(Master) /\ d.full = HeadSize(Master, obj[Master])
  /\ w \in Seq(FileOctet) /\ Len(w) = d.full /\ file' = Overlay(file, d.at, w)
  /\ obj' = [obj EXCEPT ![Master] = z] /\ z \in ObjectState /\ z.bSizeIsFinite
  /\ z.ElementPosition = d.at /\ ElementSize(Master, z) = Len(file) - d.at
  /\ HeadSize(Master, z) = d.full
  /\ slots' = {IF s.holder = Master THEN [s EXCEPT !.full = Len(file) - d.at]
               ELSE s : s \in slots}
  /\ closed' = Len(file)
  /\ \E o : /\ IsCodable(o) /\ w = Head_(Master, o)
            /\ SizeOctets(o) = SizeOctets(z) /\ ElementSize(Master, o) = Len(file) - d.at

(* ForceSize writes the size in the octets the unknown one had.            *)
LEMMA ForcedIs ==
  ASSUME IInv, ForceSize, ForcesNoReserved
  PROVE  \E d \in slots : \E z, w : IsForced(d, z, w)
<1>0. PICK b, d, len : b = obj[Master] /\ d = SlotOf(Master) /\ len = Len(file)
  OBVIOUS
<1>a. PICK h, at : h = HeadSize(Master, b) /\ at = b.ElementPosition
  OBVIOUS
<1>b. PICK size : size = len - (at + h)
  OBVIOUS
<1>c. PICK o, given : o = Forced(b, size) /\ given = [b EXCEPT !.Size = size]
  OBVIOUS
<1>d. PICK w, z : w = Head_(Master, o) /\ z = Placed(Master, o, at)
  OBVIOUS
<1>1. /\ InFile(Master) /\ ~ b.bSizeIsFinite /\ SizeOctets(given) = SizeOctets(b)
      /\ file' = Overlay(file, at, w) /\ obj' = [obj EXCEPT ![Master] = z]
      /\ slots' = {IF s.holder = Master THEN [s EXCEPT !.full = Len(file) - at]
                   ELSE s : s \in slots}
      /\ closed' = Len(file)
  BY <1>0, <1>a, <1>b, <1>c, <1>d DEF ForceSize, CanForce
<1>2. Master \in Object /\ Master \in Anything
  BY IdFacts DEF Anything
<1>3. b \in ObjectState /\ IsCodable(b) /\ file \in Seq(FileOctet)
  BY <1>0, <1>2, ObjectsAreCodable, Zenon DEF IInv
<1>4. d \in slots /\ d.holder = Master
  BY <1>0, <1>1, <1>2, OneSlot
<1>5. /\ b.Size = 0 /\ at = d.at /\ d.full = ElementSize(Master, b)
  BY <1>0, <1>1, <1>2, <1>4, <1>a, Zenon DEF IInv, AsAsked, IsHeld, SizesKnown
<1>6. PICK i, n : i = ID_LENGTH[Master] /\ n = SizeOctets(b)
  OBVIOUS
<1>7. /\ d.full = h /\ h = i + n /\ i \in Nat \ {0} /\ n \in Nat \ {0} /\ h \in Nat
  <2>1. /\ HeadSize(Master, b) = ID_LENGTH[Master] + SizeOctets(b)
        /\ ElementSize(Master, b) = HeadSize(Master, b) + b.Size
        /\ HeadSize(Master, b) \in Nat
        /\ ID_LENGTH[Master] \in Nat \ {0} /\ SizeOctets(b) \in Nat \ {0}
    BY <1>2, <1>3, SizesAre
  <2>. QED
    BY <1>5, <1>6, <1>a, <2>1
<1>8. at \in Nat /\ at + h <= len /\ len \in Nat /\ len <= FileMax /\ FileMax \in Nat
  <2>1. /\ d.at \in Nat /\ d.full \in Nat /\ d.at + d.full <= Len(file)
        /\ Len(file) \in Nat /\ Len(file) <= FileMax
    BY <1>4, SlotFacts
  <2>. QED
    BY <1>0, <1>5, <1>7, <2>1, SizeFacts
<1>9. size \in 0 .. FileMax /\ size \in Nat /\ h + size = len - at
  BY <1>7, <1>8, <1>b
<1>10. /\ o \in ObjectState /\ o.Size = size /\ o.SizeLength = b.SizeLength
       /\ given.Size = size /\ given.SizeLength = b.SizeLength
       /\ b.SizeLength \in 0 .. SizeMax /\ b.bSizeIsFinite \in BOOLEAN
  BY <1>3, <1>9, <1>c DEF ObjectState, Forced
<1>11. o.bSizeIsFinite = TRUE /\ given.bSizeIsFinite = FALSE
  BY <1>1, <1>3, <1>10, <1>c, Zenon DEF ObjectState, Forced
<1>12. PICK length : length = b.SizeLength
  OBVIOUS
<1>13. length \in 0 .. SizeMax /\ n = (IF 1 < length THEN length ELSE 1)
  BY <1>5, <1>6, <1>10, <1>12, EmptyIsCodable
<1>14. CodedSizeLength(size, length, FALSE) = n
  BY <1>1, <1>6, <1>10, <1>11, <1>12, Zenon DEF SizeOctets
<1>15. IsCodable(o) /\ o.bSizeIsFinite
  BY <1>10, <1>11, FiniteIsCodable
<1>17. z.Size = size /\ z.bSizeIsFinite = o.bSizeIsFinite
  <2>1. z.Size = o.Size
    BY <1>10, <1>d DEF Placed, ObjectState
  <2>2. z.bSizeIsFinite = o.bSizeIsFinite
    BY <1>10, <1>d, Zenon DEF Placed, ObjectState
  <2>. QED
    BY <1>10, <2>1, <2>2
<1>18. obj'[Master] = z
  <2>1. obj \in [Object -> ObjectState]
    BY DEF IInv
  <2>. QED
    BY <1>1, <1>2, <2>1
<1>19. size # AllOnes[n]
  <2>1. obj'[Master].bSizeIsFinite
    BY <1>15, <1>17, <1>18, Zenon
  <2>2. z.Size # AllOnes[SizeOctets(obj[Master])]
    BY <1>18, <2>1, Zenon DEF ForcesNoReserved
  <2>. QED
    BY <1>0, <1>6, <1>17, <2>2
<1>20. CodedSizeLength(size, length, TRUE) = n
  BY <1>9, <1>13, <1>14, <1>19, ForcedFits, Zenon
<1>21. SizeOctets(o) = n
  BY <1>10, <1>11, <1>12, <1>20, Zenon DEF SizeOctets
<1>22. HeadSize(Master, o) = h /\ ElementSize(Master, o) = len - at
  <2>1. HeadSize(Master, o) = h
    BY <1>6, <1>7, <1>21 DEF HeadSize
  <2>2. ElementSize(Master, o) = size + h
    BY <1>10, <2>1 DEF ElementSize
  <2>. QED
    BY <1>7, <1>9, <2>1, <2>2
<1>23. w \in Seq(FileOctet) /\ Len(w) = h
  <2>1. o.Size \in Nat /\ SizeOctets(o) \in Nat \ {0}
    BY <1>7, <1>9, <1>10, <1>21
  <2>. QED
    BY <1>2, <1>22, <1>d, <2>1, HeadIs
<1>24. /\ z \in ObjectState /\ z.ElementPosition = at /\ SizeOctets(z) = SizeOctets(o)
       /\ HeadSize(Master, z) = h /\ ElementSize(Master, z) = len - at
  <2>1. at + HeadSize(Master, o) <= FileMax
    BY <1>7, <1>8, <1>22
  <2>2. /\ z \in ObjectState /\ z.ElementPosition = at /\ SizeOctets(z) = SizeOctets(o)
        /\ HeadSize(Master, z) = HeadSize(Master, o)
        /\ ElementSize(Master, z) = ElementSize(Master, o)
    BY <1>2, <1>8, <1>10, <1>15, <1>d, <2>1, PlacedIs
  <2>. QED
    BY <1>22, <2>2
<1>25. z.bSizeIsFinite
  BY <1>15, <1>17, Zenon
<1>26. IsForced(d, z, w)
  <2>1. /\ InFile(Master) /\ d = SlotOf(Master) /\ d.full = HeadSize(Master, obj[Master])
        /\ w \in Seq(FileOctet) /\ Len(w) = d.full /\ file' = Overlay(file, d.at, w)
        /\ obj' = [obj EXCEPT ![Master] = z] /\ z \in ObjectState
        /\ z.ElementPosition = d.at /\ ElementSize(Master, z) = Len(file) - d.at
        /\ HeadSize(Master, z) = d.full
        /\ slots' = {IF s.holder = Master THEN [s EXCEPT !.full = Len(file) - d.at]
                     ELSE s : s \in slots}
        /\ closed' = Len(file)
    BY <1>0, <1>1, <1>5, <1>7, <1>23, <1>24, <1>a, Zenon
  <2>2. /\ IsCodable(o) /\ w = Head_(Master, o)
        /\ SizeOctets(o) = SizeOctets(z) /\ ElementSize(Master, o) = Len(file) - d.at
    BY <1>0, <1>5, <1>15, <1>22, <1>24, <1>d, Zenon
  <2>. QED
    BY <1>25, <2>1, <2>2, Zenon DEF IsForced
<1>. QED
  BY <1>4, <1>26

(* ForceSize rewrites the master's head where it was; what follows stays.  *)
LEMMA ForceSizeKeepsIInv ==
  ASSUME IInv, ForceSize, ForcesNoReserved
  PROVE  IInv' /\ InPlace
<1>z. PICK d \in slots : \E z, w : IsForced(d, z, w)
  BY ForcedIs
<1>0. d \in slots /\ \E z, w : IsForced(d, z, w)
  BY <1>z
<1>y. PICK z, w : IsForced(d, z, w)
  BY <1>0
<1>a. PICK m, F : /\ m = [d EXCEPT !.full = Len(file) - d.at]
                  /\ F = [s \in slots |-> IF s.holder = Master
                                          THEN [s EXCEPT !.full = Len(file) - d.at] ELSE s]
  OBVIOUS
<1>1. /\ InFile(Master) /\ d = SlotOf(Master) /\ d.full = HeadSize(Master, obj[Master])
      /\ w \in Seq(FileOctet) /\ Len(w) = d.full /\ file' = Overlay(file, d.at, w)
      /\ obj' = [obj EXCEPT ![Master] = z] /\ z \in ObjectState /\ z.bSizeIsFinite
      /\ z.ElementPosition = d.at /\ ElementSize(Master, z) = Len(file) - d.at
      /\ HeadSize(Master, z) = d.full /\ closed' = Len(file)
  BY <1>y, Zenon DEF IsForced
<1>2. slots' = {F[s] : s \in slots}
  BY <1>y, <1>a DEF IsForced
<1>3. /\ Master \in Object /\ Master \in Anything /\ Master # Filler
      /\ Master \notin Leaves \cup Voids
  BY IdFacts DEF Anything, Object
<1>4. d.holder = Master /\ \A s \in slots : s.holder = Master => s = d
  BY <1>1, <1>3, OneSlot
<1>5. d \in SlotType /\ file \in Seq(FileOctet) /\ slots \subseteq SlotType
      /\ OneObjectEach /\ SizesKnown /\ Len(file) <= FileMax
  BY <1>0, Zenon DEF IInv
<1>6. PICK at, c, len : at = d.at /\ c = d.full /\ len = Len(file)
  OBVIOUS
<1>7. /\ at \in Nat /\ c \in Nat \ {0} /\ Width(d) = c /\ at + c <= len /\ len \in Nat
      /\ len <= FileMax
  <2>1. Width(d) = c
    BY <1>1, <1>4, <1>6 DEF Width
  <2>2. d.at \in Nat /\ d.full \in Nat \ {0} /\ d.at + d.full <= Len(file)
        /\ Len(file) \in Nat
    BY <1>0, SlotFacts
  <2>. QED
    BY <1>5, <1>6, <2>1, <2>2
<1>8. /\ file' \in Seq(FileOctet) /\ Len(file') = Len(file)
      /\ WrittenAt(file', at, w)
      /\ \A t \in slots : t # d => Agree(file, file', t.at, t.at + Width(t))
  <2>1. d.at \in Nat /\ d.at <= d.at /\ d.at + Len(w) <= d.at + Width(d)
    BY <1>1, <1>6, <1>7
  <2>. QED
    BY <1>0, <1>1, <1>6, <2>1, Elsewhere
<1>9. /\ obj' \in [Object -> ObjectState] /\ obj'[Master] = z
      /\ \A x : x # Master => obj'[x] = obj[x]
  BY <1>1, <1>3, OneObject, Zenon
<1>10. ASSUME NEW s \in slots, s # d
       PROVE  /\ F[s] = s /\ s.holder # Master
              /\ AsAsked(s)' /\ Width(s)' = Width(s)
  <2>1. F[s] = s /\ s.holder # Master
    BY <1>4, <1>10, <1>a
  <2>2. obj'[s.holder] = obj[s.holder]
    BY <1>9, <2>1
  <2>3. Len(file) <= Len(file') /\ Agree(file, file', s.at, s.at + Width(s))
    BY <1>6, <1>7, <1>8, <1>10
  <2>4. AsAsked(s)' /\ Width(s)' = Width(s)
    BY <1>1, <1>8, <2>2, <2>3, SlotStays
  <2>. QED
    BY <2>1, <2>4
<1>11. F[d] = m /\ m.at = at /\ m.full = len - at /\ m.holder = Master /\ m \in SlotType
  <2>1. len - at \in 1 .. FileMax
    BY <1>7, SizeFacts
  <2>. QED
    BY <1>0, <1>4, <1>5, <1>6, <1>a, <2>1 DEF SlotType
<1>12. AsAsked(m)'
  <2>1. PICK o : /\ IsCodable(o) /\ w = Head_(Master, o) /\ SizeOctets(o) = SizeOctets(z)
                 /\ ElementSize(Master, o) = Len(file) - d.at
    BY <1>y, Zenon DEF IsForced
  <2>2. HeadFound(file', at, Master, o)
    BY <1>3, <1>7, <1>8, <2>1, CodedHeadIsRead, Zenon
  <2>3. /\ HoldsHead(file', m.at, m.holder, m.full)
        /\ IsCode(file'[m.at + ID_LENGTH[Master] + 1], Master, SizeOctets(z))
    BY <1>6, <1>11, <2>1, <2>2, Zenon DEF HeadFound
  <2>4. HoldsData(file, m)'
    BY <1>3, <1>11, Zenon DEF HoldsData
  <2>5. IsHeld(m)'
    <3>1. ElementSize(Master, z) = m.full /\ z.ElementPosition = m.at
      BY <1>1, <1>6, <1>11
    <3>. QED
      BY <1>3, <1>9, <1>11, <2>3, <3>1, Zenon DEF IsHeld
  <2>6. IsPlaced(m)'
    BY <1>1, <1>6, <1>7, <1>8, <1>11 DEF IsPlaced
  <2>. QED
    BY <2>3, <2>4, <2>5, <2>6, Zenon DEF AsAsked
<1>13. Width(m)' = Width(d)
  BY <1>1, <1>6, <1>7, <1>9, <1>11 DEF Width
<1>14. \A s \in slots : AsAsked(F[s])' /\ Width(F[s])' = Width(s) /\ F[s].at = s.at
                        /\ F[s].holder = s.holder /\ F[s] \in SlotType
  <2>1. ASSUME NEW s \in slots
        PROVE  AsAsked(F[s])' /\ Width(F[s])' = Width(s) /\ F[s].at = s.at
               /\ F[s].holder = s.holder /\ F[s] \in SlotType
    <3>1. CASE s = d
      BY <1>4, <1>6, <1>11, <1>12, <1>13, <3>1
    <3>2. CASE s # d
      BY <1>5, <1>10, <3>2
    <3>. QED
      BY <3>1, <3>2
  <2>. QED
    BY <2>1
<1>15. Tiling(slots, Extents, 1 .. Len(file))'
  <2>1. PICK extent, ext, range :
          /\ extent = Extents /\ ext = [s \in slots' |-> s.at + 1 .. s.at + Width(s)']
          /\ range = 1 .. Len(file)
    OBVIOUS
  <2>2. Extents' = ext
    BY <2>1 DEF Extents
  <2>3. Tiling(slots, extent, range)
    BY <2>1 DEF IInv
  <2>4. \A s \in slots : ext[F[s]] = extent[s]
    BY <1>2, <1>14, <2>1 DEF Extents
  <2>5. Tiling({F[s] : s \in slots}, ext, range)
    BY <2>3, <2>4 DEF Tiling
  <2>. QED
    BY <1>2, <1>8, <2>1, <2>2, <2>5
<1>16. OneObjectEach'
  <2>1. ASSUME NEW s \in slots, NEW t \in slots,
               F[s].holder = F[t].holder, F[s].holder # Filler
        PROVE  F[s] = F[t]
    BY <1>5, <1>14, <2>1 DEF OneObjectEach
  <2>. QED
    BY <1>2, <2>1 DEF OneObjectEach
<1>17. SizesKnown'
  <2>1. \A x \in Leaves \cup Voids : obj'[x].bSizeIsFinite
    BY <1>3, <1>5, <1>9, Zenon DEF SizesKnown
  <2>2. closed' # NotClosed /\ closed' <= Len(file')
    BY <1>1, <1>6, <1>7, <1>8 DEF NotClosed
  <2>3. m \in slots' /\ m.holder = Master /\ m.at + m.full = closed'
    BY <1>0, <1>1, <1>2, <1>6, <1>7, <1>11
  <2>4. obj'[Master].bSizeIsFinite
    BY <1>1, <1>9, Zenon
  <2>5. \E s \in slots' : s.holder = Master /\ s.at + s.full = closed'
    BY <2>3
  <2>. QED
    BY <2>1, <2>2, <2>4, <2>5, Zenon DEF SizesKnown
<1>18. /\ slots' \subseteq SlotType /\ \A s \in slots' : AsAsked(s)'
  BY <1>2, <1>14
<1>19. closed' \in Nat /\ Len(file') <= FileMax
  BY <1>1, <1>5, <1>6, <1>7, <1>8
<1>20. InPlace
  <2>1. ASSUME NEW s \in slots \cap slots', NEW i \in Extent(s)
        PROVE  file'[i] = file[i]
    <3>1. i \in s.at + 1 .. s.at + Width(s) /\ s \in slots
      BY <2>1 DEF Extent, Width
    <3>2. CASE s # d
      <4>1. Agree(file, file', s.at, s.at + Width(s))
        BY <1>8, <3>1, <3>2
      <4>. QED
        BY <3>1, <4>1 DEF Agree
    <3>3. CASE s = d
      <4>1. m = d
        <5>1. PICK t \in slots : s = F[t]
          BY <1>2, <2>1
        <5>. QED
          BY <1>4, <1>10, <1>11, <3>3, <5>1
      <4>2. Agree(file, file', at, at + c)
        <5>1. PICK o : /\ IsCodable(o) /\ w = Head_(Master, o)
                       /\ SizeOctets(o) = SizeOctets(z)
                       /\ ElementSize(Master, o) = Len(file) - d.at
          BY <1>y, Zenon DEF IsForced
        <5>2. /\ ElementSize(Master, o) = d.full /\ HeadSize(Master, o) = c
              /\ SizeOctets(z) = SizeOctets(obj[Master])
          <6>1. HeadSize(Master, o) = HeadSize(Master, z)
            BY <5>1 DEF HeadSize
          <6>2. ElementSize(Master, o) = d.full
            BY <1>6, <1>11, <4>1, <5>1
          <6>3. SizeOctets(z) = SizeOctets(obj[Master])
            <7>1. PICK p, q, r : /\ p = SizeOctets(z) /\ q = SizeOctets(obj[Master])
                                 /\ r = ID_LENGTH[Master]
              OBVIOUS
            <7>2. r + p = r + q
              BY <1>1, <7>1 DEF HeadSize
            <7>3. r \in Nat /\ p \in Nat /\ q \in Nat
              <8>1. IsCodable(obj[Master])
                BY <1>3, ObjectsAreCodable
              <8>2. q \in Nat /\ r \in Nat
                BY <1>3, <7>1, <8>1, SizesAre
              <8>3. p \in Nat
                BY <1>3, <5>1, <7>1, SizesAre
              <8>. QED
                BY <8>2, <8>3
            <7>. QED
              BY <7>1, <7>2, <7>3
          <6>. QED
            BY <1>1, <1>6, <6>1, <6>2, <6>3
        <5>3. /\ HoldsHead(file, at, Master, ElementSize(Master, o))
              /\ IsCode(file[at + ID_LENGTH[Master] + 1], Master, SizeOctets(o))
          <6>1. HoldsHead(file, d.at, d.holder, d.full) /\ IsHeld(d)
            BY <1>0, Zenon DEF IInv, AsAsked
          <6>. QED
            BY <1>3, <1>4, <1>6, <5>1, <5>2, <6>1, Zenon DEF IsHeld
        <5>. QED
          BY <1>3, <1>5, <1>7, <1>8, <5>1, <5>2, <5>3, HeadIsSame
      <4>. QED
        BY <1>6, <1>7, <3>1, <3>3, <4>2 DEF Agree
    <3>. QED
      BY <3>2, <3>3
  <2>. QED
    BY <1>8, <2>1, Zenon DEF InPlace
<1>21. IInv'
  BY <1>8, <1>9, <1>15, <1>16, <1>17, <1>18, <1>19, Zenon DEF IInv
<1>. QED
  BY <1>20, <1>21

-----------------------------------------------------------------------------
(***************************************************************************)
(* What the invariant says, of every execution.                            *)
(***************************************************************************)

(* Nothing is in an empty file, and only the master's size is not known.   *)
LEMMA InitInv == Init => IInv
<1>. SUFFICES ASSUME Init PROVE IInv
  OBVIOUS
<1>1. file = << >> /\ slots = {} /\ closed = NotClosed
      /\ obj = [e \in Object |-> NewObject(e # Master)]
  BY DEF Init
<1>2. file \in Seq(FileOctet) /\ Len(file) = 0 /\ closed = 0
  BY <1>1 DEF NotClosed
<1>3. FileMax \in Nat /\ SizeMax \in Nat
  BY SizeFacts
<1>4. \A finite \in BOOLEAN : NewObject(finite) \in ObjectState
  BY <1>3 DEF NewObject, ObjectState
<1>5. ASSUME NEW e \in Object
      PROVE  \E finite \in BOOLEAN : /\ obj[e] = NewObject(finite)
                                     /\ finite = (e # Master)
  <2>1. (e # Master) \in BOOLEAN /\ obj[e] = NewObject(e # Master)
    BY <1>1, Zenon
  <2>. QED
    BY <2>1, Zenon
<1>6. obj \in [Object -> ObjectState]
  <2>1. \A e \in Object : obj[e] \in ObjectState
    BY <1>4, <1>5, Zenon
  <2>2. obj = [e \in Object |-> obj[e]]
    BY <1>1, Zenon
  <2>. QED
    BY <2>1, <2>2, Zenon
<1>7. /\ \A e \in Leaves \cup Voids : obj[e].bSizeIsFinite
      /\ ~ obj[Master].bSizeIsFinite /\ obj[Master].Size = 0
  <2>1. \A finite \in BOOLEAN : /\ NewObject(finite).bSizeIsFinite = finite
                                /\ NewObject(finite).Size = 0
    BY Zenon DEF NewObject
  <2>2. Master \in Object /\ \A e \in Leaves \cup Voids : e \in Object /\ e # Master
    BY IdFacts
  <2>. QED
    BY <1>5, <2>1, <2>2, Zenon
<1>8. SizesKnown
  <2>1. closed <= Len(file)
    BY <1>2
  <2>. QED
    BY <1>1, <1>7, <2>1, Zenon DEF SizesKnown
<1>9. Tiling(slots, Extents, 1 .. Len(file))
  BY <1>1, <1>2 DEF Tiling
<1>10. OneObjectEach /\ slots \subseteq SlotType /\ \A s \in slots : AsAsked(s)
  BY <1>1 DEF OneObjectEach
<1>. QED
  BY <1>2, <1>3, <1>6, <1>8, <1>9, <1>10 DEF IInv

(* Every step of a program that gives its leaves data and forces no        *)
(* reserved size keeps the invariant, and edits in place.                  *)
LEMMA NextKeepsIInv ==
  ASSUME 0 \notin Sizes, IInv, Next, ForcesNoReserved
  PROVE  IInv' /\ InPlace
<1>1. CASE \E e \in Leaves, size \in Sizes, length \in SizeLengths :
             Render(e, size, length)
  BY <1>1, RenderKeepsIInv
<1>2. CASE \E e \in Leaves, size \in Sizes, length \in SizeLengths, v \in Voids :
             ReplaceWith(v, e, size, length)
  BY <1>2, ReplaceWithKeepsIInv
<1>3. CASE \E e \in Leaves : VoidMe(e)
  BY <1>3, VoidMeKeepsIInv
<1>4. CASE \E e \in Leaves, v \in Voids : Overwrite(v, e)
  BY <1>4, OverwriteKeepsIInv
<1>5. CASE \E e \in Leaves : OverwriteData(e)
  BY <1>5, OverwriteDataKeepsIInv
<1>6. CASE \E length \in MasterSizeLengths : WriteHead(length)
  BY <1>6, WriteHeadKeepsIInv
<1>7. CASE ForceSize
  BY <1>7, ForceSizeKeepsIInv
<1>. QED
  BY <1>1, <1>2, <1>3, <1>4, <1>5, <1>6, <1>7, Zenon DEF Next

(* Without a step nothing changes.                                         *)
LEMMA StutterKeepsIInv ==
  ASSUME IInv, UNCHANGED vars
  PROVE  IInv'
<1>1. file' = file /\ obj' = obj /\ slots' = slots /\ closed' = closed
  BY DEF vars
<1>2. \A s : Width(s)' = Width(s)
  BY <1>1 DEF Width
<1>3. \A s : AsAsked(s) => AsAsked(s)'
  <2>1. \A s : HoldsData(file, s) => HoldsData(file, s)'
    BY <1>1, Zenon DEF HoldsData
  <2>2. \A s : IsHeld(s) => IsHeld(s)'
    BY <1>1, Zenon DEF IsHeld
  <2>3. \A s : IsPlaced(s) => IsPlaced(s)'
    BY <1>1, Zenon DEF IsPlaced
  <2>. QED
    BY <1>1, <2>1, <2>2, <2>3, Zenon DEF AsAsked
<1>4. SizesKnown' /\ OneObjectEach'
  BY <1>1, Zenon DEF IInv, SizesKnown, OneObjectEach
<1>5. Extents' = Extents
  BY <1>1, <1>2 DEF Extents
<1>. QED
  BY <1>1, <1>3, <1>4, <1>5, Zenon DEF IInv

(* The places cover the file.                                              *)
LEMMA InvTiles == IInv => SlotsTileFile
<1>. SUFFICES ASSUME IInv PROVE SlotsTileFile
  OBVIOUS
<1>1. \A s \in slots : Extents[s] = Extent(s)
  BY DEF Extents, Extent, Width
<1>2. DOMAIN file = 1 .. Len(file)
  BY DEF IInv
<1>3. Tiling(slots, Extents, 1 .. Len(file))
  BY DEF IInv
<1>4. UNION {Extent(s) : s \in slots} = 1 .. Len(file)
  <2>1. \A s \in slots : Extent(s) \subseteq 1 .. Len(file)
    BY <1>1, <1>3, Zenon DEF Tiling
  <2>2. \A i \in 1 .. Len(file) : \E s \in slots : i \in Extent(s)
    BY <1>1, <1>3, Zenon DEF Tiling
  <2>. HIDE DEF Extent
  <2>. QED
    BY <2>1, <2>2
<1>5. \A s, t \in slots : s # t => Extent(s) \cap Extent(t) = {}
  BY <1>1, <1>3, Zenon DEF Tiling
<1>. QED
  BY <1>2, <1>4, <1>5 DEF SlotsTileFile

(* What holds of every place holds of what a reader finds.                 *)
LEMMA InvReads == IInv => FileReads
<1>. SUFFICES ASSUME IInv PROVE FileReads
  OBVIOUS
<1>1. TypeOK
  <2>1. closed \in 0 .. FileMax
    <3>1. closed \in Nat /\ closed <= Len(file) /\ Len(file) <= FileMax
          /\ Len(file) \in Nat /\ FileMax \in Nat
      BY SizeFacts DEF IInv, SizesKnown
    <3>. QED
      BY <3>1
  <2>. QED
    BY <2>1, Zenon DEF IInv, TypeOK, ObjectState, SlotType, Anything
<1>2. \A s \in slots : HoldsHead(file, s.at, s.holder, s.full) /\ HoldsData(file, s)
  BY Zenon DEF IInv, AsAsked
<1>. QED
  BY <1>1, <1>2, InvTiles, Zenon DEF FileReads

(* What an object says of itself is part of the invariant.                 *)
LEMMA InvMatches == IInv => ObjectsMatchFile
  BY Zenon DEF IInv, AsAsked, IsHeld, ObjectsMatchFile, Object

(* The forced size ends between two places.                                *)
LEMMA InvEncloses == IInv => MasterEncloses
<1>. SUFFICES ASSUME IInv, closed # NotClosed
              PROVE  /\ \E s \in slots : /\ s.holder = Master /\ s.at + s.full = closed
                                         /\ HoldsHead(file, s.at, Master, s.full)
                     /\ \A t \in slots : t.at + t.full <= closed \/ t.at >= closed
  BY Zenon DEF MasterEncloses
<1>1. PICK s \in slots : s.holder = Master /\ s.at + s.full = closed
  BY Zenon DEF IInv, SizesKnown
<1>2. HoldsHead(file, s.at, Master, s.full)
  BY <1>1, Zenon DEF IInv, AsAsked
<1>3. \A t \in slots : t.at + t.full <= closed \/ t.at >= closed
  BY Zenon DEF IInv, AsAsked, IsPlaced
<1>. QED
  BY <1>1, <1>2, <1>3

(* The invariant holds of every execution of a program that renders no     *)
(* leaf without data and forces no reserved size.                          *)
THEOREM Inductive == 0 \notin Sizes => (CarefulSpec => []IInv)
<1>. SUFFICES ASSUME 0 \notin Sizes PROVE CarefulSpec => []IInv
  OBVIOUS
<1>1. IInv /\ [Next /\ ForcesNoReserved]_vars => IInv'
  BY NextKeepsIInv, StutterKeepsIInv
<1>. QED
  BY InitInv, <1>1, PTL DEF CarefulSpec

(* A reader finds in each place of the file the element that was rendered, *)
(* voided or replaced there, with its data, however Render, VoidMe,        *)
(* Overwrite, ReplaceWith, OverwriteData and ForceSize follow each other.  *)
THEOREM EditedFileReads == 0 \notin Sizes => (CarefulSpec => []FileReads)
  BY Inductive, InvReads, PTL

(* The element and size positions an object keeps are those of what it     *)
(* stands for in the file.                                                 *)
THEOREM PositionsMatch == 0 \notin Sizes => (CarefulSpec => []ObjectsMatchFile)
  BY Inductive, InvMatches, PTL

(* A master ends where its size was forced, and no element lies across its *)
(* end.                                                                    *)
THEOREM ForcedMasterEncloses == 0 \notin Sizes => (CarefulSpec => []MasterEncloses)
  BY Inductive, InvEncloses, PTL

(* No operation changes an octet of an element it was not asked to change, *)
(* and only what is rendered makes the file grow.                          *)
THEOREM NothingElseChanges == 0 \notin Sizes => (CarefulSpec => EditsInPlace)
<1>. SUFFICES ASSUME 0 \notin Sizes PROVE CarefulSpec => EditsInPlace
  OBVIOUS
<1>1. IInv /\ [Next /\ ForcesNoReserved]_vars => [InPlace]_vars
  BY NextKeepsIInv
<1>. QED
  BY Inductive, <1>1, PTL DEF CarefulSpec, EditsInPlace
=============================================================================
