---------------------------- MODULE Crc32_proofs ----------------------------
(***************************************************************************)
(* For every width of an octet and every polynomial: the registers keep    *)
(* their width, and four lookups on a chunk do what its four octets do one *)
(* by one.  The second rests on one fact: a lookup only uses the low       *)
(* octet, so what was exclusive-or-ed above it is shifted down unchanged.  *)
(*                                                                         *)
(* A lookup is the division of an octet's bits, one by one, because the    *)
(* division is linear; so every checksum is the remainder of its data, and *)
(* since only nothing leaves no remainder, short errors change it.         *)
(***************************************************************************)
EXTENDS Crc32, Induction, SequenceTheorems

(* The exclusive or is a group operation on the registers.                 *)
LEMMA XorAssociates ==
  ASSUME NEW a, NEW b, NEW c
  PROVE  Xor(a, Xor(b, c)) = Xor(Xor(a, b), c)
BY DEF Xor

(* It leaves the register no wider.                                        *)
LEMMA XorOfRegisters ==
  ASSUME NEW a \in Register, NEW b \in Register
  PROVE  Xor(a, b) \in Register
BY DEF Xor, Register

(* The index is an octet whatever the register holds, and an octet stays   *)
(* one.                                                                    *)
LEMMA LookIsRegister ==
  ASSUME NEW c
  PROVE  Look(c) \in Register
<1>1. CRC32_INDEX(c) \in Octet
  BY DEF CRC32_INDEX, Octet
<1>2. s_tab[CRC32_INDEX(c)] \in Register
  BY <1>1, TableAssumption
<1>3. CRC32_SHIFTED(c) \in Register
  BY DEF CRC32_SHIFTED, Register
<1> QED BY <1>2, <1>3, XorOfRegisters DEF Look

(* One octet taken in, by the table, leaves a register.                    *)
LEMMA UpdateByteIsRegister ==
  ASSUME NEW c, NEW o \in Octet
  PROVE  UpdateByte(c, o) \in Register
<1>1. Xor(CRC32_INDEX(c), o) \in Octet
  BY DEF CRC32_INDEX, Octet, Xor
<1>2. s_tab[Xor(CRC32_INDEX(c), o)] \in Register
  BY <1>1, TableAssumption
<1>3. CRC32_SHIFTED(c) \in Register
  BY DEF CRC32_SHIFTED, Register
<1> QED BY <1>2, <1>3, XorOfRegisters DEF UpdateByte

-----------------------------------------------------------------------------
Above == Width .. 4 * Width - 1

(* One lookup consumes the low octet; the rest comes down by one octet.    *)
LEMMA LookConsumesOctet ==
  ASSUME NEW c, NEW o \in Octet, NEW r \in SUBSET Above
  PROVE  Look(Xor(c, o \cup r)) = Xor(UpdateByte(c, o), CRC32_SHIFTED(r))
<1> USE WidthAssumption
<1>1. CRC32_INDEX(Xor(c, o \cup r)) = Xor(CRC32_INDEX(c), o)
  <2>1. \A b : b \in r => b \notin 0 .. Width - 1
    BY DEF Above
  <2>2. \A b : b \in o => b \in 0 .. Width - 1
    BY DEF Octet
  <2> HIDE DEF Above
  <2> QED BY ONLY <2>1, <2>2 DEF CRC32_INDEX, Xor
<1>2. CRC32_SHIFTED(Xor(c, o \cup r)) = Xor(CRC32_SHIFTED(c), CRC32_SHIFTED(r))
  BY DEF CRC32_SHIFTED, Xor, Octet, Above
<1>3. Look(Xor(c, o \cup r))
        = Xor(s_tab[Xor(CRC32_INDEX(c), o)],
              Xor(CRC32_SHIFTED(c), CRC32_SHIFTED(r)))
  BY <1>1, <1>2 DEF Look
<1> QED BY <1>3, XorAssociates DEF UpdateByte

(* UpdateByte looks up the register with the octet.                        *)
LEMMA UpdateByteIsLook ==
  ASSUME NEW c, NEW o \in Octet
  PROVE  UpdateByte(c, o) = Look(Xor(c, o))
<1>1. Look(Xor(c, o \cup {})) = Xor(UpdateByte(c, o), CRC32_SHIFTED({}))
  BY LookConsumesOctet
<1>2. CRC32_SHIFTED({}) = {} /\ o \cup {} = o
  BY DEF CRC32_SHIFTED
<1>3. Xor(UpdateByte(c, o), {}) = UpdateByte(c, o)
  BY DEF Xor
<1>. QED
  BY <1>1, <1>2, <1>3

(* What was shifted up an octet and back is what it was, and leaves the    *)
(* low octet free.                                                         *)
LEMMA ShiftedUpAndDown ==
  ASSUME NEW y \in SUBSET (0 .. 3 * Width - 1)
  PROVE  /\ ShiftedUp(y) \in SUBSET Above
         /\ CRC32_SHIFTED(ShiftedUp(y)) = y
<1>1. ShiftedUp(y) \in SUBSET Above
  BY WidthAssumption DEF ShiftedUp, Above
<1>2. ASSUME NEW b \in 0 .. 4 * Width - 1
      PROVE  b + Width \in ShiftedUp(y) <=> b \in y
  <2>1. (b + Width) - Width = b
    BY WidthAssumption
  <2>2. b \in y => b + Width \in 0 .. 4 * Width - 1
    BY WidthAssumption
  <2>3. b + Width \in ShiftedUp(y)
          <=> b + Width \in 0 .. 4 * Width - 1 /\ (b + Width) - Width \in y
    BY ONLY Zenon DEF ShiftedUp
  <2> QED BY ONLY <2>1, <2>2, <2>3
<1>3. \A b : b \in y => b \in 0 .. 4 * Width - 1
  BY WidthAssumption
<1>4. CRC32_SHIFTED(ShiftedUp(y)) = y
  BY <1>2, <1>3 DEF CRC32_SHIFTED
<1> QED BY <1>1, <1>4

(* How high the bits of an octet, and of two, come to lie.                 *)
LEMMA ShiftedUpBounds ==
  ASSUME NEW o \in Octet
  PROVE  /\ ShiftedUp(o) \in SUBSET (0 .. 2 * Width - 1)
         /\ \A y \in SUBSET (0 .. 2 * Width - 1) :
              ShiftedUp(y) \in SUBSET (0 .. 3 * Width - 1)
BY WidthAssumption DEF ShiftedUp, Octet

(* The loop of lines 264 to 276 and four calls of UpdateByte.              *)
LEMMA ChunkIsFourOctets ==
  ASSUME NEW c, NEW o \in Seq(Octet), Len(o) >= 4
  PROVE  Look(Look(Look(Look(Xor(c, Chunk(o))))))
           = UpdateByte(UpdateByte(UpdateByte(UpdateByte(c,
               o[1]), o[2]), o[3]), o[4])
<1> DEFINE y3 == o[3] \cup ShiftedUp(o[4])
           y2 == o[2] \cup ShiftedUp(y3)
           u1 == UpdateByte(c, o[1])
           u2 == UpdateByte(u1, o[2])
           u3 == UpdateByte(u2, o[3])
<1>1. o[1] \in Octet /\ o[2] \in Octet /\ o[3] \in Octet /\ o[4] \in Octet
  OBVIOUS
<1>2. y3 \in SUBSET (0 .. 2 * Width - 1)
  <2>1. o[3] \in SUBSET (0 .. 2 * Width - 1)
    BY <1>1, WidthAssumption DEF Octet
  <2> QED BY <1>1, <2>1, ShiftedUpBounds
<1>3. y2 \in SUBSET (0 .. 3 * Width - 1)
  <2>1. o[2] \in SUBSET (0 .. 3 * Width - 1)
    BY <1>1, WidthAssumption DEF Octet
  <2>2. ShiftedUp(y3) \in SUBSET (0 .. 3 * Width - 1)
    <3> HIDE DEF y3
    <3> QED BY <1>1, <1>2, ShiftedUpBounds
  <2> QED BY <2>1, <2>2
<1>4. Look(Xor(c, Chunk(o))) = Xor(u1, y2)
  <2>1. Chunk(o) = o[1] \cup ShiftedUp(y2)
    BY DEF Chunk
  <2>2. ShiftedUp(y2) \in SUBSET Above /\ CRC32_SHIFTED(ShiftedUp(y2)) = y2
    BY <1>3, ShiftedUpAndDown
  <2>3. Look(Xor(c, o[1] \cup ShiftedUp(y2)))
          = Xor(u1, CRC32_SHIFTED(ShiftedUp(y2)))
    BY <1>1, <2>2, LookConsumesOctet
  <2> QED BY <2>1, <2>2, <2>3
<1>5. Look(Xor(u1, y2)) = Xor(u2, y3)
  <2>1. y3 \in SUBSET (0 .. 3 * Width - 1)
    BY <1>2, WidthAssumption
  <2>2. ShiftedUp(y3) \in SUBSET Above /\ CRC32_SHIFTED(ShiftedUp(y3)) = y3
    BY <2>1, ShiftedUpAndDown
  <2>3. Look(Xor(u1, o[2] \cup ShiftedUp(y3)))
          = Xor(u2, CRC32_SHIFTED(ShiftedUp(y3)))
    BY <1>1, <2>2, LookConsumesOctet
  <2> QED BY <2>2, <2>3
<1>6. Look(Xor(u2, y3)) = Xor(u3, o[4])
  <2>1. o[4] \in SUBSET (0 .. 3 * Width - 1)
    BY <1>1, WidthAssumption DEF Octet
  <2>2. ShiftedUp(o[4]) \in SUBSET Above
        /\ CRC32_SHIFTED(ShiftedUp(o[4])) = o[4]
    BY <2>1, ShiftedUpAndDown
  <2>3. Look(Xor(u2, o[3] \cup ShiftedUp(o[4])))
          = Xor(u3, CRC32_SHIFTED(ShiftedUp(o[4])))
    BY <1>1, <2>2, LookConsumesOctet
  <2> QED BY <2>2, <2>3
<1>7. Look(Xor(u3, o[4])) = UpdateByte(u3, o[4])
  BY <1>1, UpdateByteIsLook
<1> QED BY <1>4, <1>5, <1>6, <1>7
-----------------------------------------------------------------------------
(* Division by the polynomial, one bit at a time, is linear, and only what *)
(* is nothing leaves nothing, because of the polynomial's highest bit.     *)
LEMMA DividedIsRegister ==
  ASSUME NEW c \in Register
  PROVE  Divided(c) \in Register
<1>1. Shifted1(c) \in Register
  BY DEF Shifted1, Register
<1>. QED
  BY <1>1, XorOfRegisters, PolynomialAssumption DEF Divided

(* One step of the division of a difference is the difference of the steps.*)
LEMMA DividedOfXor ==
  ASSUME NEW a \in Register, NEW b \in Register
  PROVE  Divided(Xor(a, b)) = Xor(Divided(a), Divided(b))
<1>1. Shifted1(Xor(a, b)) = Xor(Shifted1(a), Shifted1(b))
  BY DEF Shifted1, Xor
<1>2. 0 \in Xor(a, b) <=> ~ (0 \in a <=> 0 \in b)
  BY DEF Xor
<1>. DEFINE x == Shifted1(a)
            y == Shifted1(b)
            p == Polynomial
<1>3. /\ Divided(a) = IF 0 \in a THEN Xor(x, p) ELSE x
      /\ Divided(b) = IF 0 \in b THEN Xor(y, p) ELSE y
      /\ Divided(Xor(a, b)) = IF 0 \in Xor(a, b) THEN Xor(Xor(x, y), p) ELSE Xor(x, y)
  BY <1>1 DEF Divided
<1>. HIDE DEF x, y, p
<1>4. /\ Xor(Xor(x, y), p) = Xor(Xor(x, p), y)
      /\ Xor(Xor(x, y), p) = Xor(x, Xor(y, p))
      /\ Xor(x, y) = Xor(Xor(x, p), Xor(y, p))
  BY DEF Xor
<1>5. CASE 0 \in a /\ 0 \in b
  BY <1>2, <1>4, <1>3, <1>5
<1>6. CASE 0 \in a /\ 0 \notin b
  BY <1>2, <1>4, <1>3, <1>6
<1>7. CASE 0 \notin a /\ 0 \in b
  BY <1>2, <1>4, <1>3, <1>7
<1>8. CASE 0 \notin a /\ 0 \notin b
  BY <1>2, <1>3, <1>8
<1>. QED
  BY <1>5, <1>6, <1>7, <1>8

(* No step divides without a rest: a bit that is shifted out leaves the    *)
(* highest bit of the polynomial, which the shift cannot have set.         *)
LEMMA OnlyNothingIsDivided ==
  ASSUME NEW c \in Register, Divided(c) = {}
  PROVE  c = {}
<1>1. 4 * Width \in Nat \ {0} /\ 4 * Width - 1 \in Polynomial
  BY WidthAssumption, PolynomialAssumption
<1>2. 4 * Width - 1 \notin Shifted1(c)
  <2>1. (4 * Width - 1) + 1 \notin c
    BY <1>1 DEF Register
  <2>. QED
    BY <2>1 DEF Shifted1
<1>3. 0 \notin c
  BY <1>1, <1>2 DEF Divided, Xor
<1>4. Shifted1(c) = {}
  BY <1>3 DEF Divided
<1>5. ASSUME NEW b \in c
      PROVE  FALSE
  <2>1. b \in 0 .. 4 * Width - 1 /\ b # 0
    BY <1>3 DEF Register
  <2>2. b - 1 \in 0 .. 4 * Width - 1 /\ (b - 1) + 1 = b
    BY <1>1, <2>1
  <2>3. b - 1 \in Shifted1(c)
    BY <2>2 DEF Shifted1
  <2>. QED
    BY <1>4, <2>3
<1>. QED
  BY <1>5

(* Division divides once for each of the bits of an octet.                 *)
LEMMA DivisionIs ==
  ASSUME NEW c \in Register
  PROVE  /\ Division(c) \in [0 .. Width -> Register] /\ Division(c)[0] = c
         /\ \A k \in 1 .. Width : Division(c)[k] = Divided(Division(c)[k - 1])
<1>. DEFINE P(f) == f = [k \in 0 .. Width |-> IF k = 0 THEN c ELSE Divided(f[k - 1])]
            F == CHOOSE f : P(f)
            step == [k \in 1 .. Width |-> [r \in Register |-> Divided(r)]]
<1>1. Width \in Nat
  BY WidthAssumption
<1>2. step \in [1 .. Width -> [Register -> Register]]
  BY DividedIsRegister
<1>3. PICK f : Runs(f, Register, c, step, Width)
  <2>. HIDE DEF step
  <2>. QED
    BY <1>1, <1>2, RunExists
<1>4. /\ f \in [0 .. Width -> Register] /\ f[0] = c
      /\ \A k \in 1 .. Width : f[k] = step[k][f[k - 1]]
  <2>. HIDE DEF step
  <2>. QED
    BY <1>3 DEF Runs
<1>5. P(f)
  <2>1. ASSUME NEW k \in 0 .. Width
        PROVE  f[k] = IF k = 0 THEN c ELSE Divided(f[k - 1])
    <3>1. CASE k # 0
      <4>1. k \in 1 .. Width /\ k - 1 \in 0 .. Width
        BY <1>1, <3>1
      <4>2. f[k - 1] \in Register /\ f[k] = step[k][f[k - 1]]
        BY <1>4, <4>1
      <4>3. step[k] = [r \in Register |-> Divided(r)]
        BY <4>1
      <4>. QED
        BY <3>1, <4>2, <4>3
    <3>. QED
      BY <1>4, <3>1
  <2>2. f = [k \in 0 .. Width |-> f[k]]
    BY <1>4
  <2>. HIDE DEF step
  <2>. QED
    BY <2>1, <2>2
<1>. HIDE DEF step
<1>6. P(F)
  BY <1>5
<1>7. Division(c) = F
  BY DEF Division
<1>. HIDE DEF F
<1>8. /\ F = [k \in 0 .. Width |-> F[k]] /\ F[0] = c
      /\ \A k \in 1 .. Width : F[k] = Divided(F[k - 1])
  <2>1. F = [k \in 0 .. Width |-> F[k]]
    BY <1>6, Zenon
  <2>2. F[0] = c
    BY <1>1, <1>6
  <2>3. ASSUME NEW k \in 1 .. Width
        PROVE  F[k] = Divided(F[k - 1])
    <3>1. k \in 0 .. Width /\ k # 0
      BY <1>1
    <3>2. F[k] = IF k = 0 THEN c ELSE Divided(F[k - 1])
      BY <1>6, <3>1
    <3>. QED
      BY <3>1, <3>2
  <2>. HIDE DEF P
  <2>. QED
    BY <2>1, <2>2, <2>3
<1>. HIDE DEF P
<1>9. F \in [0 .. Width -> Register]
  <2>1. F[0] \in Register
    BY <1>8
  <2>2. \A k \in 1 .. Width : F[k - 1] \in Register => F[k] \in Register
    BY <1>8, DividedIsRegister
  <2>3. F = [k \in 0 .. Width |-> F[k]]
    BY <1>8
  <2>. HIDE DEF Register
  <2>. QED
    BY <1>1, <2>1, <2>2, <2>3, StaysIn
<1>. QED
  BY <1>7, <1>8, <1>9

(* So is the whole division,                                               *)
LEMMA DivisionOfXor ==
  ASSUME NEW a \in Register, NEW b \in Register
  PROVE  \A k \in 0 .. Width : Division(Xor(a, b))[k] = Xor(Division(a)[k], Division(b)[k])
<1>. DEFINE A == {k \in 0 .. Width : Division(Xor(a, b))[k] = Xor(Division(a)[k], Division(b)[k])}
<1>1. Width \in Nat /\ Xor(a, b) \in Register
  BY WidthAssumption, XorOfRegisters
<1>2. 0 \in A
  BY <1>1, DivisionIs
<1>3. ASSUME NEW k \in 1 .. Width, k - 1 \in A
      PROVE  k \in A
  <2>1. k \in 0 .. Width /\ k - 1 \in 0 .. Width
    BY <1>1
  <2>2. Division(a)[k - 1] \in Register /\ Division(b)[k - 1] \in Register
    BY <2>1, DivisionIs
  <2>3. /\ Division(Xor(a, b))[k] = Divided(Division(Xor(a, b))[k - 1])
        /\ Division(a)[k] = Divided(Division(a)[k - 1])
        /\ Division(b)[k] = Divided(Division(b)[k - 1])
    BY <1>1, DivisionIs
  <2>4. Division(Xor(a, b))[k - 1] = Xor(Division(a)[k - 1], Division(b)[k - 1])
    BY <1>3
  <2>. QED
    BY <2>1, <2>2, <2>3, <2>4, DividedOfXor
<1>. HIDE DEF A
<1>4. \A k \in 0 .. Width : k \in A
  BY <1>1, <1>2, <1>3, UpTo
<1>. QED
  BY <1>4 DEF A

(* and it leaves nothing of nothing only.                                  *)
LEMMA OnlyNothingLeavesNothing ==
  ASSUME NEW c \in Register, Division(c)[Width] = {}
  PROVE  c = {}
<1>. DEFINE A == {k \in 0 .. Width : Division(c)[k] # {}}
<1>1. Width \in Nat /\ Width \in 0 .. Width
  BY WidthAssumption
<1>2. ASSUME c # {}
      PROVE  FALSE
  <2>1. 0 \in A
    BY <1>1, <1>2, DivisionIs
  <2>2. ASSUME NEW k \in 1 .. Width, k - 1 \in A
        PROVE  k \in A
    <3>1. k \in 0 .. Width /\ k - 1 \in 0 .. Width
      BY <1>1
    <3>2. Division(c)[k - 1] \in Register /\ Division(c)[k] = Divided(Division(c)[k - 1])
      BY <3>1, DivisionIs
    <3>. QED
      BY <2>2, <3>1, <3>2, OnlyNothingIsDivided
  <2>. HIDE DEF A
  <2>3. \A k \in 0 .. Width : k \in A
    BY <1>1, <2>1, <2>2, UpTo
  <2>. USE DEF A
  <2>. QED
    BY <1>1, <2>3
<1>. QED
  BY <1>2

(* While the bits that are shifted out are 0 nothing is subtracted.        *)
LEMMA DivisionShifts ==
  ASSUME NEW r \in Register, NEW m \in 0 .. Width, \A b \in r : b >= m
  PROVE  \A k \in 0 .. m : Division(r)[k] = {b \in 0 .. 4 * Width - 1 : b + k \in r}
<1>. DEFINE Down(k) == {b \in 0 .. 4 * Width - 1 : b + k \in r}
            A == {k \in 0 .. m : Division(r)[k] = Down(k)}
<1>1. m \in Nat /\ Width \in Nat \ {0} /\ m <= Width
  BY WidthAssumption
<1>2. 0 \in A
  <2>1. r = Down(0)
    <3>1. \A b \in 0 .. 4 * Width - 1 : b + 0 = b
      BY <1>1
    <3>2. \A b \in r : b \in 0 .. 4 * Width - 1
      BY DEF Register
    <3>3. \A b : b \in Down(0) <=> b \in 0 .. 4 * Width - 1 /\ b + 0 \in r
      OBVIOUS
    <3>. HIDE DEF Down
    <3>. QED
      BY <3>1, <3>2, <3>3
  <2>. HIDE DEF Down
  <2>. QED
    BY <1>1, <2>1, DivisionIs
<1>3. ASSUME NEW k \in 1 .. m, k - 1 \in A
      PROVE  k \in A
  <2>1. k \in 0 .. m /\ k \in 1 .. Width /\ k - 1 \in 0 .. m
    BY <1>1
  <2>2. Division(r)[k] = Divided(Down(k - 1))
    <3>. HIDE DEF Down
    <3>. QED
      BY <1>3, <2>1, DivisionIs
  <2>3. 0 \notin Down(k - 1)
    BY <1>1, <2>1
  <2>4. Shifted1(Down(k - 1)) = Down(k)
    <3>1. ASSUME NEW b \in 0 .. 4 * Width - 1
          PROVE  b + 1 \in Down(k - 1) <=> b + k \in r
      <4>1. (b + 1) + (k - 1) = b + k
        BY <2>1
      <4>2. b + k \in r => b + 1 \in 0 .. 4 * Width - 1
        <5>1. b + k \in r => b + k \in 0 .. 4 * Width - 1
          BY DEF Register
        <5>. QED
          BY <1>1, <2>1, <5>1
      <4>3. b + 1 \in Down(k - 1)
              <=> b + 1 \in 0 .. 4 * Width - 1 /\ (b + 1) + (k - 1) \in r
        BY Zenon
      <4>. HIDE DEF Down
      <4>. QED
        BY <4>1, <4>2, <4>3
    <3>. QED
      BY <3>1 DEF Shifted1
  <2>. HIDE DEF Down
  <2>. QED
    BY <2>1, <2>2, <2>3, <2>4 DEF Divided
<1>. HIDE DEF A
<1>4. \A k \in 0 .. m : k \in A
  BY <1>1, <1>2, <1>3, UpTo
<1>. QED
  BY <1>4 DEF A

(* A lookup in the table divides by all the bits of an octet.              *)
LEMMA LookIsDivision ==
  ASSUME NEW c \in Register
  PROVE  Look(c) = Division(c)[Width]
<1>. DEFINE low == CRC32_INDEX(c)
            high == c \cap Above
<1>1. Width \in Nat \ {0} /\ Width \in 0 .. Width
  BY WidthAssumption
<1>2. low \in Octet /\ low \in Register /\ high \in Register
  BY <1>1 DEF CRC32_INDEX, Octet, Register
<1>3. c = Xor(low, high)
  <2>1. \A b \in c : b \in 0 .. Width - 1 \/ b \in Above
    BY <1>1 DEF Above, Register
  <2>2. \A b \in Above : b \notin 0 .. Width - 1
    BY <1>1 DEF Above
  <2>3. low = c \cap (0 .. Width - 1)
    BY DEF CRC32_INDEX
  <2>. HIDE DEF low
  <2>. QED
    BY <2>1, <2>2, <2>3 DEF Xor
<1>4. \A b \in high : b >= Width
  BY <1>1 DEF Above
<1>5. CRC32_SHIFTED(c) = {b \in 0 .. 4 * Width - 1 : b + Width \in high}
  BY <1>1 DEF CRC32_SHIFTED, Above, Register
<1>. HIDE DEF low, high
<1>6. Division(high)[Width] = CRC32_SHIFTED(c)
  BY <1>1, <1>2, <1>4, <1>5, DivisionShifts
<1>7. Division(low)[Width] = s_tab[low]
  BY <1>2, TableAssumption DEF Residue
<1>8. Division(Xor(low, high))[Width] = Xor(Division(low)[Width], Division(high)[Width])
  BY <1>1, <1>2, DivisionOfXor
<1>. QED
  BY <1>3, <1>6, <1>7, <1>8 DEF Look, low
(* The reference's step is a register for each bit of the octet.           *)
Fed(c, b, o) == IF b \in o THEN Xor(c, {0}) ELSE c

(* The next bit goes into the lowest one.                                  *)
LEMMA FedIsRegister ==
  ASSUME NEW c \in Register, NEW b, NEW o
  PROVE  Fed(c, b, o) \in Register
<1>1. {0} \in Register
  BY WidthAssumption DEF Register
<1>. QED
  BY <1>1, XorOfRegisters DEF Fed

(* The reference for one octet feeds and divides by turns.                 *)
LEMMA BitByBitIs ==
  ASSUME NEW c \in Register, NEW o
  PROVE  /\ BitByBit(c, o) \in [0 .. Width -> Register] /\ BitByBit(c, o)[0] = c
         /\ \A k \in 1 .. Width :
              BitByBit(c, o)[k] = Divided(Fed(BitByBit(c, o)[k - 1], k - 1, o))
<1>. DEFINE P(f) == f = [k \in 0 .. Width |->
                          IF k = 0 THEN c ELSE Divided(Fed(f[k - 1], k - 1, o))]
            F == CHOOSE f : P(f)
            step == [k \in 1 .. Width |-> [r \in Register |-> Divided(Fed(r, k - 1, o))]]
<1>1. Width \in Nat
  BY WidthAssumption
<1>2. \A k \in 1 .. Width, r \in Register : Divided(Fed(r, k - 1, o)) \in Register
  BY DividedIsRegister, FedIsRegister
<1>3. PICK f : Runs(f, Register, c, step, Width)
  <2>1. step \in [1 .. Width -> [Register -> Register]]
    BY <1>2
  <2>. HIDE DEF step
  <2>. QED
    BY <1>1, <2>1, RunExists
<1>4. /\ f \in [0 .. Width -> Register] /\ f[0] = c
      /\ \A k \in 1 .. Width : f[k] = step[k][f[k - 1]]
  <2>. HIDE DEF step
  <2>. QED
    BY <1>3 DEF Runs
<1>5. P(f)
  <2>1. ASSUME NEW k \in 0 .. Width
        PROVE  f[k] = IF k = 0 THEN c ELSE Divided(Fed(f[k - 1], k - 1, o))
    <3>1. CASE k # 0
      <4>1. k \in 1 .. Width /\ k - 1 \in 0 .. Width
        BY <1>1, <3>1
      <4>2. f[k - 1] \in Register /\ f[k] = step[k][f[k - 1]]
        BY <1>4, <4>1
      <4>3. step[k] = [r \in Register |-> Divided(Fed(r, k - 1, o))]
        BY <4>1
      <4>. QED
        BY <3>1, <4>2, <4>3
    <3>. QED
      BY <1>4, <3>1
  <2>2. f = [k \in 0 .. Width |-> f[k]]
    BY <1>4
  <2>. HIDE DEF step
  <2>. QED
    BY <2>1, <2>2
<1>. HIDE DEF step
<1>6. P(F)
  BY <1>5
<1>7. BitByBit(c, o) = F
  BY DEF BitByBit, Fed
<1>. HIDE DEF F
<1>8. /\ F = [k \in 0 .. Width |-> F[k]] /\ F[0] = c
      /\ \A k \in 1 .. Width : F[k] = Divided(Fed(F[k - 1], k - 1, o))
  <2>1. F = [k \in 0 .. Width |-> F[k]]
    BY <1>6, Zenon
  <2>2. F[0] = c
    BY <1>1, <1>6
  <2>3. ASSUME NEW k \in 1 .. Width
        PROVE  F[k] = Divided(Fed(F[k - 1], k - 1, o))
    <3>1. k \in 0 .. Width /\ k # 0
      BY <1>1
    <3>2. F[k] = IF k = 0 THEN c ELSE Divided(Fed(F[k - 1], k - 1, o))
      BY <1>6, <3>1
    <3>. QED
      BY <3>1, <3>2
  <2>. HIDE DEF P
  <2>. QED
    BY <2>1, <2>2, <2>3
<1>. HIDE DEF P
<1>9. F \in [0 .. Width -> Register]
  <2>1. F[0] \in Register
    BY <1>8
  <2>2. \A k \in 1 .. Width : F[k - 1] \in Register => F[k] \in Register
    BY <1>2, <1>8
  <2>3. F = [k \in 0 .. Width |-> F[k]]
    BY <1>8
  <2>. HIDE DEF Register
  <2>. QED
    BY <1>1, <2>1, <2>2, <2>3, StaysIn
<1>. QED
  BY <1>7, <1>8, <1>9

(* Adding an octet bit by bit while dividing is adding it first.           *)
LEMMA OctetIsItsBits ==
  ASSUME NEW c \in Register, NEW o \in Octet
  PROVE  BitByBit(c, o)[Width] = UpdateByte(c, o)
<1>. DEFINE Some(k) == o \cap (0 .. k - 1)
            A == {k \in 0 .. Width : BitByBit(c, o)[k] = Division(Xor(c, Some(k)))[k]}
<1>1. Width \in Nat \ {0} /\ Width \in 0 .. Width
  BY WidthAssumption
<1>2. \A k : Some(k) \in Register /\ Xor(c, Some(k)) \in Register
  <2>1. o \in Register
    BY <1>1 DEF Octet, Register
  <2>2. \A k : Some(k) \in Register
    BY <2>1 DEF Register
  <2>. HIDE DEF Some
  <2>. QED
    BY <2>2, XorOfRegisters
<1>3. 0 \in A
  <2>1. Xor(c, Some(0)) = c
    BY DEF Xor
  <2>. HIDE DEF Some
  <2>. QED
    BY <1>1, <2>1, BitByBitIs, DivisionIs
<1>4. ASSUME NEW k \in 1 .. Width, k - 1 \in A
      PROVE  k \in A
  <2>. DEFINE before == Xor(c, Some(k - 1))
              after == Xor(c, Some(k))
              rest == Division(before)[k - 1]
  <2>1. k \in 0 .. Width /\ k - 1 \in 0 .. Width /\ k - 1 \in Nat
    BY <1>1
  <2>2. BitByBit(c, o)[k - 1] = rest
    BY <1>4
  <2>3. before \in Register /\ after \in Register
    BY <1>2
  <2>. HIDE DEF A, before, after
  <2>4. BitByBit(c, o)[k] = Divided(Fed(rest, k - 1, o))
    <3>. HIDE DEF rest
    <3>. QED
      BY <2>2, BitByBitIs
  <2>5. Fed(rest, k - 1, o) = Division(after)[k - 1]
    <3>1. CASE k - 1 \notin o
      <4>1. Some(k - 1) = Some(k)
        BY <2>1, <3>1
      <4>2. before = after
        BY <4>1 DEF before, after
      <4>. QED
        BY <3>1, <4>2 DEF Fed
    <3>2. CASE k - 1 \in o
      <4>. DEFINE e == {k - 1}
      <4>1. e \in Register /\ \A b \in e : b >= k - 1
        BY <1>1, <2>1 DEF Register
      <4>2. after = Xor(before, e)
        <5>1. Some(k) = Some(k - 1) \cup e /\ k - 1 \notin Some(k - 1)
          BY <2>1, <3>2
        <5>. HIDE DEF Some
        <5>. QED
          BY <5>1 DEF before, after, Xor
      <4>3. Division(e)[k - 1] = {0}
        <5>1. {b \in 0 .. 4 * Width - 1 : b + (k - 1) \in e} = {0}
          BY <1>1, <2>1
        <5>2. k - 1 \in 0 .. k - 1
          BY <2>1
        <5>. HIDE DEF e
        <5>3. \A i \in 0 .. k - 1 :
                Division(e)[i] = {b \in 0 .. 4 * Width - 1 : b + i \in e}
          BY <2>1, <4>1, DivisionShifts
        <5>4. Division(e)[k - 1] = {b \in 0 .. 4 * Width - 1 : b + (k - 1) \in e}
          BY <5>2, <5>3
        <5>. QED
          BY <5>1, <5>4
      <4>. HIDE DEF e
      <4>4. Division(Xor(before, e))[k - 1] = Xor(rest, Division(e)[k - 1])
        BY <2>1, <2>3, <4>1, DivisionOfXor
      <4>. QED
        BY <3>2, <4>2, <4>3, <4>4 DEF Fed
    <3>. QED
      BY <3>1, <3>2
  <2>6. Division(after)[k] = Divided(Division(after)[k - 1])
    BY <2>3, DivisionIs
  <2>7. BitByBit(c, o)[k] = Division(after)[k]
    BY <2>4, <2>5, <2>6
  <2>. QED
    BY <2>1, <2>7 DEF A, after
<1>5. \A k \in 0 .. Width : k \in A
  <2>. HIDE DEF A
  <2>. QED
    BY <1>1, <1>3, <1>4, UpTo
<1>6. BitByBit(c, o)[Width] = Division(Xor(c, Some(Width)))[Width]
  BY <1>1, <1>5
<1>7. Some(Width) = o
  BY DEF Octet
<1>8. Xor(c, o) \in Register
  <2>1. Xor(c, Some(Width)) \in Register
    BY <1>2
  <2>. QED
    BY <1>7, <2>1
<1>. QED
  BY <1>6, <1>7, <1>8, LookIsDivision, UpdateByteIsLook

-----------------------------------------------------------------------------
(* The register after each of some octets.                                 *)
AreRegisters(f, c, octets) ==
  /\ f \in [0 .. Len(octets) -> Register] /\ f[0] = c
  /\ \A k \in 1 .. Len(octets) : f[k] = UpdateByte(f[k - 1], octets[k])

(* The reference takes the octets one by one, as UpdateByte does.          *)
LEMMA ContinuationIs ==
  ASSUME NEW c \in Register, NEW octets \in Seq(Octet)
  PROVE  AreRegisters(Continuation(c, octets), c, octets)
<1>. DEFINE P(f) == f = [k \in 0 .. Len(octets) |->
                          IF k = 0 THEN c ELSE BitByBit(f[k - 1], octets[k])[Width]]
            F == CHOOSE f : P(f)
            step == [k \in 1 .. Len(octets) |->
                      [r \in Register |-> UpdateByte(r, octets[k])]]
<1>1. Len(octets) \in Nat /\ \A k \in 1 .. Len(octets) : octets[k] \in Octet
  OBVIOUS
<1>2. \A k \in 1 .. Len(octets), r \in Register :
        /\ UpdateByte(r, octets[k]) \in Register
        /\ BitByBit(r, octets[k])[Width] = UpdateByte(r, octets[k])
  BY <1>1, UpdateByteIsRegister, OctetIsItsBits
<1>3. PICK f : Runs(f, Register, c, step, Len(octets))
  <2>1. step \in [1 .. Len(octets) -> [Register -> Register]]
    BY <1>2
  <2>. HIDE DEF step
  <2>. QED
    BY <1>1, <2>1, RunExists
<1>4. /\ f \in [0 .. Len(octets) -> Register] /\ f[0] = c
      /\ \A k \in 1 .. Len(octets) : f[k] = step[k][f[k - 1]]
  <2>. HIDE DEF step
  <2>. QED
    BY <1>3 DEF Runs
<1>5. P(f)
  <2>1. ASSUME NEW k \in 0 .. Len(octets)
        PROVE  f[k] = IF k = 0 THEN c ELSE BitByBit(f[k - 1], octets[k])[Width]
    <3>1. CASE k # 0
      <4>1. k \in 1 .. Len(octets) /\ k - 1 \in 0 .. Len(octets)
        BY <1>1, <3>1
      <4>2. f[k - 1] \in Register /\ f[k] = step[k][f[k - 1]]
        BY <1>4, <4>1
      <4>3. step[k] = [r \in Register |-> UpdateByte(r, octets[k])]
        BY <4>1
      <4>4. f[k] = UpdateByte(f[k - 1], octets[k])
        BY <4>2, <4>3
      <4>. QED
        BY <1>2, <3>1, <4>1, <4>2, <4>4
    <3>. QED
      BY <1>4, <3>1
  <2>2. f = [k \in 0 .. Len(octets) |-> f[k]]
    BY <1>4
  <2>. HIDE DEF step
  <2>. QED
    BY <2>1, <2>2
<1>. HIDE DEF step
<1>6. P(F)
  BY <1>5
<1>7. Continuation(c, octets) = F
  BY DEF Continuation
<1>. HIDE DEF F
<1>8. /\ F = [k \in 0 .. Len(octets) |-> F[k]] /\ F[0] = c
      /\ \A k \in 1 .. Len(octets) : F[k] = BitByBit(F[k - 1], octets[k])[Width]
  <2>1. F = [k \in 0 .. Len(octets) |-> F[k]]
    BY <1>6, Zenon
  <2>2. F[0] = c
    BY <1>1, <1>6
  <2>3. ASSUME NEW k \in 1 .. Len(octets)
        PROVE  F[k] = BitByBit(F[k - 1], octets[k])[Width]
    <3>1. k \in 0 .. Len(octets) /\ k # 0
      BY <1>1
    <3>2. F[k] = IF k = 0 THEN c ELSE BitByBit(F[k - 1], octets[k])[Width]
      BY <1>6, <3>1
    <3>. QED
      BY <3>1, <3>2
  <2>. HIDE DEF P
  <2>. QED
    BY <2>1, <2>2, <2>3
<1>. HIDE DEF P
<1>9. F \in [0 .. Len(octets) -> Register]
  <2>1. F[0] \in Register
    BY <1>8
  <2>2. ASSUME NEW k \in 1 .. Len(octets), F[k - 1] \in Register
        PROVE  F[k] \in Register
    <3>. HIDE DEF Register
    <3>1. /\ UpdateByte(F[k - 1], octets[k]) \in Register
          /\ BitByBit(F[k - 1], octets[k])[Width] = UpdateByte(F[k - 1], octets[k])
      BY <1>2, <2>2
    <3>2. F[k] = BitByBit(F[k - 1], octets[k])[Width]
      BY <1>8
    <3>. QED
      BY <3>1, <3>2
  <2>3. F = [k \in 0 .. Len(octets) |-> F[k]]
    BY <1>8
  <2>. HIDE DEF Register
  <2>. QED
    BY <1>1, <2>1, <2>2, <2>3, StaysIn
<1>10. \A k \in 1 .. Len(octets) : F[k] = UpdateByte(F[k - 1], octets[k])
  <2>1. \A k \in 1 .. Len(octets) : k - 1 \in 0 .. Len(octets)
    BY <1>1
  <2>. QED
    BY <1>2, <1>8, <1>9, <2>1
<1>. QED
  BY <1>7, <1>8, <1>9, <1>10 DEF AreRegisters

(* Nothing else does.                                                      *)
LEMMA ContinuedIs ==
  ASSUME NEW c \in Register, NEW octets \in Seq(Octet),
         NEW f, AreRegisters(f, c, octets)
  PROVE  Continued(c, octets) = f[Len(octets)]
<1>. DEFINE g == Continuation(c, octets)
            A == {k \in 0 .. Len(octets) : f[k] = g[k]}
<1>1. Len(octets) \in Nat /\ Len(octets) \in 0 .. Len(octets)
  OBVIOUS
<1>2. AreRegisters(g, c, octets)
  BY ContinuationIs
<1>. HIDE DEF g
<1>3. 0 \in A
  BY <1>1, <1>2 DEF AreRegisters
<1>4. ASSUME NEW k \in 1 .. Len(octets), k - 1 \in A
      PROVE  k \in A
  <2>1. k \in 0 .. Len(octets) /\ f[k - 1] = g[k - 1]
    BY <1>1, <1>4
  <2>2. /\ f[k] = UpdateByte(f[k - 1], octets[k])
        /\ g[k] = UpdateByte(g[k - 1], octets[k])
    BY <1>2 DEF AreRegisters
  <2>. QED
    BY <2>1, <2>2
<1>5. \A k \in 0 .. Len(octets) : k \in A
  <2>. HIDE DEF A
  <2>. QED
    BY <1>1, <1>3, <1>4, UpTo
<1>6. f[Len(octets)] = g[Len(octets)]
  BY <1>1, <1>5
<1>. QED
  BY <1>6 DEF Continued, g

(* What it comes to is a register.                                         *)
LEMMA ContinuedIsRegister ==
  ASSUME NEW c \in Register, NEW octets \in Seq(Octet)
  PROVE  Continued(c, octets) \in Register
<1>1. Len(octets) \in 0 .. Len(octets)
  OBVIOUS
<1>2. Continuation(c, octets) \in [0 .. Len(octets) -> Register]
  BY ContinuationIs DEF AreRegisters
<1>. QED
  BY <1>1, <1>2 DEF Continued
(* Octets in two parts continue where the first part ended.                *)
LEMMA ContinuedOfParts ==
  ASSUME NEW c \in Register, NEW a \in Seq(Octet), NEW b \in Seq(Octet)
  PROVE  Continued(c, a \o b) = Continued(Continued(c, a), b)
<1>. DEFINE m == Len(a)
            n == Len(b)
            f == Continuation(c, a)
            g == Continuation(f[m], b)
            h == [k \in 0 .. m + n |-> IF k <= m THEN f[k] ELSE g[k - m]]
<1>1. /\ m \in Nat /\ n \in Nat /\ m \in 0 .. m /\ n \in 0 .. n /\ m + n \in Nat
      /\ a \o b \in Seq(Octet) /\ Len(a \o b) = m + n
      /\ \A k \in 1 .. m + n : (a \o b)[k] = IF k <= m THEN a[k] ELSE b[k - m]
  BY ConcatProperties
<1>2. AreRegisters(f, c, a)
  BY ContinuationIs
<1>3. f[m] \in Register
  BY <1>1, <1>2 DEF AreRegisters
<1>4. AreRegisters(g, f[m], b)
  BY <1>3, ContinuationIs
<1>5. f[m] = Continued(c, a) /\ g[n] = Continued(Continued(c, a), b)
  BY DEF Continued
<1>6. /\ f \in [0 .. m -> Register] /\ f[0] = c
      /\ \A k \in 1 .. m : f[k] = UpdateByte(f[k - 1], a[k])
  BY <1>2 DEF AreRegisters
<1>7. /\ g \in [0 .. n -> Register] /\ g[0] = f[m]
      /\ \A k \in 1 .. n : g[k] = UpdateByte(g[k - 1], b[k])
  BY <1>4 DEF AreRegisters
<1>. HIDE DEF m, n, f, g
<1>8. \A k \in 0 .. m + n : h[k] = IF k <= m THEN f[k] ELSE g[k - m]
  OBVIOUS
<1>9. h \in [0 .. m + n -> Register]
  <2>1. ASSUME NEW k \in 0 .. m + n
        PROVE  (IF k <= m THEN f[k] ELSE g[k - m]) \in Register
    <3>1. CASE k <= m
      BY <1>1, <1>6, <3>1
    <3>2. CASE ~ (k <= m)
      <4>1. k - m \in 0 .. n
        BY <1>1, <3>2
      <4>. QED
        BY <1>7, <3>2, <4>1
    <3>. QED
      BY <3>1, <3>2
  <2>. QED
    BY <2>1
<1>. HIDE DEF h
<1>10. ASSUME NEW k \in 1 .. m + n
       PROVE  h[k] = UpdateByte(h[k - 1], (a \o b)[k])
  <2>1. k \in 0 .. m + n /\ k - 1 \in 0 .. m + n
    BY <1>1
  <2>2. CASE k <= m
    <3>1. k \in 1 .. m /\ k - 1 <= m
      BY <1>1, <2>2
    <3>2. h[k] = f[k] /\ h[k - 1] = f[k - 1] /\ (a \o b)[k] = a[k]
      BY <1>1, <1>8, <2>1, <2>2, <3>1
    <3>. QED
      BY <1>6, <3>1, <3>2
  <2>3. CASE ~ (k <= m)
    <3>1. k - m \in 1 .. n /\ (k - m) - 1 = (k - 1) - m
      BY <1>1, <2>3
    <3>2. h[k] = g[k - m] /\ (a \o b)[k] = b[k - m]
      BY <1>1, <1>8, <2>1, <2>3
    <3>3. h[k - 1] = g[(k - m) - 1]
      <4>1. CASE k - 1 <= m
        <5>1. k - 1 = m /\ (k - m) - 1 = 0
          BY <1>1, <2>1, <2>3, <4>1
        <5>. QED
          BY <1>7, <1>8, <2>1, <4>1, <5>1
      <4>2. CASE ~ (k - 1 <= m)
        BY <1>8, <2>1, <3>1, <4>2
      <4>. QED
        BY <4>1, <4>2
    <3>. QED
      BY <1>7, <3>1, <3>2, <3>3
  <2>. QED
    BY <2>2, <2>3
<1>11. h[0] = c
  BY <1>1, <1>6, <1>8
<1>12. AreRegisters(h, c, a \o b)
  BY <1>1, <1>9, <1>10, <1>11 DEF AreRegisters
<1>13. Continued(c, a \o b) = h[m + n]
  BY <1>1, <1>12, ContinuedIs
<1>14. h[m + n] = g[n]
  <2>1. m + n \in 0 .. m + n
    BY <1>1
  <2>2. CASE n = 0
    BY <1>1, <1>7, <1>8, <2>1, <2>2
  <2>3. CASE n # 0
    <3>1. ~ (m + n <= m) /\ (m + n) - m = n
      BY <1>1, <2>3
    <3>. QED
      BY <1>8, <2>1, <3>1
  <2>. QED
    BY <2>2, <2>3
<1>. QED
  BY <1>5, <1>13, <1>14

(* No octets leave the register as it is.                                  *)
LEMMA ContinuedByNone ==
  ASSUME NEW c \in Register
  PROVE  Continued(c, << >>) = c
<1>1. << >> \in Seq(Octet) /\ Len(<< >>) = 0
  OBVIOUS
<1>2. Continuation(c, << >>)[0] = c
  BY <1>1, ContinuationIs DEF AreRegisters
<1>. QED
  BY <1>1, <1>2 DEF Continued

(* The octet that is next may be taken now.                                *)
LEMMA ContinuedByOctet ==
  ASSUME NEW c \in Register, NEW octets \in Seq(Octet), octets # << >>
  PROVE  /\ UpdateByte(c, Head(octets)) \in Register /\ Tail(octets) \in Seq(Octet)
         /\ Continued(c, octets) = Continued(UpdateByte(c, Head(octets)), Tail(octets))
<1>. DEFINE o == Head(octets)
<1>1. /\ o \in Octet /\ <<o>> \in Seq(Octet) /\ Len(<<o>>) = 1 /\ <<o>>[1] = o
      /\ Tail(octets) \in Seq(Octet) /\ octets = <<o>> \o Tail(octets)
  <2>1. Len(octets) \in Nat \ {0} /\ octets[1] \in Octet /\ o = octets[1]
    BY EmptySeq
  <2>2. /\ Tail(octets) \in Seq(Octet) /\ Len(Tail(octets)) = Len(octets) - 1
        /\ \A i \in 1 .. Len(octets) - 1 : Tail(octets)[i] = octets[i + 1]
    BY HeadTailProperties
  <2>. DEFINE t == Tail(octets)
  <2>. HIDE DEF o, t
  <2>3. <<o>> \in Seq(Octet) /\ Len(<<o>>) = 1 /\ <<o>>[1] = o
    BY <2>1
  <2>4. /\ <<o>> \o t \in Seq(Octet) /\ Len(<<o>> \o t) = 1 + Len(t)
        /\ \A i \in 1 .. 1 + Len(t) : (<<o>> \o t)[i] = IF i <= 1 THEN <<o>>[i] ELSE t[i - 1]
    BY <2>2, <2>3, ConcatProperties DEF t
  <2>5. Len(<<o>> \o t) = Len(octets)
    BY <2>1, <2>2, <2>4 DEF t
  <2>6. ASSUME NEW i \in 1 .. Len(octets)
        PROVE  (<<o>> \o t)[i] = octets[i]
    <3>1. i \in 1 .. 1 + Len(t)
      BY <2>1, <2>2 DEF t
    <3>2. CASE i = 1
      BY <2>1, <2>3, <2>4, <3>1, <3>2
    <3>3. CASE i # 1
      <4>1. ~ (i <= 1) /\ i - 1 \in 1 .. Len(octets) - 1 /\ (i - 1) + 1 = i
        BY <2>1, <3>3
      <4>2. (<<o>> \o t)[i] = t[i - 1]
        BY <2>4, <3>1, <4>1
      <4>. QED
        BY <2>2, <4>1, <4>2 DEF t
    <3>. QED
      BY <3>2, <3>3
  <2>7. octets = <<o>> \o t
    BY <2>4, <2>5, <2>6, SeqEqual
  <2>. QED
    BY <2>1, <2>2, <2>3, <2>7 DEF t
<1>. HIDE DEF o
<1>2. UpdateByte(c, o) \in Register
  BY <1>1, UpdateByteIsRegister
<1>. DEFINE f == [k \in 0 .. 1 |-> IF k = 0 THEN c ELSE UpdateByte(c, o)]
<1>3. AreRegisters(f, c, <<o>>) /\ f[1] = UpdateByte(c, o)
  BY <1>1, <1>2 DEF AreRegisters
<1>. HIDE DEF f
<1>4. Continued(c, <<o>>) = UpdateByte(c, o)
  <2>1. Continued(c, <<o>>) = f[Len(<<o>>)]
    BY <1>1, <1>3, ContinuedIs
  <2>. QED
    BY <1>1, <1>3, <2>1
<1>5. Continued(c, <<o>> \o Tail(octets)) = Continued(Continued(c, <<o>>), Tail(octets))
  BY <1>1, ContinuedOfParts
<1>. QED
  BY <1>1, <1>2, <1>4, <1>5 DEF o

(* Four octets may be taken now, as the loop by four does.                 *)
LEMMA ContinuedByChunk ==
  ASSUME NEW c \in Register, NEW octets \in Seq(Octet), Len(octets) >= 4
  PROVE  Continued(c, octets)
           = Continued(UpdateByte(UpdateByte(UpdateByte(UpdateByte(c,
               octets[1]), octets[2]), octets[3]), octets[4]),
               SubSeq(octets, 5, Len(octets)))
<1>. DEFINE t1 == Tail(octets)
            t2 == Tail(t1)
            t3 == Tail(t2)
            t4 == Tail(t3)
            u1 == UpdateByte(c, octets[1])
            u2 == UpdateByte(u1, octets[2])
            u3 == UpdateByte(u2, octets[3])
            u4 == UpdateByte(u3, octets[4])
<1>1. octets # << >> /\ Len(octets) \in Nat /\ Head(octets) = octets[1]
  BY EmptySeq
<1>2. /\ u1 \in Register /\ t1 \in Seq(Octet)
      /\ Continued(c, octets) = Continued(u1, t1)
  BY <1>1, ContinuedByOctet
<1>3. /\ Len(t1) = Len(octets) - 1 /\ \A i \in 1 .. Len(octets) - 1 : t1[i] = octets[i + 1]
  BY <1>1, HeadTailProperties
<1>. HIDE DEF t1, u1
<1>4. t1 # << >> /\ Head(t1) = octets[2]
  <2>1. 1 \in 1 .. Len(octets) - 1 /\ 1 + 1 = 2 /\ Len(t1) # 0
    BY <1>1, <1>3
  <2>. QED
    BY <1>2, <1>3, <2>1, EmptySeq
<1>5. /\ u2 \in Register /\ t2 \in Seq(Octet)
      /\ Continued(u1, t1) = Continued(u2, t2)
  BY <1>2, <1>4, ContinuedByOctet
<1>6. /\ Len(t2) = Len(octets) - 2 /\ \A i \in 1 .. Len(octets) - 2 : t2[i] = octets[i + 2]
  <2>1. Len(t2) = Len(t1) - 1 /\ \A i \in 1 .. Len(t1) - 1 : t2[i] = t1[i + 1]
    BY <1>2, <1>4, HeadTailProperties
  <2>2. \A i \in 1 .. Len(octets) - 2 : i + 1 \in 1 .. Len(octets) - 1 /\ (i + 1) + 1 = i + 2
    BY <1>1
  <2>3. Len(t1) - 1 = Len(octets) - 2
    BY <1>1, <1>3
  <2>. HIDE DEF t2
  <2>. QED
    BY <1>3, <2>1, <2>2, <2>3
<1>. HIDE DEF t2, u2
<1>7. t2 # << >> /\ Head(t2) = octets[3]
  <2>1. 1 \in 1 .. Len(octets) - 2 /\ 1 + 2 = 3 /\ Len(t2) # 0
    BY <1>1, <1>6
  <2>. QED
    BY <1>5, <1>6, <2>1, EmptySeq
<1>8. /\ u3 \in Register /\ t3 \in Seq(Octet)
      /\ Continued(u2, t2) = Continued(u3, t3)
  BY <1>5, <1>7, ContinuedByOctet
<1>9. /\ Len(t3) = Len(octets) - 3 /\ \A i \in 1 .. Len(octets) - 3 : t3[i] = octets[i + 3]
  <2>1. Len(t3) = Len(t2) - 1 /\ \A i \in 1 .. Len(t2) - 1 : t3[i] = t2[i + 1]
    BY <1>5, <1>7, HeadTailProperties
  <2>2. \A i \in 1 .. Len(octets) - 3 : i + 1 \in 1 .. Len(octets) - 2 /\ (i + 1) + 2 = i + 3
    BY <1>1
  <2>3. Len(t2) - 1 = Len(octets) - 3
    BY <1>1, <1>6
  <2>. HIDE DEF t3
  <2>. QED
    BY <1>6, <2>1, <2>2, <2>3
<1>. HIDE DEF t3, u3
<1>10. t3 # << >> /\ Head(t3) = octets[4]
  <2>1. 1 \in 1 .. Len(octets) - 3 /\ 1 + 3 = 4 /\ Len(t3) # 0
    BY <1>1, <1>9
  <2>. QED
    BY <1>8, <1>9, <2>1, EmptySeq
<1>11. /\ u4 \in Register /\ t4 \in Seq(Octet)
       /\ Continued(u3, t3) = Continued(u4, t4)
  BY <1>8, <1>10, ContinuedByOctet
<1>12. /\ Len(t4) = Len(octets) - 4 /\ \A i \in 1 .. Len(octets) - 4 : t4[i] = octets[i + 4]
  <2>1. Len(t4) = Len(t3) - 1 /\ \A i \in 1 .. Len(t3) - 1 : t4[i] = t3[i + 1]
    BY <1>8, <1>10, HeadTailProperties
  <2>2. \A i \in 1 .. Len(octets) - 4 : i + 1 \in 1 .. Len(octets) - 3 /\ (i + 1) + 3 = i + 4
    BY <1>1
  <2>3. Len(t3) - 1 = Len(octets) - 4
    BY <1>1, <1>9
  <2>. HIDE DEF t4
  <2>. QED
    BY <1>9, <2>1, <2>2, <2>3
<1>. HIDE DEF t4, u4
<1>13. SubSeq(octets, 5, Len(octets)) = t4
  <2>. DEFINE q == SubSeq(octets, 5, Len(octets))
  <2>1. /\ q \in Seq(Octet) /\ Len(q) = Len(octets) - 4
        /\ \A i \in 1 .. Len(octets) - 4 : q[i] = octets[i + 4]
    <3>1. /\ q \in Seq(Octet)
          /\ Len(q) = IF 5 <= Len(octets) THEN Len(octets) - 5 + 1 ELSE 0
          /\ \A i \in 1 .. Len(octets) - 5 + 1 : q[i] = octets[5 + i - 1]
      <4>1. \A i \in 5 .. Len(octets) : octets[i] \in Octet
        OBVIOUS
      <4>. QED
        BY <1>1, <4>1, SubSeqProperties
    <3>2. Len(octets) - 5 + 1 = Len(octets) - 4 /\ \A i \in 1 .. Len(octets) - 4 : 5 + i - 1 = i + 4
      BY <1>1
    <3>3. ~ (5 <= Len(octets)) => Len(octets) - 4 = 0
      <4>1. \A x \in Nat : x >= 4 /\ ~ (5 <= x) => x - 4 = 0
        OBVIOUS
      <4>. QED
        BY <1>1, <4>1
    <3>. HIDE DEF q
    <3>. QED
      BY <3>1, <3>2, <3>3
  <2>. HIDE DEF q
  <2>2. q = t4
    BY <1>11, <1>12, <2>1, SeqEqual
  <2>. QED
    BY <2>2 DEF q
<1>14. Continued(c, octets) = Continued(u4, t4)
  BY <1>2, <1>5, <1>8, <1>11
<1>. QED
  BY <1>13, <1>14 DEF u1, u2, u3, u4
-----------------------------------------------------------------------------
(* What differs is fed to the difference of the registers.                 *)
LEMMA UpdateByteOfXor ==
  ASSUME NEW a \in Register, NEW b \in Register, NEW p \in Octet, NEW q \in Octet
  PROVE  /\ Xor(p, q) \in Octet
         /\ UpdateByte(Xor(a, b), Xor(p, q)) = Xor(UpdateByte(a, p), UpdateByte(b, q))
<1>1. Xor(p, q) \in Octet
  BY DEF Octet, Xor
<1>2. p \in Register /\ q \in Register
  BY WidthAssumption DEF Octet, Register
<1>3. Xor(a, p) \in Register /\ Xor(b, q) \in Register
  BY <1>2, XorOfRegisters
<1>4. Xor(Xor(a, b), Xor(p, q)) = Xor(Xor(a, p), Xor(b, q))
  BY DEF Xor
<1>5. Xor(Xor(a, p), Xor(b, q)) \in Register
  BY <1>3, XorOfRegisters
<1>6. Width \in 0 .. Width
  BY WidthAssumption
<1>7. Division(Xor(Xor(a, p), Xor(b, q)))[Width]
        = Xor(Division(Xor(a, p))[Width], Division(Xor(b, q))[Width])
  BY <1>3, <1>6, DivisionOfXor
<1>8. Look(Xor(Xor(a, b), Xor(p, q))) = Xor(Look(Xor(a, p)), Look(Xor(b, q)))
  BY <1>3, <1>4, <1>5, <1>7, LookIsDivision
<1>. QED
  BY <1>1, <1>8, UpdateByteIsLook

(* Without a difference in the register or the data there is none after;   *)
(* and none after means none before.                                       *)
LEMMA NothingStaysNothing ==
  /\ {} \in Octet /\ {} \in Register /\ UpdateByte({}, {}) = {}
  /\ \A c \in Register : UpdateByte(c, {}) = {} => c = {}
  /\ \A c \in Register : Look(c) = {} => c = {}
<1>1. {} \in Octet /\ {} \in Register
  BY DEF Octet, Register
<1>2. Xor({}, {}) = {}
  BY DEF Xor
<1>3. UpdateByte({}, {}) = Xor(UpdateByte({}, {}), UpdateByte({}, {}))
  <2>1. UpdateByte(Xor({}, {}), Xor({}, {})) = Xor(UpdateByte({}, {}), UpdateByte({}, {}))
    BY <1>1, UpdateByteOfXor, Zenon
  <2>. QED
    BY <1>2, <2>1
<1>4. \A x : Xor(x, x) = {}
  BY DEF Xor
<1>5. ASSUME NEW c \in Register, Look(c) = {}
      PROVE  c = {}
  BY <1>5, LookIsDivision, OnlyNothingLeavesNothing
<1>6. ASSUME NEW c \in Register, UpdateByte(c, {}) = {}
      PROVE  c = {}
  <2>1. Xor(c, {}) = c
    BY DEF Xor
  <2>. QED
    BY <1>1, <1>5, <1>6, <2>1, UpdateByteIsLook
<1>. QED
  BY <1>1, <1>3, <1>4, <1>5, <1>6

(* Four octets are a register, and different ones different registers.     *)
LEMMA ChunkIsRegister ==
  ASSUME NEW o, \A i \in 1 .. 4 : o[i] \in Octet
  PROVE  /\ Chunk(o) \in Register
         /\ Chunk(o) = {} => \A i \in 1 .. 4 : o[i] = {}
<1>. DEFINE y3 == o[3] \cup ShiftedUp(o[4])
            y2 == o[2] \cup ShiftedUp(y3)
<1>1. Width \in Nat \ {0}
  BY WidthAssumption
<1>2. o[1] \in Octet /\ o[2] \in Octet /\ o[3] \in Octet /\ o[4] \in Octet
  OBVIOUS
<1>3. \A q \in Octet : /\ q \in SUBSET (0 .. 2 * Width - 1)
                       /\ q \in SUBSET (0 .. 3 * Width - 1) /\ q \in Register
  BY <1>1 DEF Octet, Register
<1>4. y3 \in SUBSET (0 .. 2 * Width - 1)
  BY <1>2, <1>3, ShiftedUpBounds
<1>. HIDE DEF y3
<1>5. y2 \in SUBSET (0 .. 3 * Width - 1)
  BY <1>2, <1>3, <1>4, ShiftedUpBounds
<1>. HIDE DEF y2
<1>6. Chunk(o) = o[1] \cup ShiftedUp(y2)
  BY DEF Chunk, y2, y3
<1>7. Chunk(o) \in Register
  BY <1>2, <1>3, <1>6 DEF ShiftedUp, Register
<1>8. CRC32_SHIFTED({}) = {}
  BY DEF CRC32_SHIFTED
<1>9. y3 \in SUBSET (0 .. 3 * Width - 1)
  BY <1>1, <1>4
<1>10. /\ ShiftedUp(y2) = {} => y2 = {}
       /\ ShiftedUp(y3) = {} => y3 = {}
       /\ ShiftedUp(o[4]) = {} => o[4] = {}
  BY <1>2, <1>3, <1>5, <1>8, <1>9, ShiftedUpAndDown
<1>11. ASSUME Chunk(o) = {}
       PROVE  o[1] = {} /\ o[2] = {} /\ o[3] = {} /\ o[4] = {}
  <2>1. o[1] = {} /\ y2 = {}
    BY <1>6, <1>10, <1>11
  <2>2. o[2] = {} /\ y3 = {}
    BY <1>10, <2>1 DEF y2
  <2>. QED
    BY <1>10, <2>1, <2>2 DEF y3
<1>12. \A i \in 1 .. 4 : i = 1 \/ i = 2 \/ i = 3 \/ i = 4
  OBVIOUS
<1>. QED
  BY <1>7, <1>11, <1>12

(* Data of one length that differ only within four successive octets have  *)
(* different checksums.                                                    *)
LEMMA BurstIsDetected ==
  ASSUME NEW c \in Register, NEW a \in Seq(Octet), NEW b \in Seq(Octet),
         Len(a) = Len(b), Continued(c, a) = Continued(c, b),
         NEW i \in 1 .. Len(a), NEW j \in 1 .. Len(a), j - i < 4,
         \A k \in 1 .. Len(a) : a[k] # b[k] => k \in i .. j
  PROVE  a = b
<1>. DEFINE n == Len(a)
            f == Continuation(c, a)
            g == Continuation(c, b)
            x == [k \in 0 .. n + 4 |-> IF k <= n THEN Xor(f[k], g[k]) ELSE {}]
            d == [k \in 1 .. n + 4 |-> IF k <= n THEN Xor(a[k], b[k]) ELSE {}]
<1>1. /\ n \in Nat /\ i \in 1 .. n /\ j \in 1 .. n /\ j - i < 4 /\ Len(b) = n
      /\ \A k \in 1 .. n : a[k] \in Octet /\ b[k] \in Octet
      /\ \A k \in 1 .. n : a[k] # b[k] => k \in i .. j
  OBVIOUS
<1>2. AreRegisters(f, c, a) /\ AreRegisters(g, c, b)
  BY ContinuationIs
<1>3. f[n] = g[n]
  BY DEF Continued
<1>. HIDE DEF n, f, g
<1>4. /\ f \in [0 .. n -> Register] /\ g \in [0 .. n -> Register]
      /\ f[0] = c /\ g[0] = c
      /\ \A k \in 1 .. n : /\ f[k] = UpdateByte(f[k - 1], a[k])
                           /\ g[k] = UpdateByte(g[k - 1], b[k])
  BY <1>1, <1>2 DEF AreRegisters, n
<1>5. \A p, q : Xor(p, p) = {} /\ (Xor(p, q) = {} => p = q)
  BY DEF Xor
<1>6. \A k \in 0 .. n + 4 : x[k] = IF k <= n THEN Xor(f[k], g[k]) ELSE {}
  OBVIOUS
<1>7. \A k \in 1 .. n + 4 : d[k] = IF k <= n THEN Xor(a[k], b[k]) ELSE {}
  OBVIOUS
<1>. HIDE DEF x, d
<1>8. \A k \in 0 .. n + 4 : x[k] \in Register
  <2>1. ASSUME NEW k \in 0 .. n + 4
        PROVE  x[k] \in Register
    <3>1. CASE k <= n
      <4>1. k \in 0 .. n
        BY <1>1, <3>1
      <4>2. f[k] \in Register /\ g[k] \in Register
        BY <1>4, <4>1
      <4>. QED
        BY <1>6, <3>1, <4>2, XorOfRegisters
    <3>2. CASE ~ (k <= n)
      BY <1>6, <3>2, NothingStaysNothing
    <3>. QED
      BY <3>1, <3>2
  <2>. QED
    BY <2>1
<1>9. \A k \in 1 .. n + 4 : d[k] \in Octet /\ (k \notin i .. j => d[k] = {})
  <2>1. ASSUME NEW k \in 1 .. n + 4
        PROVE  d[k] \in Octet /\ (k \notin i .. j => d[k] = {})
    <3>1. CASE k <= n
      <4>1. k \in 1 .. n
        BY <1>1, <3>1
      <4>2. d[k] = Xor(a[k], b[k]) /\ a[k] \in Octet /\ b[k] \in Octet
        BY <1>1, <1>7, <3>1, <4>1
      <4>3. Xor(a[k], b[k]) \in Octet
        BY <4>2 DEF Xor, Octet
      <4>4. k \notin i .. j => a[k] = b[k]
        BY <1>1, <4>1
      <4>. QED
        BY <1>5, <4>2, <4>3, <4>4
    <3>2. CASE ~ (k <= n)
      BY <1>7, <3>2, NothingStaysNothing
    <3>. QED
      BY <3>1, <3>2
  <2>. QED
    BY <2>1
<1>10. ASSUME NEW k \in 1 .. n + 4
       PROVE  x[k] = UpdateByte(x[k - 1], d[k])
  <2>1. k \in 0 .. n + 4 /\ k - 1 \in 0 .. n + 4
    BY <1>1
  <2>2. CASE k <= n
    <3>1. k \in 1 .. n /\ k - 1 \in 0 .. n /\ k - 1 <= n
      BY <1>1, <2>2
    <3>2. /\ x[k] = Xor(f[k], g[k]) /\ x[k - 1] = Xor(f[k - 1], g[k - 1])
          /\ d[k] = Xor(a[k], b[k])
      BY <1>6, <1>7, <2>1, <2>2, <3>1
    <3>3. /\ f[k - 1] \in Register /\ g[k - 1] \in Register
          /\ a[k] \in Octet /\ b[k] \in Octet
      BY <1>1, <1>4, <3>1
    <3>4. UpdateByte(Xor(f[k - 1], g[k - 1]), Xor(a[k], b[k]))
            = Xor(UpdateByte(f[k - 1], a[k]), UpdateByte(g[k - 1], b[k]))
      <4>. DEFINE v == f[k - 1]
                  w == g[k - 1]
                  p == a[k]
                  q == b[k]
      <4>1. v \in Register /\ w \in Register /\ p \in Octet /\ q \in Octet
        BY <3>3
      <4>. HIDE DEF v, w, p, q
      <4>2. UpdateByte(Xor(v, w), Xor(p, q)) = Xor(UpdateByte(v, p), UpdateByte(w, q))
        BY <4>1, UpdateByteOfXor
      <4>. QED
        BY <4>2 DEF v, w, p, q
    <3>. QED
      BY <1>4, <3>1, <3>2, <3>4
  <2>3. CASE ~ (k <= n)
    <3>1. x[k] = {} /\ d[k] = {}
      BY <1>6, <1>7, <2>1, <2>3
    <3>2. x[k - 1] = {}
      <4>1. CASE k - 1 <= n
        <5>1. k - 1 = n
          BY <1>1, <2>3, <4>1
        <5>. QED
          BY <1>3, <1>5, <1>6, <2>1, <4>1, <5>1
      <4>2. CASE ~ (k - 1 <= n)
        BY <1>6, <2>1, <4>2
      <4>. QED
        BY <4>1, <4>2
    <3>. QED
      BY <3>1, <3>2, NothingStaysNothing
  <2>. QED
    BY <2>2, <2>3
<1>11. x[i - 1] = {}
  <2>. DEFINE A == {k \in 0 .. i - 1 : x[k] = {}}
  <2>1. 0 \in A
    BY <1>1, <1>4, <1>5, <1>6
  <2>2. ASSUME NEW k \in 1 .. i - 1, k - 1 \in A
        PROVE  k \in A
    <3>1. k \in 1 .. n + 4 /\ k \notin i .. j /\ k \in 0 .. i - 1
      BY <1>1
    <3>2. x[k - 1] = {} /\ d[k] = {}
      BY <1>9, <2>2, <3>1
    <3>. QED
      BY <1>10, <3>1, <3>2, NothingStaysNothing
  <2>. HIDE DEF A
  <2>3. \A k \in 0 .. i - 1 : k \in A
    <3>1. i - 1 \in Nat
      BY <1>1
    <3>. QED
      BY <2>1, <2>2, <3>1, UpTo
  <2>4. i - 1 \in 0 .. i - 1
    BY <1>1
  <2>5. i - 1 \in A
    BY <2>3, <2>4
  <2>. QED
    BY <2>5 DEF A
<1>12. x[i + 3] = {}
  <2>. DEFINE m == n + 4 - j
              A == {k \in 0 .. m : x[n + 4 - k] = {}}
  <2>1. m \in Nat
    BY <1>1
  <2>2. 0 \in A
    <3>1. n + 4 - 0 = n + 4 /\ n + 4 \in 0 .. n + 4 /\ ~ (n + 4 <= n)
      BY <1>1
    <3>2. x[n + 4] = {}
      BY <1>6, <3>1
    <3>. QED
      BY <2>1, <3>1, <3>2
  <2>3. ASSUME NEW k \in 1 .. m, k - 1 \in A
        PROVE  k \in A
    <3>1. /\ n + 4 - (k - 1) \in 1 .. n + 4 /\ n + 4 - (k - 1) \notin i .. j
          /\ (n + 4 - (k - 1)) - 1 = n + 4 - k
          /\ n + 4 - k \in 0 .. n + 4 /\ k \in 0 .. m
      BY <1>1
    <3>2. x[n + 4 - (k - 1)] = {} /\ d[n + 4 - (k - 1)] = {}
      BY <1>9, <2>3, <3>1
    <3>3. UpdateByte(x[n + 4 - k], {}) = {}
      BY <1>10, <3>1, <3>2
    <3>4. x[n + 4 - k] = {}
      BY <1>8, <3>1, <3>3, NothingStaysNothing
    <3>. QED
      BY <3>1, <3>4
  <2>. HIDE DEF A, m
  <2>4. \A k \in 0 .. m : k \in A
    BY <2>1, <2>2, <2>3, UpTo
  <2>5. n + 1 - i \in 0 .. m /\ n + 4 - (n + 1 - i) = i + 3
    BY <1>1 DEF m
  <2>6. n + 1 - i \in A
    BY <2>4, <2>5
  <2>7. x[n + 4 - (n + 1 - i)] = {}
    BY <2>6 DEF A
  <2>. QED
    BY <2>5, <2>7
<1>. DEFINE o == <<d[i], d[i + 1], d[i + 2], d[i + 3]>>
<1>13. /\ i \in 1 .. n + 4 /\ i + 1 \in 1 .. n + 4 /\ i + 2 \in 1 .. n + 4
       /\ i + 3 \in 1 .. n + 4
       /\ (i + 1) - 1 = i /\ (i + 2) - 1 = i + 1 /\ (i + 3) - 1 = i + 2
       /\ i - 1 \in 0 .. n + 4
  BY <1>1
<1>14. /\ d[i] \in Octet /\ d[i + 1] \in Octet /\ d[i + 2] \in Octet /\ d[i + 3] \in Octet
  BY <1>9, <1>13
<1>15. /\ o \in Seq(Octet) /\ Len(o) = 4
       /\ o[1] = d[i] /\ o[2] = d[i + 1] /\ o[3] = d[i + 2] /\ o[4] = d[i + 3]
  BY <1>14
<1>16. \A k \in 1 .. 4 : o[k] \in Octet
  BY <1>15
<1>. HIDE DEF o
<1>17. UpdateByte(UpdateByte(UpdateByte(UpdateByte({}, o[1]), o[2]), o[3]), o[4]) = {}
  <2>1. x[i] = UpdateByte({}, d[i])
    BY <1>10, <1>11, <1>13
  <2>2. x[i + 1] = UpdateByte(x[i], d[i + 1])
    BY <1>10, <1>13
  <2>3. x[i + 2] = UpdateByte(x[i + 1], d[i + 2])
    BY <1>10, <1>13
  <2>4. x[i + 3] = UpdateByte(x[i + 2], d[i + 3])
    BY <1>10, <1>13
  <2>. QED
    BY <1>12, <1>15, <2>1, <2>2, <2>3, <2>4
<1>18. Look(Look(Look(Look(Chunk(o))))) = {}
  <2>1. Xor({}, Chunk(o)) = Chunk(o)
    BY DEF Xor
  <2>2. Len(o) >= 4
    BY <1>15
  <2>. QED
    BY <1>15, <1>17, <2>1, <2>2, ChunkIsFourOctets
<1>19. Chunk(o) = {}
  <2>1. Chunk(o) \in Register
    BY <1>16, ChunkIsRegister
  <2>2. Look(Look(Look(Chunk(o)))) = {}
    BY <1>18, LookIsRegister, NothingStaysNothing
  <2>3. Look(Look(Chunk(o))) = {}
    BY <2>2, LookIsRegister, NothingStaysNothing
  <2>4. Look(Chunk(o)) = {}
    BY <2>3, LookIsRegister, NothingStaysNothing
  <2>. QED
    BY <2>1, <2>4, NothingStaysNothing
<1>20. d[i] = {} /\ d[i + 1] = {} /\ d[i + 2] = {} /\ d[i + 3] = {}
  <2>1. \A k \in 1 .. 4 : o[k] = {}
    BY <1>16, <1>19, ChunkIsRegister
  <2>. QED
    BY <1>15, <2>1
<1>21. ASSUME NEW k \in 1 .. n
       PROVE  a[k] = b[k]
  <2>1. k \in 1 .. n + 4 /\ k <= n
    BY <1>1
  <2>2. k \notin i .. j \/ k = i \/ k = i + 1 \/ k = i + 2 \/ k = i + 3
    BY <1>1
  <2>3. d[k] = {}
    BY <1>9, <1>20, <2>1, <2>2
  <2>4. d[k] = Xor(a[k], b[k])
    BY <1>7, <2>1
  <2>. QED
    BY <1>5, <2>3, <2>4
<1>. QED
  BY <1>1, <1>21, SeqEqual DEF n
-----------------------------------------------------------------------------
(* A call begins over a register with some octets; both programs' steps.   *)
LEMMA BeginTypes ==
  ASSUME TypeOK, NEW f \in {"Update", "FillCRC32", "CheckCRC"},
         NEW c \in Register, NEW data \in Seq(Octet), NEW address \in 0 .. 3,
         Begin(f, c, data, address)
  PROVE  /\ crc' \in Register /\ octetwise' \in Register
         /\ input' \in Seq(Octet) /\ alignment' \in 0 .. 3
         /\ pc' \in {"idle", "Update", "FillCRC32", "CheckCRC"}
         /\ crc' = octetwise'
BY DEF Begin, TypeOK

(* All ones is a register.                                                 *)
LEMMA NeglIsRegister == CRC32_NEGL \in Register
BY DEF CRC32_NEGL, Register

(* The calls that begin keep the types.                                    *)
LEMMA CallTypes ==
  ASSUME TypeOK, NEW data \in Seq(Octet), NEW address \in 0 .. 3
  PROVE  /\ Update(data, address) => TypeOK' /\ ChunksAreOctets'
         /\ FillCRC32(data, address) => TypeOK' /\ ChunksAreOctets'
         /\ CheckCRC(m_crc_final, data, address) => TypeOK' /\ ChunksAreOctets'
<1>1. CASE Update(data, address)
  <2>1. m_crc \in Register
    BY DEF TypeOK
  <2>2. Begin("Update", m_crc, data, address)
    BY <1>1 DEF Update
  <2>3. UNCHANGED <<element, inputCRC>>
    BY <1>1 DEF Update
  <2> QED BY <2>1, <2>2, <2>3, BeginTypes DEF TypeOK, ChunksAreOctets, element
<1>2. CASE FillCRC32(data, address)
  <2>1. Begin("FillCRC32", CRC32_NEGL, data, address)
    BY <1>2 DEF FillCRC32
  <2>2. /\ m_crc' = CRC32_NEGL
        /\ UNCHANGED <<m_crc_final, bValueIsSet, file, inputCRC>>
    BY <1>2 DEF FillCRC32
  <2> QED BY <2>1, <2>2, NeglIsRegister, BeginTypes DEF TypeOK, ChunksAreOctets
<1>3. CASE CheckCRC(m_crc_final, data, address)
  <2>1. Begin("CheckCRC", CRC32_NEGL, data, address)
    BY <1>3 DEF CheckCRC
  <2>2. inputCRC' = m_crc_final /\ UNCHANGED element
    BY <1>3 DEF CheckCRC
  <2> QED BY <2>1, <2>2, NeglIsRegister, BeginTypes
          DEF TypeOK, ChunksAreOctets, element
<1> QED BY <1>1, <1>2, <1>3

(* The steps of the loops.                                                 *)
LEMMA LoopTypes ==
  ASSUME TypeOK, ChunksAreOctets, UpdateOctet \/ UpdateChunk
  PROVE  TypeOK' /\ ChunksAreOctets'
<1>1. CASE UpdateOctet
  <2>1. Head(input) \in Octet /\ Tail(input) \in Seq(Octet)
    BY <1>1 DEF UpdateOctet, TypeOK
  <2>2. crc' \in Register /\ crc' = octetwise'
    BY <1>1, <2>1, UpdateByteIsRegister DEF UpdateOctet, ChunksAreOctets
  <2>3. alignment' \in 0 .. 3
    BY <1>1 DEF UpdateOctet, TypeOK
  <2>4. input' = Tail(input) /\ UNCHANGED <<element, inputCRC, pc>>
    BY <1>1 DEF UpdateOctet
  <2> QED BY <2>1, <2>2, <2>3, <2>4 DEF TypeOK, ChunksAreOctets, element
<1>2. CASE UpdateChunk
  <2>1. input \in Seq(Octet) /\ Len(input) >= 4
    BY <1>2 DEF UpdateChunk, TypeOK
  <2>2. input' \in Seq(Octet)
    BY <1>2, <2>1 DEF UpdateChunk
  <2>3. crc' = octetwise'
    <3>1. /\ crc' = Look(Look(Look(Look(Xor(crc, Chunk(input))))))
          /\ octetwise' =
               UpdateByte(UpdateByte(UpdateByte(UpdateByte(octetwise,
                 input[1]), input[2]), input[3]), input[4])
      BY <1>2 DEF UpdateChunk
    <3> QED BY <2>1, <3>1, ChunkIsFourOctets DEF ChunksAreOctets
  <2>4. crc' \in Register
    BY <1>2, LookIsRegister DEF UpdateChunk
  <2>5. UNCHANGED <<element, alignment, inputCRC, pc>>
    BY <1>2 DEF UpdateChunk
  <2> QED BY <2>2, <2>3, <2>4, <2>5 DEF TypeOK, ChunksAreOctets, element
<1> QED BY <1>1, <1>2

(* A checksum is finished: the register is reset.                          *)
LEMMA FinalizedTypes ==
  ASSUME NEW c \in Register, NEW data, Finalized(c, data)
  PROVE  /\ m_crc' \in Register /\ m_crc_final' \in Register
         /\ bValueIsSet' \in BOOLEAN /\ file' = file
BY NeglIsRegister, XorOfRegisters DEF Finalized, Reset

(* So does what is reset when a call returns,                              *)
LEMMA NoCallTypes ==
  ASSUME NoCall
  PROVE  /\ crc' \in Register /\ octetwise' \in Register
         /\ inputCRC' \in Register /\ alignment' \in 0 .. 3
         /\ crc' = octetwise'
BY DEF NoCall, Register

(* and each return.                                                        *)
LEMMA ReturnTypes ==
  ASSUME TypeOK, UpdateReturns \/ FillCRC32Returns \/ CheckCRCReturns
  PROVE  TypeOK' /\ ChunksAreOctets'
<1>1. CASE UpdateReturns
  BY <1>1, NoCallTypes DEF UpdateReturns, TypeOK, ChunksAreOctets
<1>2. CASE FillCRC32Returns
  <2>1. NoCall /\ pc' = "idle" /\ input' = input /\ Finalized(crc, gathered)
    BY <1>2 DEF FillCRC32Returns
  <2> QED BY <2>1, NoCallTypes, FinalizedTypes DEF TypeOK, ChunksAreOctets
<1>3. CASE CheckCRCReturns
  BY <1>3, NoCallTypes DEF CheckCRCReturns, TypeOK, ChunksAreOctets, element
<1> QED BY <1>1, <1>2, <1>3

(* What is done between calls of the loops.                                *)
LEMMA ElementTypes ==
  ASSUME TypeOK, ChunksAreOctets,
         \/ Finalize \/ RenderData \/ ForceCrc32(CRC32_NEGL)
         \/ \E n \in {0, 2, 4} : ReadData(n)
  PROVE  TypeOK' /\ ChunksAreOctets'
<1>1. CASE Finalize
  <2>1. Finalized(m_crc, gathered) /\ UNCHANGED <<call, pc>>
    BY <1>1 DEF Finalize
  <2> QED BY <2>1, FinalizedTypes DEF TypeOK, ChunksAreOctets, call
<1>2. CASE RenderData
  <2>1. file' \in [1 .. 4 -> Octet]
    BY <1>2 DEF RenderData, Octet
  <2> QED BY <1>2, <2>1 DEF RenderData, TypeOK, ChunksAreOctets, call
<1>3. CASE ForceCrc32(CRC32_NEGL)
  BY <1>3, NeglIsRegister DEF ForceCrc32, TypeOK, ChunksAreOctets, call
<1>4. ASSUME NEW n \in {0, 2, 4}, ReadData(n)
      PROVE  TypeOK' /\ ChunksAreOctets'
  <2>1. m_crc_final' \in Register
    <3>1. m_crc_final' = (m_crc_final \ (0 .. n * Width - 1)) \cup
                           (Chunk(file) \cap (0 .. n * Width - 1))
      BY <1>4 DEF ReadData
    <3>2. 0 .. n * Width - 1 \subseteq 0 .. 4 * Width - 1
      <4>1. n * Width <= 4 * Width
        BY WidthAssumption
      <4> QED BY <4>1, WidthAssumption
    <3> QED BY <3>1, <3>2 DEF TypeOK, Register
  <2>2. bValueIsSet' \in BOOLEAN
    BY <1>4 DEF ReadData, TypeOK
  <2>3. UNCHANGED <<m_crc, file, call, pc>>
    BY <1>4 DEF ReadData
  <2> QED BY <2>1, <2>2, <2>3 DEF TypeOK, ChunksAreOctets, call
<1> QED BY <1>1, <1>2, <1>3, <1>4

(* The constants' data are octets, at any address.                         *)
LEMMA StepTypes ==
  ASSUME TypeOK, ChunksAreOctets, [Next]_vars
  PROVE  TypeOK' /\ ChunksAreOctets'
<1>1. ASSUME NEW data \in Data, NEW address \in 0 .. 3,
             \/ Update(data, address) \/ FillCRC32(data, address)
             \/ CheckCRC(m_crc_final, data, address)
      PROVE  TypeOK' /\ ChunksAreOctets'
  <2>1. data \in Seq(Octet)
    BY DataAssumption
  <2> QED BY <1>1, <2>1, CallTypes
<1>2. ASSUME NEW e \in Elements, AddElementCRC32(e) \/ CheckElementCRC32(e)
      PROVE  TypeOK' /\ ChunksAreOctets'
  <2>1. e.WriteAll \in Seq(Octet) /\ e.WriteSkipDefault \in Seq(Octet)
    BY DataAssumption
  <2>2. CASE AddElementCRC32(e)
    BY <2>1, <2>2, CallTypes DEF AddElementCRC32
  <2>3. CASE CheckElementCRC32(e)
    <3>1. CASE UNCHANGED <<element, call, pc>>
      BY <3>1 DEF TypeOK, ChunksAreOctets, element, call
    <3>2. CASE CheckCRC(m_crc_final, e.WriteSkipDefault, 0)
      BY <2>1, <3>2, CallTypes
    <3> QED BY <2>3, <3>1, <3>2 DEF CheckElementCRC32
  <2> QED BY <1>2, <2>2, <2>3
<1>3. CASE UNCHANGED vars
  BY <1>3 DEF vars, element, call, TypeOK, ChunksAreOctets
<1>4. CASE Next
  <2>1. CASE \E data \in Data, address \in 0 .. 3 :
                \/ Update(data, address) \/ FillCRC32(data, address)
                \/ CheckCRC(m_crc_final, data, address)
    BY <1>1, <2>1
  <2>2. CASE \E e \in Elements : AddElementCRC32(e) \/ CheckElementCRC32(e)
    BY <1>2, <2>2
  <2>3. CASE UpdateOctet \/ UpdateChunk
    BY <2>3, LoopTypes
  <2>4. CASE UpdateReturns \/ FillCRC32Returns \/ CheckCRCReturns
    BY <2>4, ReturnTypes
  <2>5. CASE \/ Finalize \/ RenderData \/ ForceCrc32(CRC32_NEGL)
             \/ \E n \in {0, 2, 4} : ReadData(n)
    BY <2>5, ElementTypes
  <2> QED BY ONLY <1>4, <2>1, <2>2, <2>3, <2>4, <2>5, Zenon DEF Next
<1> QED BY <1>3, <1>4

(* The types and the agreement of chunks and octets, at every step.        *)
LEMMA Invariant == Spec => [](TypeOK /\ ChunksAreOctets)
<1>1. Init => TypeOK /\ ChunksAreOctets
  <2>1. {} \in Register /\ << >> \in Seq(Octet)
    BY DEF Register
  <2> SUFFICES ASSUME Init PROVE TypeOK /\ ChunksAreOctets
    OBVIOUS
  <2>2. m_crc \in Register /\ m_crc_final \in Register
    BY <2>1, NeglIsRegister DEF Init
  <2>3. bValueIsSet \in BOOLEAN
    BY Zenon DEF Init
  <2>4. alignment \in 0 .. 3 /\ input \in Seq(Octet)
    BY <2>1 DEF Init
  <2>5. crc \in Register /\ octetwise \in Register /\ inputCRC \in Register
        /\ crc = octetwise
    BY <2>1 DEF Init
  <2>6. file = << >> /\ pc = "idle"
    BY DEF Init
  <2> QED BY <2>2, <2>3, <2>4, <2>5, <2>6 DEF TypeOK, ChunksAreOctets
<1>2. TypeOK /\ ChunksAreOctets /\ [Next]_vars => (TypeOK /\ ChunksAreOctets)'
  BY StepTypes
<1> QED BY <1>1, <1>2, PTL DEF Spec

(* The registers keep their width through every operation, also when a     *)
(* value is forced or read in part.                                        *)
THEOREM RegistersKeepTheirWidth == Spec => []TypeOK
BY Invariant, PTL

(* At every address and for every length the loops by four octets give     *)
(* the register the octets give one by one: Update, FillCRC32 and CheckCRC *)
(* agree whatever the data's alignment, for every width and polynomial.    *)
THEOREM AlignmentDoesNotMatter == Spec => []ChunksAreOctets
BY Invariant, PTL
-----------------------------------------------------------------------------
(* A register is what the data it is of leaves: m_crc between the calls of *)
(* the loops, and during one the register and the octets that are left.    *)
Sum(octets) == Continued(CRC32_NEGL, octets)

GatheredInv ==
  /\ gathered \in Seq(Octet)
  /\ pc \in {"idle", "CheckCRC"} => m_crc = Sum(gathered)
  /\ pc \in {"Update", "FillCRC32"} => Continued(crc, input) = Sum(gathered)

CoveredInv ==
  /\ covered # Unknown => covered \in Seq(Octet) /\ m_crc_final = Checksum(covered)
  /\ filed # Unknown =>
       filed \in Seq(Octet) /\ file # << >> /\ Chunk(file) = Checksum(filed)

CheckedInv ==
  /\ pc \in {"Update", "FillCRC32"} => checked = NothingChecked
  /\ pc = "CheckCRC" =>
       /\ checked = [data |-> checked.data, inputCRC |-> inputCRC, result |-> FALSE]
       /\ checked.data \in Seq(Octet)
       /\ Continued(crc, input) = Sum(checked.data)
  /\ pc = "idle" /\ checked # NothingChecked =>
       /\ checked.data \in Seq(Octet)
       /\ \/ checked.result \in BOOLEAN
             /\ (checked.result <=> checked.inputCRC = Checksum(checked.data))
          \/ checked.result = FALSE /\ Len(checked.data) > LengthMax

SumInv == GatheredInv /\ CoveredInv /\ CheckedInv

(* A checksum is the complement of such a sum.                             *)
LEMMA SumIs ==
  ASSUME NEW octets \in Seq(Octet)
  PROVE  /\ Sum(octets) \in Register /\ Checksum(octets) = Xor(Sum(octets), CRC32_NEGL)
         /\ Checksum(octets) \in Register
<1>1. Sum(octets) \in Register
  BY NeglIsRegister, ContinuedIsRegister DEF Sum
<1>2. Checksum(octets) = Xor(Sum(octets), CRC32_NEGL)
  BY DEF Checksum, Sum
<1>. QED
  BY <1>1, <1>2, NeglIsRegister, XorOfRegisters

(* The steps of the loops leave what the rest of the data makes of it.     *)
LEMMA LoopSums ==
  ASSUME TypeOK, ChunksAreOctets, SumInv, UpdateOctet \/ UpdateChunk
  PROVE  SumInv'
<1>1. crc \in Register /\ input \in Seq(Octet) /\ pc # "idle"
  BY DEF TypeOK, UpdateOctet, UpdateChunk
<1>2. UNCHANGED <<m_crc, m_crc_final, file, inputCRC, gathered, covered, filed, checked, pc>>
  BY DEF UpdateOctet, UpdateChunk, element, history
<1>3. Continued(crc', input') = Continued(crc, input)
  <2>1. CASE UpdateOctet
    <3>1. crc' = UpdateByte(crc, Head(input)) /\ input' = Tail(input) /\ input # << >>
      BY <2>1 DEF UpdateOctet
    <3>. QED
      BY <1>1, <3>1, ContinuedByOctet
  <2>2. CASE UpdateChunk
    <3>1. /\ crc' = Look(Look(Look(Look(Xor(crc, Chunk(input))))))
          /\ input' = SubSeq(input, 5, Len(input)) /\ Len(input) >= 4
      BY <2>2 DEF UpdateChunk
    <3>. QED
      BY <1>1, <3>1, ChunkIsFourOctets, ContinuedByChunk
  <2>. QED
    BY <2>1, <2>2
<1>. QED
  BY <1>1, <1>2, <1>3 DEF SumInv, GatheredInv, CoveredInv, CheckedInv, Sum

(* A call begins over the register and all of the data.                    *)
LEMMA CallSums ==
  ASSUME TypeOK, SumInv, NEW data \in Seq(Octet), NEW address \in 0 .. 3
  PROVE  /\ Update(data, address) => SumInv'
         /\ FillCRC32(data, address) => SumInv'
         /\ CheckCRC(m_crc_final, data, address) => SumInv'
<1>1. CASE Update(data, address)
  <2>1. /\ pc = "idle" /\ pc' = "Update" /\ crc' = m_crc /\ input' = data
        /\ gathered' = gathered \o data /\ checked' = NothingChecked
        /\ UNCHANGED <<m_crc, m_crc_final, file, covered, filed>>
    BY <1>1 DEF Update, Begin, element
  <2>2. gathered \in Seq(Octet) /\ m_crc = Sum(gathered)
    BY <2>1 DEF SumInv, GatheredInv
  <2>3. gathered' \in Seq(Octet)
    BY <2>1, <2>2, ConcatProperties
  <2>4. Continued(crc', input') = Sum(gathered')
    BY <2>1, <2>2, NeglIsRegister, ContinuedOfParts DEF Sum
  <2>. QED
    BY <2>1, <2>3, <2>4 DEF SumInv, GatheredInv, CoveredInv, CheckedInv
<1>2. CASE FillCRC32(data, address)
  <2>1. /\ pc = "idle" /\ pc' = "FillCRC32" /\ crc' = CRC32_NEGL /\ input' = data
        /\ gathered' = data /\ checked' = NothingChecked
        /\ UNCHANGED <<m_crc_final, file, covered, filed>>
    BY <1>2 DEF FillCRC32, Begin
  <2>2. Continued(crc', input') = Sum(gathered')
    BY <2>1 DEF Sum
  <2>. QED
    BY <2>1, <2>2 DEF SumInv, GatheredInv, CoveredInv, CheckedInv
<1>3. CASE CheckCRC(m_crc_final, data, address)
  <2>1. /\ pc = "idle" /\ pc' = "CheckCRC" /\ crc' = CRC32_NEGL /\ input' = data
        /\ inputCRC' = m_crc_final
        /\ checked' = [data |-> data, inputCRC |-> m_crc_final, result |-> FALSE]
        /\ UNCHANGED <<m_crc, m_crc_final, file, gathered, covered, filed>>
    BY <1>3 DEF CheckCRC, Begin, element
  <2>2. /\ checked'.data = data
        /\ checked' = [data |-> checked'.data, inputCRC |-> inputCRC', result |-> FALSE]
    BY <2>1
  <2>3. Continued(crc', input') = Sum(checked'.data)
    BY <2>1, <2>2 DEF Sum
  <2>. QED
    BY <2>1, <2>2, <2>3 DEF SumInv, GatheredInv, CoveredInv, CheckedInv
<1>. QED
  BY <1>1, <1>2, <1>3

(* Elements that are longer than a length are not checked.                 *)
LEMMA TooLongSums ==
  ASSUME TypeOK, SumInv, NEW e, e.WriteSkipDefault \in Seq(Octet),
         Len(e.WriteSkipDefault) > LengthMax, CheckElementCRC32(e)
  PROVE  SumInv'
<1>1. /\ pc = "idle" /\ pc' = "idle"
      /\ checked' = [data |-> e.WriteSkipDefault, inputCRC |-> m_crc_final, result |-> FALSE]
      /\ UNCHANGED <<m_crc, m_crc_final, file, gathered, covered, filed>>
  BY DEF CheckElementCRC32, element
<1>2. checked'.data = e.WriteSkipDefault /\ checked'.result = FALSE
  BY <1>1
<1>. QED
  BY <1>1, <1>2 DEF SumInv, GatheredInv, CoveredInv, CheckedInv

(* A checksum is finished: it is that of the data, and the next one is of  *)
(* no data yet.                                                            *)
LEMMA FinalizedSums ==
  ASSUME CoveredInv, NEW octets \in Seq(Octet), Finalized(Sum(octets), octets),
         pc' = "idle"
  PROVE  SumInv'
<1>1. /\ m_crc_final' = Xor(Sum(octets), CRC32_NEGL) /\ m_crc' = CRC32_NEGL
      /\ covered' = octets /\ gathered' = << >> /\ checked' = NothingChecked
      /\ UNCHANGED <<file, filed>>
  BY DEF Finalized, Reset
<1>2. m_crc_final' = Checksum(octets)
  BY <1>1, SumIs
<1>3. m_crc' = Sum(<< >>) /\ << >> \in Seq(Octet)
  BY <1>1, NeglIsRegister, ContinuedByNone DEF Sum
<1>4. GatheredInv' /\ CoveredInv' /\ CheckedInv'
  BY <1>1, <1>2, <1>3 DEF GatheredInv, CoveredInv, CheckedInv
<1>. QED
  BY <1>4 DEF SumInv

(* A call returns with no data left: the register is the sum itself.       *)
LEMMA ReturnSums ==
  ASSUME TypeOK, SumInv, UpdateReturns \/ FillCRC32Returns \/ CheckCRCReturns
  PROVE  SumInv'
<1>1. crc \in Register
  BY DEF TypeOK
<1>2. CASE UpdateReturns
  <2>1. /\ pc = "Update" /\ pc' = "idle" /\ input = << >> /\ m_crc' = crc
        /\ UNCHANGED <<m_crc_final, file, gathered, covered, filed, checked>>
    BY <1>2 DEF UpdateReturns, history
  <2>2. crc = Sum(gathered)
    BY <1>1, <2>1, ContinuedByNone DEF SumInv, GatheredInv
  <2>. QED
    BY <2>1, <2>2 DEF SumInv, GatheredInv, CoveredInv, CheckedInv
<1>3. CASE FillCRC32Returns
  <2>1. pc = "FillCRC32" /\ pc' = "idle" /\ input = << >> /\ Finalized(crc, gathered)
    BY <1>3 DEF FillCRC32Returns
  <2>2. crc = Sum(gathered) /\ gathered \in Seq(Octet)
    BY <1>1, <2>1, ContinuedByNone DEF SumInv, GatheredInv
  <2>. QED
    BY <2>1, <2>2, FinalizedSums DEF SumInv
<1>4. CASE CheckCRCReturns
  <2>. DEFINE same == Xor(crc, CRC32_NEGL) = inputCRC
  <2>1. /\ pc = "CheckCRC" /\ pc' = "idle" /\ input = << >>
        /\ checked' = [checked EXCEPT !.result = same]
        /\ UNCHANGED <<m_crc, m_crc_final, file, gathered, covered, filed>>
    BY <1>4 DEF CheckCRCReturns, element
  <2>2. /\ checked = [data |-> checked.data, inputCRC |-> inputCRC, result |-> FALSE]
        /\ checked.data \in Seq(Octet) /\ crc = Sum(checked.data)
    BY <1>1, <2>1, ContinuedByNone DEF SumInv, CheckedInv
  <2>3. same <=> inputCRC = Checksum(checked.data)
    BY <2>2, SumIs
  <2>4. PICK result \in BOOLEAN : result = same
    OBVIOUS
  <2>. HIDE DEF same
  <2>5. /\ checked'.data = checked.data /\ checked'.inputCRC = inputCRC
        /\ checked'.result = result
    <3>1. checked' = [checked EXCEPT !.result = result]
      BY <2>1, <2>4
    <3>. QED
      BY <2>2, <3>1
  <2>6. /\ checked'.result \in BOOLEAN
        /\ checked'.result <=> checked'.inputCRC = Checksum(checked'.data)
    BY <2>3, <2>4, <2>5
  <2>7. GatheredInv' /\ CoveredInv'
    BY <2>1 DEF SumInv, GatheredInv, CoveredInv
  <2>8. CheckedInv'
    BY <2>1, <2>2, <2>5, <2>6 DEF CheckedInv
  <2>. QED
    BY <2>7, <2>8 DEF SumInv
<1>. QED
  BY <1>2, <1>3, <1>4

(* Four octets as they are written are a register again.                   *)
LEMMA ChunkOfOctets ==
  ASSUME NEW c \in Register
  PROVE  LET o == [i \in 1 .. 4 |-> {b \in 0 .. Width - 1 : b + (i - 1) * Width \in c}]
         IN  /\ o \in [1 .. 4 -> Octet] /\ Chunk(o) = c
<1>. DEFINE o == [i \in 1 .. 4 |-> {b \in 0 .. Width - 1 : b + (i - 1) * Width \in c}]
            W == Width
<1>1. W \in Nat \ {0}
  BY WidthAssumption
<1>2. o \in [1 .. 4 -> Octet]
  BY DEF Octet
<1>3. /\ o[1] = {b \in 0 .. W - 1 : b \in c} /\ o[2] = {b \in 0 .. W - 1 : b + W \in c}
      /\ o[3] = {b \in 0 .. W - 1 : b + 2 * W \in c}
      /\ o[4] = {b \in 0 .. W - 1 : b + 3 * W \in c}
  <2>1. \A b \in 0 .. W - 1 : /\ b + (1 - 1) * W = b /\ b + (2 - 1) * W = b + W
                              /\ b + (3 - 1) * W = b + 2 * W
                              /\ b + (4 - 1) * W = b + 3 * W
    BY <1>1
  <2>2. /\ o[1] = {b \in 0 .. W - 1 : b + (1 - 1) * W \in c}
        /\ o[2] = {b \in 0 .. W - 1 : b + (2 - 1) * W \in c}
        /\ o[3] = {b \in 0 .. W - 1 : b + (3 - 1) * W \in c}
        /\ o[4] = {b \in 0 .. W - 1 : b + (4 - 1) * W \in c}
    <3>1. 1 \in 1 .. 4 /\ 2 \in 1 .. 4 /\ 3 \in 1 .. 4 /\ 4 \in 1 .. 4
      OBVIOUS
    <3>2. \A i \in 1 .. 4 : o[i] = {b \in 0 .. W - 1 : b + (i - 1) * W \in c}
      BY Zenon
    <3>. HIDE DEF o, W
    <3>. QED
      BY <3>1, <3>2, Zenon
  <2>. HIDE DEF o, W
  <2>. QED
    BY <2>1, <2>2
<1>. HIDE DEF o
<1>4. \A x \in c : x \in 0 .. 4 * W - 1
  BY DEF Register
<1>. DEFINE u4 == ShiftedUp(o[4])
            u3 == ShiftedUp(o[3] \cup u4)
            u2 == ShiftedUp(o[2] \cup u3)
<1>5. \A y : \A x : x \in ShiftedUp(y) <=> x \in 0 .. 4 * W - 1 /\ x - W \in y
  BY DEF ShiftedUp
<1>6. \A x : x \in u4 <=> x \in 0 .. 4 * W - 1 /\ x - W \in o[4]
  BY <1>5
<1>7. \A x : x \in u3 <=> x \in 0 .. 4 * W - 1 /\ (x - W \in o[3] \/ x - W \in u4)
  BY <1>5
<1>8. \A x : x \in u2 <=> x \in 0 .. 4 * W - 1 /\ (x - W \in o[2] \/ x - W \in u3)
  BY <1>5
<1>. HIDE DEF u2, u3, u4, W
<1>9. \A x : x \in u4 <=> x \in W .. 2 * W - 1 /\ x + 2 * W \in c
  <2>1. ASSUME NEW x \in 0 .. 4 * W - 1
        PROVE  x - W \in o[4] <=> x \in W .. 2 * W - 1 /\ x + 2 * W \in c
    <3>1. (x - W) + 3 * W = x + 2 * W /\ (x - W \in 0 .. W - 1 <=> x \in W .. 2 * W - 1)
      BY <1>1
    <3>. QED
      BY <1>3, <3>1
  <2>2. \A x \in W .. 2 * W - 1 : x \in 0 .. 4 * W - 1
    BY <1>1
  <2>. QED
    BY <1>6, <2>1, <2>2
<1>10. \A x : x \in u3 <=> x \in W .. 3 * W - 1 /\ x + W \in c
  <2>1. ASSUME NEW x \in 0 .. 4 * W - 1
        PROVE  x - W \in o[3] \/ x - W \in u4 <=> x \in W .. 3 * W - 1 /\ x + W \in c
    <3>1. /\ (x - W) + 2 * W = x + W
          /\ x - W \in 0 .. W - 1 <=> x \in W .. 2 * W - 1
          /\ x - W \in W .. 2 * W - 1 <=> x \in 2 * W .. 3 * W - 1
          /\ x \in W .. 3 * W - 1 <=> x \in W .. 2 * W - 1 \/ x \in 2 * W .. 3 * W - 1
      BY <1>1
    <3>. QED
      BY <1>3, <1>9, <3>1
  <2>2. \A x \in W .. 3 * W - 1 : x \in 0 .. 4 * W - 1
    BY <1>1
  <2>. QED
    BY <1>7, <2>1, <2>2
<1>11. \A x : x \in u2 <=> x \in W .. 4 * W - 1 /\ x \in c
  <2>1. ASSUME NEW x \in 0 .. 4 * W - 1
        PROVE  x - W \in o[2] \/ x - W \in u3 <=> x \in W .. 4 * W - 1 /\ x \in c
    <3>1. /\ (x - W) + W = x
          /\ x - W \in 0 .. W - 1 <=> x \in W .. 2 * W - 1
          /\ x - W \in W .. 3 * W - 1 <=> x \in 2 * W .. 4 * W - 1
          /\ x \in W .. 4 * W - 1 <=> x \in W .. 2 * W - 1 \/ x \in 2 * W .. 4 * W - 1
      BY <1>1
    <3>. QED
      BY <1>3, <1>10, <3>1
  <2>2. \A x \in W .. 4 * W - 1 : x \in 0 .. 4 * W - 1
    BY <1>1
  <2>. QED
    BY <1>8, <2>1, <2>2
<1>12. \A x : x \in c <=> x \in o[1] \/ x \in u2
  <2>1. \A x \in c : x \in 0 .. W - 1 \/ x \in W .. 4 * W - 1
    BY <1>1, <1>4
  <2>. QED
    BY <1>3, <1>11, <2>1
<1>13. Chunk(o) = o[1] \cup u2
  BY DEF Chunk, u2, u3, u4
<1>14. Chunk(o) = c
  BY <1>12, <1>13
<1>. QED
  BY <1>2, <1>14 DEF o, W

(* What is done between calls of the loops.                                *)
LEMMA ElementSums ==
  ASSUME TypeOK, SumInv,
         \/ Finalize \/ RenderData \/ ForceCrc32(CRC32_NEGL)
         \/ \E n \in {0, 2, 4} : ReadData(n)
  PROVE  SumInv'
<1>1. m_crc \in Register /\ m_crc_final \in Register
  BY DEF TypeOK
<1>2. CASE Finalize
  <2>1. /\ pc = "idle" /\ pc' = "idle" /\ Finalized(m_crc, gathered)
    BY <1>2 DEF Finalize
  <2>2. gathered \in Seq(Octet) /\ m_crc = Sum(gathered)
    BY <2>1 DEF SumInv, GatheredInv
  <2>. QED
    BY <2>1, <2>2, FinalizedSums DEF SumInv
<1>3. CASE RenderData
  <2>1. /\ pc = "idle" /\ pc' = "idle" /\ filed' = covered /\ checked' = NothingChecked
        /\ file' = [i \in 1 .. 4 |->
                      {b \in 0 .. Width - 1 : b + (i - 1) * Width \in m_crc_final}]
        /\ UNCHANGED <<m_crc, m_crc_final, gathered, covered>>
    BY <1>3 DEF RenderData
  <2>2. file' \in [1 .. 4 -> Octet] /\ Chunk(file') = m_crc_final
    BY <1>1, <2>1, ChunkOfOctets
  <2>3. file' # << >>
    <3>1. DOMAIN << >> = {} /\ DOMAIN file' = 1 .. 4 /\ 1 \in 1 .. 4
      BY <2>2
    <3>. QED
      BY <3>1
  <2>4. CoveredInv'
    BY <2>1, <2>2, <2>3 DEF SumInv, CoveredInv
  <2>. QED
    BY <2>1, <2>4 DEF SumInv, GatheredInv, CheckedInv
<1>4. CASE ForceCrc32(CRC32_NEGL)
  <2>1. /\ pc = "idle" /\ pc' = "idle" /\ covered' = Unknown /\ checked' = NothingChecked
        /\ UNCHANGED <<m_crc, file, gathered, filed>>
    BY <1>4 DEF ForceCrc32
  <2>. QED
    BY <2>1 DEF SumInv, GatheredInv, CoveredInv, CheckedInv
<1>5. ASSUME NEW n \in {0, 2, 4}, ReadData(n)
      PROVE  SumInv'
  <2>. DEFINE part == 0 .. n * Width - 1
  <2>1. /\ pc = "idle" /\ pc' = "idle" /\ file # << >> /\ checked' = NothingChecked
        /\ m_crc_final' = (m_crc_final \ part) \cup (Chunk(file) \cap part)
        /\ covered' = IF n = 4 THEN filed ELSE IF n = 0 THEN covered ELSE Unknown
        /\ UNCHANGED <<m_crc, file, gathered, filed>>
    BY <1>5 DEF ReadData
  <2>2. CASE n = 4
    <3>1. \A i \in 1 .. 4 : file[i] \in Octet
      BY <2>1 DEF TypeOK
    <3>2. Chunk(file) \in Register
      BY <3>1, ChunkIsRegister
    <3>3. part = 0 .. 4 * Width - 1
      BY <2>2
    <3>. HIDE DEF part
    <3>4. m_crc_final' = Chunk(file) /\ covered' = filed
      BY <1>1, <2>1, <2>2, <3>2, <3>3 DEF Register
    <3>. QED
      BY <2>1, <3>4 DEF SumInv, GatheredInv, CoveredInv, CheckedInv
  <2>3. CASE n = 0
    <3>1. part = {}
      BY <2>3, WidthAssumption
    <3>. HIDE DEF part
    <3>2. m_crc_final' = m_crc_final /\ covered' = covered
      BY <2>1, <2>3, <3>1
    <3>. QED
      BY <2>1, <3>2 DEF SumInv, GatheredInv, CoveredInv, CheckedInv
  <2>4. CASE n = 2
    <3>1. covered' = Unknown
      BY <2>1, <2>4
    <3>. QED
      BY <2>1, <3>1 DEF SumInv, GatheredInv, CoveredInv, CheckedInv
  <2>. QED
    BY <2>2, <2>3, <2>4
<1>. QED
  BY <1>2, <1>3, <1>4, <1>5

(* Every step keeps the registers sums of their data.                      *)
LEMMA StepSums ==
  ASSUME TypeOK, ChunksAreOctets, SumInv, [Next]_vars
  PROVE  SumInv'
<1>1. ASSUME NEW data \in Data, NEW address \in 0 .. 3,
             \/ Update(data, address) \/ FillCRC32(data, address)
             \/ CheckCRC(m_crc_final, data, address)
      PROVE  SumInv'
  <2>1. data \in Seq(Octet)
    BY DataAssumption
  <2>. QED
    BY <1>1, <2>1, CallSums
<1>2. ASSUME NEW e \in Elements, AddElementCRC32(e) \/ CheckElementCRC32(e)
      PROVE  SumInv'
  <2>1. e.WriteAll \in Seq(Octet) /\ e.WriteSkipDefault \in Seq(Octet)
    BY DataAssumption
  <2>2. CASE AddElementCRC32(e)
    BY <2>1, <2>2, CallSums DEF AddElementCRC32
  <2>3. CASE CheckElementCRC32(e)
    <3>1. CASE Len(e.WriteSkipDefault) > LengthMax
      BY <2>1, <2>3, <3>1, TooLongSums
    <3>2. CASE ~ (Len(e.WriteSkipDefault) > LengthMax)
      <4>1. CheckCRC(m_crc_final, e.WriteSkipDefault, 0)
        BY <2>3, <3>2 DEF CheckElementCRC32
      <4>. QED
        BY <2>1, <4>1, CallSums
    <3>. QED
      BY <3>1, <3>2
  <2>. QED
    BY <1>2, <2>2, <2>3
<1>3. CASE UNCHANGED vars
  BY <1>3 DEF vars, element, call, history, SumInv, GatheredInv, CoveredInv, CheckedInv
<1>4. CASE Next
  <2>1. CASE \E data \in Data, address \in 0 .. 3 :
                \/ Update(data, address) \/ FillCRC32(data, address)
                \/ CheckCRC(m_crc_final, data, address)
    BY <1>1, <2>1
  <2>2. CASE \E e \in Elements : AddElementCRC32(e) \/ CheckElementCRC32(e)
    BY <1>2, <2>2
  <2>3. CASE UpdateOctet \/ UpdateChunk
    BY <2>3, LoopSums
  <2>4. CASE UpdateReturns \/ FillCRC32Returns \/ CheckCRCReturns
    BY <2>4, ReturnSums
  <2>5. CASE \/ Finalize \/ RenderData \/ ForceCrc32(CRC32_NEGL)
             \/ \E n \in {0, 2, 4} : ReadData(n)
    BY <2>5, ElementSums
  <2>. QED
    BY ONLY <1>4, <2>1, <2>2, <2>3, <2>4, <2>5, Zenon DEF Next
<1>. QED
  BY <1>3, <1>4

(* Every register is at any time the sum of the data it is of.             *)
THEOREM RegistersAreSums == Spec => []SumInv
<1>1. Init => SumInv
  <2>. SUFFICES ASSUME Init
                PROVE  SumInv
    OBVIOUS
  <2>1. /\ m_crc = CRC32_NEGL /\ gathered = << >> /\ covered = Unknown /\ filed = Unknown
        /\ checked = NothingChecked /\ pc = "idle"
    BY DEF Init
  <2>2. m_crc = Sum(gathered) /\ gathered \in Seq(Octet)
    BY <2>1, NeglIsRegister, ContinuedByNone DEF Sum
  <2>. QED
    BY <2>1, <2>2 DEF SumInv, GatheredInv, CoveredInv, CheckedInv
<1>2. TypeOK /\ ChunksAreOctets /\ SumInv /\ [Next]_vars => SumInv'
  BY StepSums
<1>. QED
  BY <1>1, <1>2, Invariant, PTL DEF Spec

(* The checksum an element has is that of its data, for every polynomial   *)
(* and however the data was split, aligned, written and read.              *)
THEOREM FinalIsChecksum == Spec => []FinalIsOfData
<1>1. SumInv => FinalIsOfData
  BY DEF SumInv, CoveredInv, FinalIsOfData
<1>. QED
  BY <1>1, RegistersAreSums, PTL

(* CheckCRC tells whether the checksum is that of the data, and no data    *)
(* that differs within four successive octets passes, whatever polynomial  *)
(* with its highest bit set the table is of.                               *)
THEOREM BurstsAreDetected == Spec => []ErrorsAreDetected
<1>1. ASSUME SumInv, pc = "idle", checked # NothingChecked
      PROVE  /\ checked.data \in Seq(Octet)
             /\ Len(checked.data) <= LengthMax
                  => checked.result = (checked.inputCRC = Checksum(checked.data))
             /\ checked.result => checked.inputCRC = Checksum(checked.data)
  <2>1. /\ checked.data \in Seq(Octet)
        /\ \/ checked.result \in BOOLEAN
              /\ (checked.result <=> checked.inputCRC = Checksum(checked.data))
           \/ checked.result = FALSE /\ Len(checked.data) > LengthMax
    BY <1>1 DEF SumInv, CheckedInv
  <2>2. Len(checked.data) \in Nat /\ LengthMax \in Nat
    BY <2>1, DataAssumption
  <2>3. CASE checked.result \in BOOLEAN
             /\ (checked.result <=> checked.inputCRC = Checksum(checked.data))
    BY <2>1, <2>3
  <2>4. CASE checked.result = FALSE /\ Len(checked.data) > LengthMax
    <3>1. ~ (Len(checked.data) <= LengthMax)
      BY <2>2, <2>4
    <3>. QED
      BY <2>1, <2>4, <3>1
  <2>. QED
    BY <2>1, <2>3, <2>4
<1>2. ASSUME SumInv, pc = "idle", checked # NothingChecked, checked.result,
             covered # Unknown, checked.inputCRC = m_crc_final,
             Len(checked.data) = Len(covered),
             NEW i \in DOMAIN covered, NEW j \in DOMAIN covered,
             \A k \in DOMAIN covered : checked.data[k] # covered[k] => k \in i .. j,
             j - i < 4
      PROVE  checked.data = covered
  <2>. DEFINE a == checked.data
  <2>1. a \in Seq(Octet) /\ m_crc_final = Checksum(a)
    BY <1>1, <1>2
  <2>2. covered \in Seq(Octet) /\ m_crc_final = Checksum(covered)
    BY <1>2 DEF SumInv, CoveredInv
  <2>3. \A x, y, z : Xor(x, z) = Xor(y, z) => x = y
    BY DEF Xor
  <2>4. Len(a) = Len(covered) /\ DOMAIN covered = 1 .. Len(a)
    BY <1>2, <2>2
  <2>5. \A k \in 1 .. Len(a) : a[k] # covered[k] => k \in i .. j
    BY <1>2, <2>4
  <2>. HIDE DEF a
  <2>6. Sum(a) = Sum(covered)
    BY <2>1, <2>2, <2>3, SumIs
  <2>7. i \in 1 .. Len(a) /\ j \in 1 .. Len(a) /\ j - i < 4
    BY <1>2, <2>4
  <2>8. Continued(CRC32_NEGL, a) = Continued(CRC32_NEGL, covered)
    BY <2>6 DEF Sum
  <2>9. a = covered
    BY <2>1, <2>2, <2>4, <2>5, <2>7, <2>8, NeglIsRegister, BurstIsDetected
  <2>. QED
    BY <2>9 DEF a
<1>3. SumInv => ErrorsAreDetected
  BY <1>1, <1>2 DEF ErrorsAreDetected
<1>. QED
  BY <1>3, RegistersAreSums, PTL
=============================================================================
