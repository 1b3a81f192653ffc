----------------------------- MODULE EbmlCoding -----------------------------
(***************************************************************************)
(* The coding of IDs and data sizes: the length marker in the first octet, *)
(* CodedSizeLength, CodedValueLength and ReadCodedSizeValue.               *)
(*                                                                         *)
(* The width of an octet is a parameter.  Mask is the sequence of the      *)
(* length markers, 1 << 7 .. 1 << 0 in the code (<<128, 64, .., 1>>), and  *)
(* AllOnes[n] is what n octets hold when every payload bit is set,         *)
(* 2^(7n) - 1 in the code (<<127, 16383, 2097151, 268435455, ..>>).        *)
(***************************************************************************)
EXTENDS Integers, Sequences

CONSTANTS
  Mask,     (* Mask[n] is the marker of a coded number of n octets.        *)
  AllOnes,  (* AllOnes[n] is the reserved (unknown) size of n octets.      *)
  IdMax     (* Longest ID, in octets: 4 in the code.                       *)

ASSUME MaskAssumption ==
  /\ Mask \in Seq(Nat \ {0})
  /\ Len(Mask) > 0
  /\ Mask[Len(Mask)] = 1
  /\ \A n \in 1 .. Len(Mask) - 1 : Mask[n] = 2 * Mask[n + 1]
  /\ \A m, n \in 1 .. Len(Mask) : m < n => Mask[m] >= 2 * Mask[n]

ASSUME AllOnesAssumption ==
  /\ AllOnes \in Seq(Nat)
  /\ Len(AllOnes) >= 5
  /\ Len(AllOnes) >= Len(Mask)
  /\ AllOnes[1] = Mask[1] - 1
  /\ \A n \in 1 .. Len(AllOnes) - 1 :
       AllOnes[n + 1] = Mask[1] * AllOnes[n] + Mask[1] - 1

ASSUME IdMaxAssumption == IdMax \in 1 .. Len(Mask)

SizeMax == Len(Mask)   \* longest data size, 8 octets in the code

Radix == 2 * Mask[1]

Octet == 0 .. Radix - 1

(* The number of octets announced by a first octet, 0 when it holds no     *)
(* marker among the first `limit` bits.                                    *)
Marked(o, n) == Mask[n] <= o /\ o < 2 * Mask[n]

MarkedLength(o, limit) ==
  IF \E n \in 1 .. limit : Marked(o, n)
  THEN CHOOSE n \in 1 .. limit : Marked(o, n)
  ELSE 0

(* The big-endian number held by a sequence of octets.                     *)
Number(octets) ==
  LET value[n \in 0 .. Len(octets)] ==
        IF n = 0 THEN 0 ELSE value[n - 1] * Radix + octets[n]
  IN  value[Len(octets)]

(* What ReadCodedSizeValue returns through BufferSize: the length of the   *)
(* coded size at the start of `octets`, 0 when it is not there entirely.   *)
CodedLength(octets) ==
  LET n == IF octets = << >> THEN 0 ELSE MarkedLength(Head(octets), SizeMax)
  IN  IF n <= Len(octets) THEN n ELSE 0

(* What ReadCodedSizeValue returns as the size, for a complete coded size. *)
CodedValue(coded) ==
  Number(<<Head(coded) - Mask[Len(coded)]>> \o Tail(coded))

(* SizeFound = SizeUnknown in the code.                                    *)
IsUnknown(coded) == CodedValue(coded) = AllOnes[Len(coded)]

(* Fault: the reserved all-ones value is used for a known size.            *)
CodedSizeLengthUsesReserved(Length, SizeLength, bSizeIsFinite) ==
  LET CodedSize == IF Length <= AllOnes[1] THEN 1
                   ELSE IF Length <= AllOnes[2] THEN 2
                   ELSE IF Length <= AllOnes[3] THEN 3
                   ELSE IF Length <= AllOnes[4] THEN 4
                   ELSE 5
  IN  IF CodedSize < SizeLength THEN SizeLength ELSE CodedSize

CodedSizeLength(Length, SizeLength, bSizeIsFinite) ==
  LET fits(n) == IF bSizeIsFinite THEN Length < AllOnes[n]
                                  ELSE Length <= AllOnes[n]
      CodedSize == IF fits(1) THEN 1
                   ELSE IF fits(2) THEN 2
                   ELSE IF fits(3) THEN 3
                   ELSE IF fits(4) THEN 4
                   ELSE 5
  IN  IF CodedSize < SizeLength THEN SizeLength ELSE CodedSize

(* The octets CodedValueLength writes: the low octets of Length, and in    *)
(* the first one the marker over what fits below it.                       *)
CodedValueLength(Length, CodedSize) ==
  LET rest[n \in 0 .. CodedSize - 1] ==   \* of Length, after n octets
        IF n = 0 THEN Length ELSE rest[n - 1] \div Radix
  IN  [i \in 1 .. CodedSize |->
         IF i = 1 THEN Mask[CodedSize] + (rest[CodedSize - 1] % Mask[CodedSize])
                  ELSE rest[CodedSize - i] % Radix]
=============================================================================
