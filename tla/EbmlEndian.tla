----------------------------- MODULE EbmlEndian -----------------------------
(***************************************************************************)
(* Numbers as octets in memory and in a file.  A file is big-endian; the   *)
(* memory of a build is big-endian, or little-endian with one of two ways  *)
(* to swap: "little", that of gcc, clang and the generic version, and      *)
(* "msvc", whose 32-bit version reads only half of what it has swapped.    *)
(* A number of n octets is its value modulo Base^n, Base being 256 there.  *)
(***************************************************************************)
EXTENDS Integers, SequencesExt

CONSTANTS
  Base,
  WordOctets,   (* the octets of an int64_t,                                *)
  FloatOctets   (* and of an int32_t: 8 and 4.                              *)

ASSUME BaseAssumption == Base \in Nat /\ Base > 1 /\ Base % 2 = 0
ASSUME WidthAssumption ==
  /\ WordOctets \in Nat \ {0}
  /\ FloatOctets \in 2 .. WordOctets - 1 /\ FloatOctets % 2 = 0

Build == {"big", "little", "msvc"}

(* The powers of the base, and how many values an int64_t has.             *)
Power[k \in 0 .. WordOctets] == IF k = 0 THEN 1 ELSE Base * Power[k - 1]

Word == Power[WordOctets]

(* The last octets of v, the most significant first: each round of the     *)
(* loop takes one and shifts the rest.                                     *)
Encoded(v, n) ==
  LET rest[k \in 0 .. n] == IF k = 0 THEN v ELSE rest[k - 1] \div Base
  IN  [i \in 1 .. n |-> rest[n - i] % Base]

(* A word after the octets were shifted into it.                           *)
Shifted(octets, word) ==
  LET shift[k \in 0 .. Len(octets)] ==
        IF k = 0 THEN word ELSE (shift[k - 1] * Base + octets[k]) % Word
  IN  shift[Len(octets)]

(* What an object of n octets looks like in memory, and what it holds.     *)
InMemory(build, v, n) ==
  IF build = "big" THEN Encoded(v, n) ELSE Reverse(Encoded(v, n))

FromMemory(build, octets) ==
  Shifted(IF build = "big" THEN octets ELSE Reverse(octets), 0)

(* The lower half of a little-endian number, which its sign extends.       *)
LowerHalf(octets) ==
  LET n == Len(octets) \div 2
      sign == IF octets[n] >= Base \div 2 THEN Base - 1 ELSE 0
  IN  [i \in 1 .. Len(octets) |-> IF i <= n THEN octets[i] ELSE sign]

(* Fault: a little-endian build does not swap.                             *)
SwapNothing(build, octets) == octets

SwapBig(build, octets) ==
  CASE build = "big" -> octets
    [] build = "msvc" /\ Len(octets) = FloatOctets -> LowerHalf(Reverse(octets))
    [] OTHER -> Reverse(octets)

ToBig(build, v, n) == SwapBig(build, InMemory(build, v, n))

FromBig(build, octets) == FromMemory(build, SwapBig(build, octets))
=============================================================================
