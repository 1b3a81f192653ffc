-------------------------- MODULE StreamParameters --------------------------
(***************************************************************************)
(* The constants of the streams, what their calls take and return, and the *)
(* arithmetic of their words.  A position is an unsigned word, an offset a *)
(* signed one; what converts the one to the other is named here.           *)
(***************************************************************************)
EXTENDS Integers, Sequences

CONSTANTS
  Octet,
  Half,         (* the number of values of int64_t that are not negative    *)
  Narrow,       (* the number of values of uint32_t                         *)
  Modes,        (* the open_mode values a file may be opened with           *)
  FileMax,      (* Bound: the length of the file.                           *)
  SizeMax       (* Bound: the octets of one write.                          *)

(* The number of values of size_t and uint64_t.                            *)
Word == 2 * Half

ASSUME OctetAssumption == 0 \in Octet
ASSUME WordAssumption ==
  /\ Half \in Nat \ {0} /\ Narrow \in 1 .. Word
  /\ SizeMax \in Nat /\ SizeMax < Half
ASSUME FileAssumption ==
  /\ FileMax \in Nat /\ FileMax < Half
  /\ Modes \subseteq {"MODE_READ", "MODE_SAFE", "MODE_WRITE", "MODE_CREATE"}

Size_t == 0 .. Word - 1
Offsets == - Half .. Half - 1

Data == UNION {[1 .. n -> Octet] : n \in 0 .. SizeMax}

(* A sum or difference of two words, and a word read as a signed one.      *)
Wrapped(n) ==
  IF n < 0 THEN n + Word ELSE IF n >= Word THEN n - Word ELSE n

Signed(n) == IF n >= Half THEN n - Word ELSE n

Answer(asked, octets, count) ==
  [asked |-> asked, octets |-> octets, count |-> count]

NothingReturned == Answer(0, << >>, 0)
=============================================================================
