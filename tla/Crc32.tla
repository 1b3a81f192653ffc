------------------------------- MODULE Crc32 -------------------------------
(***************************************************************************)
(* EbmlCrc32: a checksum gathered by any number of calls of Update from    *)
(* data at any address, octet by octet up to a multiple of four, then four *)
(* octets at a time, then octet by octet again.  FillCRC32 and CheckCRC    *)
(* run the same loops over a register of their own.                        *)
(*                                                                         *)
(* A register is the set of the positions of its 1 bits, four octets of    *)
(* Width bits, so that ^ is the symmetric difference.  The host is little  *)
(* endian: EbmlCrc32.cpp does not include EbmlEndian.h and is built with   *)
(* the little-endian table on every host.                                  *)
(***************************************************************************)
EXTENDS Integers, Sequences

CONSTANTS
  Width,        (* The bits of an octet: 8 in the code.                     *)
  Polynomial,   (* The divisor, 0xEDB88320 in the code.                     *)
  s_tab,        (* The table: the residue of each octet.                    *)
  LengthMax,    (* What an uint32_t counts: 2^32 - 1 octets.                *)
  Data,         (* Bound: the data of the calls.                            *)
  GatheredMax,  (* Bound: the data of successive calls of Update.           *)
  Elements,     (* The renderings of the elements a checksum is made of.    *)
  Unknown

Octet == SUBSET (0 .. Width - 1)
Register == SUBSET (0 .. 4 * Width - 1)

CRC32_NEGL == 0 .. 4 * Width - 1

Xor(a, b) == (a \ b) \cup (b \ a)

(* Fault: the mask is a bit too short.                                     *)
IndexTooShort(c) == c \cap (0 .. Width - 2)

CRC32_INDEX(c) == c \cap (0 .. Width - 1)

(* Fault: a rotation that leaves the register.                             *)
Rotated(c) ==
  {b \in 0 .. 4 * Width - 1 : b + Width \in c}
    \cup {b + 3 * Width + 1 : b \in CRC32_INDEX(c)}

CRC32_SHIFTED(c) == {b \in 0 .. 4 * Width - 1 : b + Width \in c}

(* One bit of the division by the polynomial.                              *)
Shifted1(c) == {b \in 0 .. 4 * Width - 1 : b + 1 \in c}
Divided(c) == IF 0 \in c THEN Xor(Shifted1(c), Polynomial) ELSE Shifted1(c)

(* A register, and what each of the bits of an octet leaves of it.         *)
Division(c) ==
  LET rest[k \in 0 .. Width] == IF k = 0 THEN c ELSE Divided(rest[k - 1])
  IN  rest

Residue(o) == Division(o)[Width]

ASSUME WidthAssumption == Width \in Nat \ {0}
(* The polynomial has the bit a shift leaves clear, as 0xEDB88320 has.     *)
ASSUME PolynomialAssumption ==
  Polynomial \in Register /\ 4 * Width - 1 \in Polynomial
ASSUME TableAssumption ==
  /\ s_tab \in [Octet -> Register]
  /\ \A o \in Octet : s_tab[o] = Residue(o)
ASSUME DataAssumption ==
  /\ Data \subseteq Seq(Octet)
  /\ LengthMax \in Nat /\ GatheredMax \in Nat
  /\ Elements \subseteq [WriteAll : Seq(Octet), WriteSkipDefault : Seq(Octet)]

VARIABLES
  m_crc, m_crc_final, bValueIsSet,
  file,         (* what RenderData wrote last                              *)
  crc, input, alignment, inputCRC, (* the call that runs the loops, if any *)
  octetwise,    (* history: what its octets give one by one                *)
  gathered,     (* history: the data m_crc was updated with                *)
  covered,      (* history: the data m_crc_final is of                     *)
  filed,        (* history: the data the written checksum is of            *)
  checked,      (* history: what CheckCRC was last asked and answered      *)
  pc

element == <<m_crc, m_crc_final, bValueIsSet, file>>
call == <<crc, input, alignment, inputCRC, octetwise>>
history == <<gathered, covered, filed, checked>>
vars == <<element, call, history, pc>>

NothingChecked == [data |-> Unknown, inputCRC |-> {}, result |-> FALSE]
NoCall == crc' = {} /\ octetwise' = {} /\ alignment' = 0 /\ inputCRC' = {}

-----------------------------------------------------------------------------
(* The constructor resets the register only.                               *)
Init ==
  /\ m_crc = CRC32_NEGL /\ m_crc_final = {} /\ bValueIsSet = FALSE
  /\ file = << >>
  /\ crc = {} /\ input = << >> /\ alignment = 0 /\ inputCRC = {}
  /\ octetwise = {}
  /\ gathered = << >> /\ covered = Unknown /\ filed = Unknown
  /\ checked = NothingChecked
  /\ pc = "idle"

(* The loops begin over a register that holds c, at an address.            *)
Begin(function, c, data, address) ==
  /\ pc = "idle"
  /\ pc' = function
  /\ crc' = c /\ octetwise' = c
  /\ input' = data
  /\ alignment' = address

Update(data, address) ==
  /\ Len(gathered) + Len(data) <= GatheredMax
  /\ Begin("Update", m_crc, data, address)
  /\ gathered' = gathered \o data
  /\ checked' = NothingChecked
  /\ UNCHANGED <<element, inputCRC, covered, filed>>

FillCRC32(data, address) ==
  /\ Begin("FillCRC32", CRC32_NEGL, data, address)
  /\ m_crc' = CRC32_NEGL
  /\ gathered' = data
  /\ checked' = NothingChecked
  /\ UNCHANGED <<m_crc_final, bValueIsSet, file, inputCRC, covered, filed>>

CheckCRC(value, data, address) ==
  /\ Begin("CheckCRC", CRC32_NEGL, data, address)
  /\ inputCRC' = value
  /\ checked' = [data |-> data, inputCRC |-> value, result |-> FALSE]
  /\ UNCHANGED <<element, gathered, covered, filed>>

(* An element is rendered to memory, where buffers are aligned: with all   *)
(* its values to be added, without the default ones to be checked.  The    *)
(* element is a constant here: that the check renders it without           *)
(* bKeepPosition, so that its ElementPosition becomes 0, is not modelled.  *)
AddElementCRC32(e) ==
  /\ Len(e.WriteAll) <= LengthMax
  /\ Update(e.WriteAll, 0)

CheckElementCRC32(e) ==
  IF Len(e.WriteSkipDefault) > LengthMax
  THEN /\ pc = "idle"
       /\ checked' = [data |-> e.WriteSkipDefault, inputCRC |-> m_crc_final,
                      result |-> FALSE]
       /\ UNCHANGED <<element, call, gathered, covered, filed, pc>>
  ELSE CheckCRC(m_crc_final, e.WriteSkipDefault, 0)

-----------------------------------------------------------------------------
(* One octet, in the first loop or in the last; UpdateByte of the class.   *)
UpdateByte(c, b) == Xor(s_tab[Xor(CRC32_INDEX(c), b)], CRC32_SHIFTED(c))

(* Fault: the first octet ends up in the high octet of the chunk.          *)
ChunkOfBigEndian(octets) ==
  UNION {{b + (4 - i) * Width : b \in octets[i]} : i \in 1 .. 4}

(* Four octets, the first one in the low octet.                            *)
ShiftedUp(c) == {b \in 0 .. 4 * Width - 1 : b - Width \in c}
Chunk(octets) ==
  octets[1] \cup ShiftedUp(octets[2] \cup ShiftedUp(octets[3]
                                            \cup ShiftedUp(octets[4])))

Look(c) == Xor(s_tab[CRC32_INDEX(c)], CRC32_SHIFTED(c))

UpdateOctet ==
  /\ pc # "idle" /\ input # << >>
  /\ alignment # 0 \/ Len(input) < 4
  /\ crc' = UpdateByte(crc, Head(input))
  /\ octetwise' = UpdateByte(octetwise, Head(input))
  /\ input' = Tail(input)
  /\ alignment' = (alignment + 1) % 4
  /\ UNCHANGED <<element, inputCRC, history, pc>>

UpdateChunk ==
  /\ pc # "idle" /\ alignment = 0 /\ Len(input) >= 4
  /\ crc' = Look(Look(Look(Look(Xor(crc, Chunk(input))))))
  /\ octetwise' =
       UpdateByte(UpdateByte(UpdateByte(UpdateByte(octetwise,
         input[1]), input[2]), input[3]), input[4])
  /\ input' = SubSeq(input, 5, Len(input))
  /\ UNCHANGED <<element, alignment, inputCRC, history, pc>>

(* Fault: the register is not reset for the next checksum.                 *)
ResetForgotten(c) == c

Reset(c) == CRC32_NEGL

(* Finalize, of the register c that was updated with data.                 *)
Finalized(c, data) ==
  /\ m_crc_final' = Xor(c, CRC32_NEGL)
  /\ m_crc' = Reset(Xor(c, CRC32_NEGL))
  /\ bValueIsSet' = TRUE
  /\ covered' = data
  /\ gathered' = << >>
  /\ checked' = NothingChecked
  /\ UNCHANGED <<file, filed>>

Finalize ==
  /\ pc = "idle"
  /\ Finalized(m_crc, gathered)
  /\ UNCHANGED <<call, pc>>

UpdateReturns ==
  /\ pc = "Update" /\ input = << >>
  /\ m_crc' = crc
  /\ pc' = "idle" /\ NoCall
  /\ UNCHANGED <<m_crc_final, bValueIsSet, file, input, history>>

FillCRC32Returns ==
  /\ pc = "FillCRC32" /\ input = << >>
  /\ Finalized(crc, gathered)
  /\ pc' = "idle" /\ NoCall
  /\ UNCHANGED input

CheckCRCReturns ==
  /\ pc = "CheckCRC" /\ input = << >>
  /\ checked' = [checked EXCEPT !.result = Xor(crc, CRC32_NEGL) = inputCRC]
  /\ pc' = "idle" /\ NoCall
  /\ UNCHANGED <<element, input, gathered, covered, filed>>

-----------------------------------------------------------------------------
(* RenderData writes the four octets as they are in memory.                *)
RenderData ==
  /\ pc = "idle"
  /\ file' = [i \in 1 .. 4 |->
                {b \in 0 .. Width - 1 : b + (i - 1) * Width \in m_crc_final}]
  /\ filed' = covered
  /\ checked' = NothingChecked
  /\ UNCHANGED <<m_crc, m_crc_final, bValueIsSet, call, gathered, covered, pc>>

(* ReadData of four octets of which the stream has n, read straight into   *)
(* the value: with fewer readFully throws, and the value is a mixture.     *)
ReadData(n) ==
  /\ pc = "idle" /\ file # << >>
  /\ m_crc_final' =
       (m_crc_final \ (0 .. n * Width - 1)) \cup
         (Chunk(file) \cap (0 .. n * Width - 1))
  /\ bValueIsSet' = (bValueIsSet \/ n = 4)
  /\ covered' = IF n = 4 THEN filed ELSE IF n = 0 THEN covered ELSE Unknown
  /\ checked' = NothingChecked
  /\ UNCHANGED <<m_crc, file, call, gathered, filed, pc>>

ForceCrc32(NewValue) ==
  /\ pc = "idle"
  /\ m_crc_final' = NewValue
  /\ bValueIsSet' = TRUE
  /\ covered' = Unknown
  /\ checked' = NothingChecked
  /\ UNCHANGED <<m_crc, file, call, gathered, filed, pc>>

Next ==
  \/ \E data \in Data, address \in 0 .. 3 :
       \/ Update(data, address)
       \/ FillCRC32(data, address)
       \/ CheckCRC(m_crc_final, data, address)
  \/ \E e \in Elements : AddElementCRC32(e) \/ CheckElementCRC32(e)
  \/ UpdateOctet \/ UpdateChunk
  \/ Finalize \/ UpdateReturns \/ FillCRC32Returns \/ CheckCRCReturns
  \/ RenderData
  \/ \E n \in {0, 2, 4} : ReadData(n)
  \/ ForceCrc32(CRC32_NEGL)

Spec == Init /\ [][Next]_vars

-----------------------------------------------------------------------------
(* What the checksum of some octets is: the complement of the residue of   *)
(* their bits, one by one and without a table, after four octets of ones.  *)
BitByBit(c, o) ==
  LET register[k \in 0 .. Width] ==
        IF k = 0 THEN c
        ELSE Divided(IF k - 1 \in o THEN Xor(register[k - 1], {0})
                     ELSE register[k - 1])
  IN  register

Continuation(c, octets) ==
  LET register[k \in 0 .. Len(octets)] ==
        IF k = 0 THEN c ELSE BitByBit(register[k - 1], octets[k])[Width]
  IN  register

Continued(c, octets) == Continuation(c, octets)[Len(octets)]

Checksum(octets) == Xor(Continued(CRC32_NEGL, octets), CRC32_NEGL)

(* The registers hold four octets, and the loops end within their data.    *)
TypeOK ==
  /\ m_crc \in Register /\ m_crc_final \in Register
  /\ bValueIsSet \in BOOLEAN
  /\ file = << >> \/ file \in [1 .. 4 -> Octet]
  /\ crc \in Register /\ octetwise \in Register /\ inputCRC \in Register
  /\ input \in Seq(Octet) /\ alignment \in 0 .. 3
  /\ pc \in {"idle", "Update", "FillCRC32", "CheckCRC"}

(* The four lookups of a chunk give what its four octets give one by one,  *)
(* at every address and for every length (lines 284 to 296 of              *)
(* EbmlCrc32.cpp against UpdateByte).                                      *)
ChunksAreOctets == crc = octetwise

(* The checksum an element has is that of the data it was made of, however *)
(* the data was split into calls and wherever it was in memory, after it   *)
(* was written and read, and whatever was gathered, filled or checked in   *)
(* between; a value that was forced or read in part is of nothing.         *)
FinalIsOfData == covered # Unknown => m_crc_final = Checksum(covered)

(* CheckCRC says whether the checksum is that of the data, and data of the *)
(* same length that differs within four successive octets does not pass    *)
(* for the data the checksum is of.                                        *)
ErrorsAreDetected ==
  pc = "idle" /\ checked # NothingChecked =>
    /\ Len(checked.data) <= LengthMax
         => checked.result = (checked.inputCRC = Checksum(checked.data))
    /\ checked.result /\ covered # Unknown
       /\ checked.inputCRC = m_crc_final /\ Len(checked.data) = Len(covered)
       => \A i, j \in DOMAIN covered :
            (\A k \in DOMAIN covered : checked.data[k] # covered[k] => k \in i .. j)
            /\ j - i < 4
            => checked.data = covered
=============================================================================
