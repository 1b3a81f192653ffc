---------------------------- MODULE ElementValue ----------------------------
(***************************************************************************)
(* An element with a value: set by the program, rendered, and read by      *)
(* another element of its class from what this library or another program  *)
(* wrote, which may end too early.                                         *)
(*                                                                         *)
(* The element and its reader may be of different builds.  A string is a   *)
(* sequence of octets in which 0 is NUL.                                   *)
(***************************************************************************)
EXTENDS EbmlEndian

CONSTANTS
  Builds,           (* those that exchange files,                           *)
  UnixEpochDelay,   (* 2001-01-01 as a Unix date, in seconds,               *)
  Nanos,            (* and the nanoseconds of a second.                     *)
  SizeLimit,        (* 0x7FFFFFFF: an EbmlString or EbmlBinary is smaller.  *)
  LengthMax         (* Bound: the octets of a string, or of data.           *)

ASSUME BuildsAssumption == Builds \subseteq Build /\ LengthMax \in Nat
ASSUME LimitAssumption == SizeLimit \in Nat
ASSUME DateAssumption == UnixEpochDelay \in Nat /\ Nanos \in Nat \ {0}

VARIABLES
  class,        (* the C++ class of the elements                            *)
  bHasDefault,  (* whether the elements have a default value                *)
  value, bValueIsSet,
  DefaultSize, Size,
  data,         (* the data of the element in the file                      *)
  available,    (* how many of its octets are in the file                   *)
  asked,        (* History: the value the program gave, if it is written.   *)
  done          (* what was done last with the element                      *)

vars == <<class, bHasDefault, value, bValueIsSet, DefaultSize, Size, data,
          available, asked, done>>

Octet == 0 .. Base - 1
Integers_ == {"EbmlUInteger", "EbmlSInteger"}
Strings == {"EbmlString", "EbmlUnicodeString"}
Class == Integers_ \cup Strings \cup {"EbmlDate", "EbmlFloat", "EbmlBinary"}

Domain(c) ==
  CASE c \in {"EbmlUInteger", "EbmlFloat"} -> 0 .. Word - 1
    [] c \in {"EbmlSInteger", "EbmlDate"} -> -(Word \div 2) .. Word \div 2 - 1
    [] OTHER -> SeqOf(Octet, LengthMax)

DefaultValue(c) == IF c \in Strings \cup {"EbmlBinary"} THEN << >> ELSE 0

-----------------------------------------------------------------------------
(* Fault: the word is taken as it is.                                      *)
NotSigned(u) == u

ToSigned(u) == IF u < Word \div 2 THEN u ELSE u - Word

(* What is before the first NUL.                                           *)
Cut(s) ==
  LET nul == SelectInSeq(s, LAMBDA octet : octet = 0)
  IN  IF nul = 0 THEN s ELSE SubSeq(s, 1, nul - 1)

(* A date is set and asked for in Unix seconds and kept in nanoseconds     *)
(* since 2001; the conversion wraps, the way back divides towards 0.       *)
EpochToEbml(epoch) == ToSigned(((epoch - UnixEpochDelay) * Nanos) % Word)
EbmlToEpoch(ebml) ==
  UnixEpochDelay + (IF ebml < 0 THEN -((-ebml) \div Nanos) ELSE ebml \div Nanos)

(* A double has one of Word values, a float every FloatUnit-th of them;    *)
(* narrowed to a float it is the nearest one.                              *)
FloatUnit == Power[WordOctets - FloatOctets]

Narrowed(v) ==
  LET nearest == (v + FloatUnit \div 2) \div FloatUnit
  IN  IF nearest < Power[FloatOctets] THEN nearest ELSE nearest - 1

(* What SetValue keeps of v.                                               *)
Kept(c, v) ==
  CASE c = "EbmlDate" -> EpochToEbml(v)
    [] c = "EbmlUnicodeString" -> Cut(v)
    [] OTHER -> v

(* What a new element holds.                                               *)
Made == IF bHasDefault THEN Kept(class, DefaultValue(class)) ELSE DefaultValue(class)

(* Which sizes the scan takes an element of the class for.                 *)
SizeIsValid(c, n) ==
  CASE c \in Integers_ -> n <= WordOctets
    [] c = "EbmlDate" -> n \in {0, WordOctets}
    [] c = "EbmlFloat" -> n \in {FloatOctets, WordOctets}
    [] c \in {"EbmlString", "EbmlBinary"} -> n < SizeLimit
    [] OTHER -> TRUE

(* The DefaultSize of a new element.                                       *)
InitialSize(c) ==
  CASE c = "EbmlSInteger" -> 1
    [] c = "EbmlDate" -> WordOctets
    [] OTHER -> 0

-----------------------------------------------------------------------------
(* The word starts as all ones when the first octet has the sign; without  *)
(* octets that octet is not initialised.                                   *)
Sign(octets) ==
  IF octets = << >> THEN {0, Word - 1}
  ELSE IF octets[1] >= Base \div 2 THEN {Word - 1} ELSE {0}

(* The values ReadData may give.                                           *)
Decoded(c, octets, build) ==
  CASE c = "EbmlUInteger" -> {Shifted(octets, 0)}
    [] c = "EbmlSInteger" -> {ToSigned(Shifted(octets, init)) : init \in Sign(octets)}
    [] c = "EbmlDate" -> {ToSigned(FromBig(build, octets))}
    [] c = "EbmlFloat" ->
         {FromBig(build, octets) * (IF Len(octets) = FloatOctets THEN FloatUnit ELSE 1)}
    [] OTHER -> {Cut(octets)}

(* Fault: the greatest value of each size is written with an octet more.   *)
FitsBelow(c, v, n) ==
  IF c = "EbmlUInteger" THEN v < Power[n] - 1
  ELSE v < Power[n] \div 2 - 1 /\ v >= -(Power[n] \div 2)

Fits(c, v, n) ==
  IF c = "EbmlUInteger" THEN v <= Power[n] - 1
  ELSE v <= Power[n] \div 2 - 1 /\ v >= -(Power[n] \div 2)

IntegerSize(c, v) ==
  CHOOSE n \in 1 .. WordOctets :
    /\ n = WordOctets \/ Fits(c, v, n)
    /\ \A k \in 1 .. n - 1 : ~ Fits(c, v, k)

UpdateSize(c, v, isSet, default, size) ==
  LET least == CASE c \in Integers_ -> IntegerSize(c, v)
                 [] c = "EbmlDate" -> IF isSet THEN WordOctets ELSE 0
                 [] c = "EbmlFloat" -> size
                 [] OTHER -> Len(v)
  IN  IF c \in Integers_ \cup Strings /\ default > least THEN default ELSE least

(* Fault: the padding is forgotten.                                        *)
Unpadded(v, n) == v

Padded(v, n) == v \o [i \in 1 .. (IF Len(v) < n THEN n - Len(v) ELSE 0) |-> 0]

RenderData(c, v, size, default, build) ==
  CASE c \in Strings -> Padded(v, default)
    [] c = "EbmlBinary" -> v
    [] c = "EbmlDate" -> ToBig(build, v, size)
    [] c = "EbmlFloat" ->
         ToBig(build, IF size = FloatOctets THEN Narrowed(v) ELSE v, size)
    [] OTHER -> Encoded(v, size)

-----------------------------------------------------------------------------
Init ==
  /\ class \in Class
  /\ bHasDefault \in IF class = "EbmlBinary" THEN {FALSE} ELSE BOOLEAN
  /\ value = Made /\ bValueIsSet = bHasDefault
  /\ DefaultSize = InitialSize(class)
  /\ Size = IF class = "EbmlFloat" THEN FloatOctets ELSE DefaultSize
  /\ data = << >> /\ available = 0
  /\ asked = IF bHasDefault THEN <<DefaultValue(class)>> ELSE << >>
  /\ done = "made"

SetValue(v) ==
  /\ done \in {"made", "sized"}
  /\ value' = Kept(class, v) /\ bValueIsSet' = TRUE
  /\ asked' = <<v>>
  /\ done' = "set"
  /\ UNCHANGED <<class, bHasDefault, DefaultSize, Size, data, available>>

(* For an integer at most as many octets as it has: RenderData throws with *)
(* more.                                                                   *)
SetDefaultSize(n) ==
  /\ done = "made" /\ class \in Integers_ \cup Strings
  /\ class \in Integers_ => n <= WordOctets
  /\ DefaultSize' = n
  /\ Size' = IF class \in Integers_ THEN n ELSE Size
  /\ done' = "sized"
  /\ UNCHANGED <<class, bHasDefault, value, bValueIsSet, data, available, asked>>

SetPrecision(n) ==
  /\ done = "made" /\ class = "EbmlFloat" /\ SizeIsValid(class, n)
  /\ Size' = n
  /\ done' = "sized"
  /\ UNCHANGED <<class, bHasDefault, value, bValueIsSet, DefaultSize, data,
                 available, asked>>

(* A date is compared as it is kept, with a default in Unix seconds.       *)
IsDefaultValue ==
  bHasDefault /\ (bValueIsSet => value = DefaultValue(class))

(* The filter leaves the element out.  A reader that completes its master  *)
(* makes a new one.                                                        *)
LeaveOut ==
  /\ done \in {"made", "sized", "set"} /\ IsDefaultValue
  /\ value' = Made /\ bValueIsSet' = TRUE
  /\ done' = "left out"
  /\ UNCHANGED <<class, bHasDefault, DefaultSize, Size, data, available, asked>>

(* Only a date may be rendered without a value, as an empty one.           *)
Render(build) ==
  /\ done \in {"made", "sized", "set"}
  /\ bValueIsSet \/ class = "EbmlDate"
  /\ Size' = UpdateSize(class, value, bValueIsSet, DefaultSize, Size)
  /\ data' = RenderData(class, value, Size', DefaultSize, build)
  /\ available' = Len(data')
  /\ done' = "rendered"
  /\ UNCHANGED <<class, bHasDefault, value, bValueIsSet, DefaultSize, asked>>

(* The data another program wrote.                                         *)
OtherData(octets) ==
  /\ done = "made" /\ SizeIsValid(class, Len(octets))
  /\ data' = octets /\ available' = Len(octets)
  /\ Size' = Len(octets)
  /\ asked' = << >>
  /\ done' = "rendered"
  /\ UNCHANGED <<class, bHasDefault, value, bValueIsSet, DefaultSize>>

(* The file ends within the data.                                          *)
Truncate(n) ==
  /\ done = "rendered" /\ available = Len(data) /\ n < available
  /\ available' = n
  /\ UNCHANGED <<class, bHasDefault, value, bValueIsSet, DefaultSize, Size, data,
                 asked, done>>

(* Fault: a read that ends too early is taken for the whole.               *)
NeverThrows == FALSE

(* readFully throws at the end of the file; EbmlBinary does not ask how    *)
(* much it was given.                                                      *)
Throws == class # "EbmlBinary" /\ available < Size

(* EbmlString reads into its value, so that a failure leaves there what    *)
(* was read and NULs; the others read into a buffer of their own.          *)
ReadThrows ==
  /\ Throws
  /\ value' = IF class = "EbmlString"
              THEN Padded(SubSeq(data, 1, available), Size) ELSE Made
  /\ bValueIsSet' = bHasDefault
  /\ done' = "thrown"

(* An empty date is not set.                                               *)
ReadNothing ==
  /\ class = "EbmlDate" /\ Size = 0
  /\ value' = Made /\ bValueIsSet' = bHasDefault
  /\ done' = "skipped"

(* The part of the memory of an EbmlBinary that was not read is not        *)
(* initialised.                                                            *)
ReadValue ==
  /\ ~ Throws /\ ~ (class = "EbmlDate" /\ Size = 0)
  /\ IF class = "EbmlBinary"
     THEN \E rest \in [1 .. Size - available -> Octet] :
            value' = SubSeq(data, 1, available) \o rest
     ELSE \E build \in Builds : value' \in Decoded(class, data, build)
  /\ bValueIsSet' = TRUE
  /\ done' = "read"

(* A new element, whose Size is that of the head, reads the data: there is *)
(* none when the scan refuses the size, whoever wrote it.                  *)
ReadData ==
  /\ done = "rendered" /\ SizeIsValid(class, Size)
  /\ ReadThrows \/ ReadNothing \/ ReadValue
  /\ DefaultSize' = InitialSize(class)
  /\ UNCHANGED <<class, bHasDefault, Size, data, available, asked>>

Next ==
  \/ \E v \in Domain(class) : SetValue(v)
  \/ \E n \in 0 .. LengthMax : SetDefaultSize(n) \/ Truncate(n)
  \/ \E octets \in SeqOf(Octet, LengthMax) : OtherData(octets)
  \/ \E n \in {FloatOctets, WordOctets} : SetPrecision(n)
  \/ \E build \in Builds : Render(build)
  \/ LeaveOut \/ ReadData

Spec == Init /\ [][Next]_vars

-----------------------------------------------------------------------------
(* The value is always one the class can hold, also after reading octets   *)
(* another program wrote: no decoding leaves the range of the C++ type.    *)
TypeOK ==
  /\ class \in Class /\ bHasDefault \in BOOLEAN /\ bValueIsSet \in BOOLEAN
  /\ value \in Domain(class)
  /\ DefaultSize \in Nat /\ Size \in Nat
  /\ data \in Seq(Octet) /\ available \in 0 .. Len(data)

(* UpdateSize says, before, how many octets RenderData writes, padding     *)
(* included: the head that precedes the data is right.                     *)
SizeIsWritten == done = "rendered" => Size = Len(data)

(* The date v survives the conversion when its nanoseconds fit a word.     *)
IsRepresentable(v) ==
  (v - UnixEpochDelay) * Nanos \in -(Word \div 2) .. Word \div 2 - 1

Distance(a, b) == IF a < b THEN b - a ELSE a - b

(* What the program gave is what another, of any build, gets after writing *)
(* and reading: sign, padding, octet order and conversion come off again,  *)
(* except that a string ends at the first NUL it holds, a date wraps when  *)
(* its nanoseconds do, and a number kept as a float is the nearest one.    *)
(* What the filter leaves out is read so as well; but for 2001-01-01 of a  *)
(* class with a default date.                                              *)
ReadsWhatWasWritten ==
  /\ done = "read" /\ asked # << >> /\ available = Len(data) =>
       LET v == asked[1]
       IN  CASE class \in Strings -> value = Cut(v)
             [] class = "EbmlDate" -> IsRepresentable(v) => EbmlToEpoch(value) = v
             [] class = "EbmlFloat" /\ Size = FloatOctets ->
                  \A f \in 0 .. Power[FloatOctets] - 1 :
                    Distance(value, v) <= Distance(f * FloatUnit, v)
             [] OTHER -> value = v
  /\ done = "left out" =>
       IF class = "EbmlDate" THEN IsRepresentable(asked[1]) => asked[1] = UnixEpochDelay
       ELSE value = Kept(class, asked[1])

(* The optimized swaps give what the generic one gives: EbmlEndian.h has   *)
(* one of them for each width and compiler.                                *)
OptimizedIsGeneric ==
  done = "rendered" /\ asked # << >> /\ class \in {"EbmlDate", "EbmlFloat"} =>
    data = RenderData(class, value, Size, DefaultSize, "little")

(* Whatever was read, written again it has no more octets than before, as  *)
(* few as possible, and reads the same.                                    *)
RewriteIsShortest ==
  done = "read" /\ class \in Integers_ /\ Size > 0 =>
    LET n == UpdateSize(class, value, TRUE, InitialSize(class), Size)
    IN  /\ n <= Size
        /\ \A build \in Builds : Decoded(class, Encoded(value, n), build) = {value}
        /\ \A k \in 1 .. n - 1 : \A octets \in [1 .. k -> Octet] :
             value \notin Decoded(class, octets, "little")

(* A value that was read is the whole of the data, except of EbmlBinary;   *)
(* a reading that fails or is skipped leaves the element as it was made,   *)
(* except EbmlString, which has lost its default.                          *)
WholeOrNothing ==
  /\ done = "read" /\ class # "EbmlBinary" => available = Len(data)
  /\ done \in {"thrown", "skipped"} =>
       /\ bValueIsSet = bHasDefault
       /\ class # "EbmlString" => value = Made
=============================================================================
