---------------------------- MODULE FindElement ----------------------------
(***************************************************************************)
(* EbmlElement::FindNextElement: the scan that looks, octet by octet, for  *)
(* the next position of the stream where an element of the context can     *)
(* start.  The octets read and not yet given up are kept in a small window *)
(* PossibleIdNSize; a candidate that is refused costs one octet, the       *)
(* others stay in the window and are tried again.                          *)
(*                                                                         *)
(* The stream is chosen while it is read: data is what was read since      *)
(* ParseStart, and each read may also find the end of the stream.          *)
(* Positions are relative to ParseStart.                                   *)
(***************************************************************************)
EXTENDS EbmlCoding

CONSTANTS
  BufLen,               (* Octets in PossibleIdNSize: 16 in the code.       *)
  Uninitialised,        (* What a cell of it holds before it is written.    *)
  Alphabet,             (* The octets a stream is made of.                  *)
  StreamMax,            (* Bound: the longest stream.                       *)
  MaxDataSizes,         (* The values of the parameter MaxDataSize.         *)
  Path,                 (* The context and its chain of parent contexts.    *)
  GlobalIds,            (* The IDs of the global context.                   *)
  CanHaveInfiniteSize,  (* The IDs whose class allows the unknown size.     *)
  SizeIsValid(_, _)     (* Of an ID and a size.                             *)

ASSUME BufLenAssumption == BufLen \in Nat /\ BufLen >= IdMax + SizeMax
ASSUME UninitialisedAssumption == Uninitialised \notin Octet
ASSUME StreamAssumption ==
  Alphabet \subseteq Octet /\ StreamMax \in Nat /\ MaxDataSizes \subseteq Nat

(* Path[1] is the context of the call, Path[i + 1] the parent of Path[i].  *)
(* Only the first may be the global context, and that one has no parent.   *)
(* The first octet of an ID tells its length.                              *)
ASSUME PathAssumption ==
  /\ Path \in Seq([children : SUBSET Seq(Octet), master : Seq(Octet),
                   isGlobal : BOOLEAN])
  /\ Len(Path) > 0
  /\ \A i \in 1 .. Len(Path) : Path[i].isGlobal => Len(Path) = 1
  /\ \A id \in Path[1].children :
       id # << >> /\ MarkedLength(Head(id), IdMax) = Len(id)

VARIABLES
  MaxDataSize, AllowDummyElt,  (* the parameters of the call                *)
  UpperLevel,                  (* in and out: the level of what is found    *)
  data,                        (* the octets of the stream read so far      *)
  pos,                         (* the file pointer                          *)
  PossibleIdNSize, ReadIndex, ReadSize, IdStart,
  SizeIdx, PossibleID_Length, PossibleSizeLength,
  Result,                      (* what is returned, or the candidate        *)
  pc

parameters == <<MaxDataSize, AllowDummyElt>>

locals == <<PossibleIdNSize, ReadIndex, ReadSize, IdStart, SizeIdx,
            PossibleID_Length, PossibleSizeLength>>

vars == <<parameters, UpperLevel, data, pos, locals, Result, pc>>

Cell == 0 .. BufLen - 1

(* n octets of f, from index i on.                                         *)
Octets(f, i, n) == [k \in 1 .. n |-> f[i + k - 1]]

NoElement == [found |-> FALSE]

UpperLevel_original == 0

-----------------------------------------------------------------------------
(* The class an ID gets in the context, with the level it belongs to:      *)
(* -1 a global element, 0 a child, 1 the context's own master, then up the *)
(* chain of parents.  level is also what LowLevel is left at on failure.   *)
Knows(i, id) == id \in Path[i].children \/ id = Path[i].master

NearestLevel(id) ==
  CHOOSE i \in 1 .. Len(Path) :
    Knows(i, id) /\ \A j \in 1 .. i - 1 : ~ Knows(j, id)

CreateElementUsingContext(id, AsInfiniteSize, bAllowDummy) ==
  LET allowed == AsInfiniteSize => id \in CanHaveInfiniteSize
      i == NearestLevel(id)
  IN  IF /\ ~ Path[1].isGlobal /\ id \notin Path[1].children
         /\ id \in GlobalIds /\ allowed
        THEN [found |-> TRUE, dummy |-> FALSE, level |-> -1]
      ELSE IF \E j \in 1 .. Len(Path) : Knows(j, id) /\ i = j
        THEN [found |-> allowed, dummy |-> FALSE,
              level |-> IF allowed /\ id \notin Path[i].children
                        THEN i ELSE i - 1]
      ELSE IF bAllowDummy /\ ~ AsInfiniteSize /\ ~ Path[1].isGlobal
        THEN [found |-> TRUE, dummy |-> TRUE, level |-> 0]
      ELSE [found |-> FALSE, dummy |-> FALSE, level |-> Len(Path) - 1]

(* The candidate whose first octet is at `start`: its ID, its coded size,  *)
(* the level it was found at.                                              *)
Candidate(id, coded, start, allowDummy) ==
  LET c == CreateElementUsingContext(id, IsUnknown(coded), allowDummy)
  IN  [found |-> c.found, dummy |-> c.dummy, level |-> c.level, ID |-> id,
       coded |-> coded, ElementPosition |-> start,
       SizePosition |-> start + Len(id)]

DataStart(c) == c.SizePosition + Len(c.coded)

(* GetEndPosition, once SetSizeLength has recorded the length that was     *)
(* read: the element's head is measured by coding its size again.          *)
GetEndPosition(c) ==
  LET Size == CodedValue(c.coded)
  IN  c.SizePosition + CodedSizeLength(Size, Len(c.coded), ~ IsUnknown(c.coded))
        + Size

(* Fault: the head of the candidate is not counted.                        *)
FitsWithoutHead(c, max) ==
  \/ IsUnknown(c.coded)
  \/ c.level > 0
  \/ max = 0
  \/ max >= c.ElementPosition + CodedValue(c.coded)

(* The condition under which the candidate is returned.                    *)
Fits(c, max) ==
  \/ IsUnknown(c.coded)
  \/ c.level > 0
  \/ max = 0
  \/ max >= DataStart(c) + CodedValue(c.coded)

Accepted(c, max, allowDummy) ==
  /\ c.found
  /\ allowDummy \/ ~ c.dummy
  /\ SizeIsValid(c.ID, CodedValue(c.coded))
  /\ Fits(c, max)

-----------------------------------------------------------------------------
(* The call, whose first step is `step`.                                   *)
Called(step) ==
  /\ MaxDataSize \in MaxDataSizes
  /\ AllowDummyElt \in BOOLEAN
  /\ UpperLevel = UpperLevel_original
  /\ data = << >>
  /\ pos = 0
  /\ PossibleIdNSize = [k \in Cell |-> Uninitialised]
  /\ ReadIndex = 0 /\ ReadSize = 0 /\ IdStart = 0
  /\ SizeIdx = 0 /\ PossibleID_Length = 0 /\ PossibleSizeLength = 0
  /\ Result = NoElement
  /\ pc = step

Init == Called("id")

(* DataStream.read of one octet into cell k of buf.                        *)
ReadOctet(buf, k) ==
  /\ Len(data) < StreamMax
  /\ \E o \in Alphabet :
       /\ data' = Append(data, o)
       /\ PossibleIdNSize' = [buf EXCEPT ![k] = o]
  /\ pos' = pos + 1
  /\ ReadSize' = ReadSize + 1

(* Fault: one octet too few is moved.                                      *)
ShiftLeftTooFew(n) ==
  [k \in Cell |->
     IF k < n - 1 THEN PossibleIdNSize[k + 1] ELSE PossibleIdNSize[k]]

(* memmove of n octets one cell to the left.                               *)
ShiftLeft(n) ==
  [k \in Cell |-> IF k < n THEN PossibleIdNSize[k + 1] ELSE PossibleIdNSize[k]]

(* return nullptr: the locals are gone, what was read is not given back.   *)
ReturnNull ==
  /\ pc' = "done"
  /\ Result' = NoElement
  /\ UNCHANGED <<parameters, UpperLevel, data, pos, locals>>

(* MaxDataSize allows one more octet.                                      *)
MayRead == MaxDataSize > ReadSize

(* Fault: the longest IDs are not recognised.                              *)
FoundShorterId ==
  IF ReadIndex = 0 THEN 0
  ELSE MarkedLength(PossibleIdNSize[0],
                    IF ReadIndex < IdMax - 1 THEN ReadIndex ELSE IdMax - 1)

(* The ID at the start of the window, as far as it has been read.          *)
FoundIdLength ==
  IF ReadIndex = 0 THEN 0
  ELSE MarkedLength(PossibleIdNSize[0],
                    IF ReadIndex < IdMax THEN ReadIndex ELSE IdMax)

(* Fault: the window is never shortened.                                   *)
AllOctetsKept == ReadIndex

(* No ID starts in the first cell: from IdMax octets on it is dropped.     *)
KeptOctets == IF ReadIndex >= IdMax THEN ReadIndex - 1 ELSE ReadIndex

DropsFirst == KeptOctets < ReadIndex

IdFound ==
  /\ pc = "id"
  /\ FoundIdLength > 0
  /\ PossibleID_Length' = FoundIdLength
  /\ SizeIdx' = ReadIndex
  /\ ReadIndex' = ReadIndex - FoundIdLength
  /\ PossibleSizeLength' = ReadIndex'
  /\ pc' = "size"
  /\ UNCHANGED <<parameters, UpperLevel, data, pos, PossibleIdNSize,
                 ReadSize, IdStart, Result>>

IdRead ==
  /\ pc = "id" /\ FoundIdLength = 0
  /\ MayRead
  /\ ReadOctet(IF DropsFirst THEN ShiftLeft(KeptOctets) ELSE PossibleIdNSize,
               KeptOctets)
  /\ ReadIndex' = KeptOctets + 1
  /\ IdStart' = IF DropsFirst THEN IdStart + 1 ELSE IdStart
  /\ UNCHANGED <<parameters, UpperLevel, SizeIdx, PossibleID_Length,
                 PossibleSizeLength, Result, pc>>

(* MaxDataSize is reached, or the stream ends here.                        *)
IdNotFound ==
  /\ pc = "id" /\ FoundIdLength = 0
  /\ ReturnNull

(* The octets after the ID, and those of a complete coded size.            *)
SizeOctets == Octets(PossibleIdNSize, PossibleID_Length, PossibleSizeLength)

SizeLength == CodedLength(SizeOctets)

SizeIncomplete == SizeLength = 0 /\ PossibleSizeLength < SizeMax /\ MayRead

SizeRead ==
  /\ pc = "size" /\ SizeIncomplete
  /\ ReadOctet(PossibleIdNSize, SizeIdx)
  /\ SizeIdx' = SizeIdx + 1
  /\ PossibleSizeLength' = PossibleSizeLength + 1
  /\ UNCHANGED <<parameters, UpperLevel, ReadIndex, IdStart,
                 PossibleID_Length, Result, pc>>

SizeEndOfStream ==
  /\ pc = "size" /\ SizeIncomplete
  /\ ReturnNull

(* The candidate is created, and UpperLevel with it.                       *)
SizeFound ==
  /\ pc = "size"
  /\ SizeLength > 0
  /\ Result' = Candidate(Octets(PossibleIdNSize, 0, PossibleID_Length),
                         Octets(PossibleIdNSize, PossibleID_Length, SizeLength),
                         IdStart, AllowDummyElt)
  /\ UpperLevel' = Result'.level
  /\ pc' = "created"
  /\ UNCHANGED <<parameters, data, pos, locals>>

Accept ==
  /\ pc = "created"
  /\ Accepted(Result, MaxDataSize, AllowDummyElt)
  /\ pos' = DataStart(Result)
  /\ pc' = "done"
  /\ UNCHANGED <<parameters, UpperLevel, data, locals, Result>>

(* Fault: the limit is not a reason to refuse an incomplete size.          *)
RefusedBelowLimit ==
  \/ pc = "size" /\ SizeLength = 0 /\ PossibleSizeLength >= SizeMax
  \/ pc = "created" /\ ~ Accepted(Result, MaxDataSize, AllowDummyElt)

Refused ==
  \/ pc = "size" /\ SizeLength = 0 /\ ~ SizeIncomplete
  \/ pc = "created" /\ ~ Accepted(Result, MaxDataSize, AllowDummyElt)

(* Fault: what was read after the refused ID is forgotten.                 *)
NothingRecovered == 0

(* All the octets of the window but the first one are scanned again.       *)
Recovered == SizeIdx - 1

(* Fault: the level of the refused candidate is kept.                      *)
LevelKept == UpperLevel

RestoredLevel == UpperLevel_original

Reject ==
  /\ Refused
  /\ ReadIndex' = Recovered
  /\ PossibleIdNSize' = ShiftLeft(Recovered)
  /\ IdStart' = IdStart + 1
  /\ UpperLevel' = RestoredLevel
  /\ Result' = NoElement
  /\ pc' = IF MaxDataSize >= ReadSize THEN "id" ELSE "done"
  /\ UNCHANGED <<parameters, data, pos, ReadSize, SizeIdx,
                 PossibleID_Length, PossibleSizeLength>>

Next ==
  \/ IdFound \/ IdRead \/ IdNotFound
  \/ SizeRead \/ SizeEndOfStream \/ SizeFound
  \/ Accept \/ Reject

Spec == Init /\ [][Next]_vars

-----------------------------------------------------------------------------
(***************************************************************************)
(* Properties.                                                             *)
(***************************************************************************)

Candidates ==
  [found : BOOLEAN, dummy : BOOLEAN, level : Int, ID : Seq(Octet),
   coded : Seq(Octet), ElementPosition : Nat, SizePosition : Nat]

(* Every index stays inside PossibleIdNSize: the assertion of line 245 and *)
(* the bounds of every .at(), for any ID and size lengths.  The last three *)
(* steps are those of FindNextID, in the module EbmlStream.                *)
TypeOK ==
  /\ MaxDataSize \in MaxDataSizes /\ AllowDummyElt \in BOOLEAN
  /\ UpperLevel \in Int
  /\ data \in Seq(Alphabet)
  /\ pos \in Nat
  /\ PossibleIdNSize \in [Cell -> Octet \cup {Uninitialised}]
  /\ ReadIndex \in 0 .. IdMax + SizeMax - 1
  /\ ReadSize \in Nat /\ IdStart \in Nat
  /\ SizeIdx \in 0 .. IdMax + SizeMax
  /\ PossibleID_Length \in 0 .. IdMax
  /\ PossibleSizeLength \in 0 .. IdMax + SizeMax
  /\ Result \in Candidates \cup {NoElement}
  /\ pc \in {"id", "size", "created", "done", "nextID", "nextSize", "returned"}

(* The number of octets of the window, by the step the scan is in.         *)
Window == IF pc = "id" THEN ReadIndex ELSE SizeIdx

(* While it scans, the window holds exactly the stream from IdStart to the *)
(* last octet read: no shift loses, repeats or moves an octet, and no cell *)
(* that was never written is looked at.                                    *)
WindowIsStream ==
  pc \in {"id", "size", "created"} =>
    /\ ReadSize = Len(data) /\ pos = ReadSize
    /\ IdStart + Window = ReadSize
    /\ \A k \in 0 .. Window - 1 : PossibleIdNSize[k] = data[IdStart + k + 1]
    /\ pc # "id" => /\ PossibleID_Length + PossibleSizeLength = SizeIdx
                    /\ PossibleID_Length > 0

(* The scan never consumes more than the caller allowed.                   *)
WithinMaxDataSize == Len(data) <= MaxDataSize

(* An acceptable element starts at position p of the octets d.             *)
ElementAt(d, p) ==
  \E n \in 1 .. IdMax, s \in 1 .. SizeMax :
    /\ p + n + s <= Len(d)
    /\ n = MarkedLength(d[p + 1], IdMax)
    /\ s = MarkedLength(d[p + n + 1], SizeMax)
    /\ Accepted(Candidate(Octets(d, p + 1, n), Octets(d, p + n + 1, s), p,
                          AllowDummyElt),
                MaxDataSize, AllowDummyElt)

Found == pc = "done" /\ Result.found

NotFound == pc = "done" /\ ~ Result.found

(* What is returned is the first acceptable element of the stream.         *)
FirstElementFound ==
  Found => /\ ElementAt(data, Result.ElementPosition)
           /\ \A p \in 0 .. Result.ElementPosition - 1 : ~ ElementAt(data, p)

(* When nothing is returned, no acceptable element was read, except in the *)
(* window that was dropped: at most the last IdMax + SizeMax - 1 octets.   *)
NothingMissed ==
  NotFound => \A p \in 0 .. Len(data) - (IdMax + SizeMax) : ~ ElementAt(data, p)

(* The file is left at the first octet of the element's data, the end      *)
(* position computed from the element is where its data really ends, and   *)
(* at this level or below that is inside what the caller allowed.          *)
PlacedAtData ==
  Found =>
    LET end == pos + CodedValue(Result.coded)
    IN  /\ pos = Result.ElementPosition + Len(Result.ID) + Len(Result.coded)
        /\ GetEndPosition(Result) = end
        /\ Result.level <= 0 /\ ~ IsUnknown(Result.coded) => end <= MaxDataSize

(* The caller's level is that of the element returned, and is what it was  *)
(* when nothing is returned, whatever the refused candidates did to it.    *)
LevelOfResult ==
  pc = "done" => UpperLevel = IF Result.found THEN Result.level
                              ELSE UpperLevel_original

(* The octets a size can take, unless more are asked for.                  *)
LongestWritten(length) ==
  IF length > 5 THEN length ELSE IF SizeMax < 5 THEN SizeMax ELSE 5

(* A head written by MakeRenderHead at the position of the scan is found   *)
(* there, with the ID and the size that were written, for every size the   *)
(* octets it may take can hold.                                            *)
WrittenHead(id, size, length) ==
  id \o CodedValueLength(size, CodedSizeLength(size, length, TRUE))

WrittenHeadIsRead ==
  Found => \A id \in Path[1].children, length \in 0 .. SizeMax :
           \A size \in 0 .. AllOnes[LongestWritten(length)] - 1 :
    LET head == WrittenHead(id, size, length)
    IN  /\ Len(head) <= Len(data) /\ SubSeq(data, 1, Len(head)) = head
        /\ Len(head) + size <= MaxDataSize
        /\ SizeIsValid(id, size)
        => /\ Result.ElementPosition = 0 /\ Result.ID = id
           /\ CodedValue(Result.coded) = size /\ pos = Len(head)
=============================================================================
