----------------------------- MODULE EbmlStream -----------------------------
(***************************************************************************)
(* What a program reads from an EbmlStream: the next element of a context, *)
(* by FindNextElement, or the element of one class, by FindNextID, which   *)
(* reads a single head at the file pointer and scans nothing.  Both run to *)
(* their return.                                                           *)
(*                                                                         *)
(* FindNextID does not look at what the reading of a size's octet returns: *)
(* after the end of the stream it decodes what the array held, any octet.  *)
(***************************************************************************)
EXTENDS FindElement

CONSTANTS
  ClassIds,     (* The classes that are asked for.                          *)
  Scan,         (* The call is of FindNextElement.                          *)
  DummySizeMax  (* A dummy element is smaller: 0x7FFFFFFF.                  *)

ASSUME ClassAssumption ==
  ClassIds \subseteq Seq(Octet) /\ Scan \notin ClassIds /\ DummySizeMax \in Nat

VARIABLES
  ClassInfos,   (* the class asked for, or Scan                             *)
  PossibleSize, (* the octets of the size, as far as they were set          *)
  ended         (* history: an octet of the size could not be read          *)

streamVars == <<vars, ClassInfos, PossibleSize, ended>>

StreamInit ==
  /\ ClassInfos \in ClassIds \cup {Scan}
  /\ PossibleSize = << >>
  /\ ended = FALSE
  /\ IF ClassInfos = Scan THEN Init ELSE Called("nextID")

ScanVars == <<parameters, UpperLevel, PossibleIdNSize, ReadIndex, ReadSize,
              IdStart, SizeIdx, ClassInfos>>

(* One octet of the stream, appended to what was read.                     *)
OctetIs(o) == Len(data) < StreamMax /\ data' = Append(data, o) /\ pos' = pos + 1

-----------------------------------------------------------------------------
(* The ID: octets up to the length its first one announces.                *)
NextIdRead ==
  /\ pc = "nextID" /\ PossibleID_Length < IdMax
  /\ \E o \in Alphabet : OctetIs(o)
  /\ PossibleID_Length' = PossibleID_Length + 1
  /\ pc' = IF MarkedLength(data'[1], PossibleID_Length') > 0
           THEN "nextSize" ELSE "nextID"
  /\ UNCHANGED <<ScanVars, PossibleSizeLength, PossibleSize, ended, Result>>

(* There is no more data, or no ID.                                        *)
NextIdNotFound ==
  /\ pc = "nextID"
  /\ pc' = "returned"
  /\ UNCHANGED <<ScanVars, data, pos, PossibleID_Length, PossibleSizeLength,
                 PossibleSize, ended, Result>>

NextSizeIncomplete == pc = "nextSize" /\ CodedLength(PossibleSize) = 0

(* One more octet of the size, from the stream or, at its end, whatever    *)
(* the array holds.                                                        *)
NextSizeRead ==
  /\ NextSizeIncomplete /\ PossibleSizeLength < SizeMax
  /\ \/ /\ ~ ended /\ UNCHANGED ended
        /\ \E o \in Alphabet :
             OctetIs(o) /\ PossibleSize' = Append(PossibleSize, o)
     \/ /\ ended' = TRUE
        /\ \E o \in Octet : PossibleSize' = Append(PossibleSize, o)
        /\ UNCHANGED <<data, pos>>
  /\ PossibleSizeLength' = PossibleSizeLength + 1
  /\ UNCHANGED <<ScanVars, PossibleID_Length, Result, pc>>

NextSizeTooLong ==
  /\ NextSizeIncomplete /\ PossibleSizeLength >= SizeMax
  /\ pc' = "returned"
  /\ UNCHANGED <<ScanVars, data, pos, PossibleID_Length, PossibleSizeLength,
                 PossibleSize, ended, Result>>

(* Fault: the unknown size is allowed to every class.                      *)
NextAcceptedUnknown(id, Size, unknown) ==
  IF id # ClassInfos THEN ~ unknown /\ Size < DummySizeMax
  ELSE /\ unknown \/ Size <= MaxDataSize
       /\ SizeIsValid(id, Size)

(* Another class is returned as a dummy element, whatever its size; the    *)
(* class itself when its size is allowed.                                  *)
NextAccepted(id, Size, unknown) ==
  IF id # ClassInfos THEN ~ unknown /\ Size < DummySizeMax
  ELSE /\ unknown \/ Size <= MaxDataSize
       /\ unknown => id \in CanHaveInfiniteSize
       /\ SizeIsValid(id, Size)

NextReturned ==
  /\ pc = "nextSize" /\ CodedLength(PossibleSize) > 0
  /\ LET id == SubSeq(data, 1, PossibleID_Length)
         head == [found |-> TRUE, dummy |-> id # ClassInfos, level |-> 0,
                  ID |-> id, coded |-> PossibleSize, ElementPosition |-> 0,
                  SizePosition |-> PossibleID_Length]
     IN  Result' = IF NextAccepted(id, CodedValue(PossibleSize),
                                   IsUnknown(PossibleSize))
                   THEN head ELSE NoElement
  /\ pc' = "returned"
  /\ UNCHANGED <<ScanVars, data, pos, PossibleID_Length, PossibleSizeLength,
                 PossibleSize, ended>>

FindNextID ==
  NextIdRead \/ NextIdNotFound \/ NextSizeRead \/ NextSizeTooLong \/ NextReturned

FindNextElement == Next /\ UNCHANGED <<ClassInfos, PossibleSize, ended>>

StreamNext == FindNextElement \/ FindNextID

StreamSpec == StreamInit /\ [][StreamNext]_streamVars /\ WF_streamVars(StreamNext)

-----------------------------------------------------------------------------
(* The octets d begin with those of head.                                  *)
Begins(d, head) == Len(head) <= Len(d) /\ SubSeq(d, 1, Len(head)) = head

ClassFound == Result.found /\ ~ Result.dummy

(* The two ways to read a head agree on it, when it is in the stream: what *)
(* FindNextID returns lies at the file pointer and leaves the pointer at   *)
(* its data, and for a class of the context with room for it, it returns   *)
(* an element exactly when the scan would return that one first.           *)
HeadsAgree ==
  pc = "returned" /\ ~ ended =>
    /\ Result.found => /\ pos = DataStart(Result)
                       /\ Result.ID \o Result.coded = data
    /\ ClassFound /\ Result.ID \in Path[1].children
       /\ pos + CodedValue(Result.coded) <= MaxDataSize
         => ElementAt(data, 0)
    /\ ClassInfos \in Path[1].children /\ Begins(data, ClassInfos)
       /\ MaxDataSize > 0 /\ ElementAt(data, 0)
         => ClassFound

(* Either call ends.                                                       *)
Terminates == <>(pc \in {"done", "returned"})
=============================================================================
