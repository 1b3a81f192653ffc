------------------------- MODULE SafeReadIOCallback -------------------------
(***************************************************************************)
(* SafeReadIOCallback: a reader that throws when it cannot do what it is   *)
(* asked.  A program that has a buffer and a file (the module StreamCopy)  *)
(* ends by giving one of them to a reader: a view of the buffer's data, of *)
(* which the reader makes a MemReadIOCallback, or the file itself, which   *)
(* the reader then owns.                                                   *)
(***************************************************************************)
EXTENDS StreamCopy

(* A call can ask for one octet: GetUIntBE never asks for fewer.           *)
ASSUME ReaderAssumption == SizeMax > 0

VARIABLES
  over,            (* the stream the reader has: "view" or "file"; "none"  *)
                   (* and, over a view that no reader has yet, "open"      *)
  view, mPtr, viewReturned,
  mSize,           (* the size that was found when the reader was made     *)
  outcome          (* of the last call: what was asked, and what happened  *)

View == INSTANCE MemReadIOCallback WITH returned <- viewReturned

viewVars == <<view, mPtr, viewReturned>>
readerVars == <<over, viewVars, mSize, outcome>>

Outcome(call, target, octets, thrown, missing) ==
  [call |-> call, target |-> target, octets |-> octets, thrown |-> thrown,
   missing |-> missing]

NoOutcome == Outcome("none", 0, << >>, FALSE, 0)

ReaderInit ==
  /\ Init /\ View!Init
  /\ over = "none" /\ mSize = 0 /\ outcome = NoOutcome

-----------------------------------------------------------------------------
(* A view of the buffer's data, which is in its memory, or the copy of one *)
(* that was read up to `from`.  It can be used by itself, before a reader  *)
(* gets it.                                                                *)
MakeView(from) ==
  /\ over = "none" /\ over' = "open" /\ ~ undefined
  /\ dataBufferTotalSize <= dataBufferMemorySize
  /\ from <= dataBufferTotalSize
  /\ View!Open(SubSeq(Mem!Content, from + 1, Len(Mem!Content)))
  /\ UNCHANGED <<vars, mSize, outcome>>

UseView ==
  /\ over = "open"
  /\ \/ \E Size \in Size_t : View!Read(Size)
     \/ \E Offset \in Offsets,
           Mode \in {"seek_beginning", "seek_current", "seek_end"} :
           View!SetFilePointer(Offset, Mode)
  /\ UNCHANGED <<vars, over, mSize, outcome>>

(* Init of the class seeks to the end, asks for the position, and seeks    *)
(* back.                                                                   *)
MakeOverView ==
  /\ over = "open" /\ over' = "view"
  /\ mSize' = Len(view)
  /\ UNCHANGED <<vars, viewVars, outcome>>

MakeOverFile ==
  /\ over = "none" /\ over' = "file" /\ ~ undefined
  /\ Std!SetFilePointer(mCurrentPosition, "SEEK_SET")
  /\ mSize' = Len(File)
  /\ UNCHANGED <<memVars, viewVars, outcome>>

Position == IF over = "view" THEN mPtr ELSE mCurrentPosition

GetRemainingBytes == Wrapped(mSize - Position)

(* The calls of the stream that is read.                                   *)
ReadStream(Size) ==
  /\ over \in {"view", "file"} /\ UNCHANGED <<over, mSize, memVars>>
  /\ IF over = "view" THEN View!Read(Size) /\ UNCHANGED stdVars
     ELSE Std!Read(Size) /\ UNCHANGED viewVars

SeekStream(Offset, viewMode, fileMode) ==
  /\ over \in {"view", "file"} /\ UNCHANGED <<over, mSize, memVars>>
  /\ IF over = "view" THEN View!SetFilePointer(Offset, viewMode) /\ UNCHANGED stdVars
     ELSE /\ Std!SetFilePointer(Offset, fileMode) \/ Std!SeekFails(Offset, fileMode)
          /\ UNCHANGED viewVars

(* The file threw, before the reader could look at the position.           *)
FileThrew(Offset, fileMode) == over = "file" /\ Std!SeekFails(Offset, fileMode)

Given == IF over = "view" THEN viewReturned ELSE fileReturned

(* Fault: fewer octets than were asked for are accepted.                   *)
TooFewUnlessNone(count, Count) == count = 0 /\ Count > 0

TooFew(count, Count) == count # Count

Read(Count) ==
  /\ ReadStream(Count)
  /\ outcome' = LET NumRead == Given'.count
                IN  Outcome("Read", Position + Count, Given'.octets,
                            TooFew(NumRead, Count), Count - NumRead)

(* GetUIntBE reads one octet at least and eight, SizeMax here, at most.    *)
Clamp(NumBytes) ==
  IF NumBytes < 1 THEN 1 ELSE IF NumBytes > SizeMax THEN SizeMax ELSE NumBytes

GetUIntBE(NumBytes) == Read(Clamp(NumBytes))

(* The stream is moved by the signed number that Count is read as, and     *)
(* whether it got there is told from the position it leaves, a signed      *)
(* number as well.  So a Count of Half or more goes back.                  *)
Skip(Count) ==
  LET ExpectedPosition == Signed(Wrapped(Position + Count))
  IN  /\ SeekStream(Signed(Count), "seek_current", "SEEK_CUR")
      /\ outcome' =
           IF FileThrew(Signed(Count), "SEEK_CUR")
           THEN Outcome("Skip", Position + Signed(Count), << >>, TRUE, 0)
           ELSE Outcome("Skip", Position + Signed(Count), << >>,
                        Position' # ExpectedPosition,
                        Wrapped(ExpectedPosition - Position'))

(* The missing octets are subtracted the other way round, and Where is     *)
(* compared as the unsigned number it is.                                  *)
Seek(Where) ==
  /\ SeekStream(Signed(Where), "seek_beginning", "SEEK_SET")
  /\ outcome' = IF FileThrew(Signed(Where), "SEEK_SET")
                THEN Outcome("Seek", Where, << >>, TRUE, 0)
                ELSE Outcome("Seek", Where, << >>, Position' # Where,
                             Wrapped(Position' - Where))

UseReader ==
  \/ \E from \in 0 .. SizeMax : MakeView(from)
  \/ UseView \/ MakeOverView \/ MakeOverFile
  \/ \E n \in Size_t : Read(n) \/ GetUIntBE(n) \/ Skip(n) \/ Seek(n)

ReaderNext ==
  \/ over = "none" /\ Next /\ UNCHANGED readerVars
  \/ UseReader

ReaderSpec == ReaderInit /\ [][ReaderNext]_<<vars, readerVars>>

-----------------------------------------------------------------------------
(* A view, which clamps every position, keeps what IOCallback promises of  *)
(* a stream, whatever the reader asks of it.                               *)
ViewIsStream == View!IsStream

Source == IF over = "view" THEN view ELSE File

(* A call throws when, and only when, it did not get to where it was asked *)
(* to, and what was read is what lies before the position.  Over a view    *)
(* that is a target outside of it: the position is at the nearest end, or, *)
(* when the target is no signed word, at the beginning if that is what it  *)
(* wraps to.  The number of missing octets is the distance from there to   *)
(* the target, or for Seek its complement.                                 *)
AsAsked ==
  LET o == outcome
  IN  o.call # "none" =>
        /\ o.thrown <=> Position # o.target
        /\ o.call = "Read" =>
             o.octets = SubSeq(Source, Position - Len(o.octets) + 1, Position)
        /\ over = "view" =>
             /\ Position + GetRemainingBytes = mSize
             /\ o.thrown <=> o.target \notin 0 .. mSize
             /\ o.thrown =>
                  /\ \/ Position = mSize /\ o.target > mSize
                     \/ Position = 0 /\ o.target \notin 0 .. Half - 1
                  /\ o.missing = Wrapped(IF o.call = "Seek"
                                         THEN Position - o.target
                                         ELSE o.target - Position)

ReaderDoesAsAsked == [][AsAsked']_<<vars, readerVars>>
=============================================================================
