--------------------------- MODULE StdIOCallback ---------------------------
(***************************************************************************)
(* StdIOCallback: a stream over a stdio file.  The class keeps a position  *)
(* of its own and never asks the file for its position but after a seek    *)
(* from the end.  The file itself, File and filePosition, is that of the C *)
(* library: a write may be short, as on a full disk, and one after the end *)
(* leaves zeros.                                                           *)
(*                                                                         *)
(* As C requires of a file opened for reading and writing, callers seek    *)
(* between a write and a read.                                             *)
(***************************************************************************)
EXTENDS StreamParameters

VARIABLES
  File,             (* the octets of the file                               *)
  filePosition,     (* what ftell would tell                                *)
  transfer,         (* what was done since the last seek: the direction     *)
  mode,             (* the mode it was opened in, "closed" after close      *)
  mCurrentPosition,
  returned

stdVars == <<File, filePosition, transfer, mode, mCurrentPosition, returned>>

(* The constructor: fopen empties a file that is written or created.       *)
Init ==
  /\ mode \in Modes
  /\ File \in IF mode \in {"MODE_WRITE", "MODE_CREATE"} THEN {<< >>}
              ELSE UNION {[1 .. n -> Octet] : n \in 0 .. FileMax}
  /\ filePosition = 0 /\ mCurrentPosition = 0
  /\ transfer = "none"
  /\ returned = NothingReturned

(* fread: 0 when the file was not opened for reading.                      *)
Fread(Size) ==
  IF mode = "MODE_WRITE" \/ filePosition >= Len(File) THEN 0
  ELSE IF filePosition + Size > Len(File) THEN Len(File) - filePosition ELSE Size

(* Fault: the position advances by what was asked for.                     *)
AdvancedByAll(asked, count) == mCurrentPosition + asked

Advanced(asked, count) == mCurrentPosition + count

Read(Size) ==
  /\ mode # "closed" /\ transfer # "write"
  /\ LET result == Fread(Size)
     IN  /\ filePosition' = filePosition + result
         /\ mCurrentPosition' = Advanced(Size, result)
         /\ returned' = Answer(Size, SubSeq(File, filePosition + 1,
                                            filePosition + result), result)
  /\ transfer' = "read"
  /\ UNCHANGED <<File, mode>>

(* setFilePointer; fseek fails at a place that is not a signed word, and   *)
(* the exception leaves everything as it was.                              *)
Target(Offset, Mode) ==
  Offset + CASE Mode = "SEEK_SET" -> 0
             [] Mode = "SEEK_CUR" -> filePosition
             [] Mode = "SEEK_END" -> Len(File)

SeekFails(Offset, Mode) ==
  /\ mode # "closed"
  /\ Target(Offset, Mode) \notin 0 .. Half - 1
  /\ UNCHANGED stdVars

SetFilePointer(Offset, Mode) ==
  /\ mode # "closed"
  /\ Target(Offset, Mode) \in 0 .. FileMax
  /\ filePosition' = Target(Offset, Mode)
  /\ mCurrentPosition' = CASE Mode = "SEEK_SET" -> Offset
                           [] Mode = "SEEK_CUR" -> mCurrentPosition + Offset
                           [] Mode = "SEEK_END" -> filePosition'
  /\ transfer' = "none"
  /\ returned' = NothingReturned
  /\ UNCHANGED <<File, mode>>

(* fwrite: as many of the octets as there is room for.                     *)
Fwritten(data) ==
  [i \in 1 .. (IF filePosition + Len(data) > Len(File)
               THEN filePosition + Len(data) ELSE Len(File)) |->
     IF i - filePosition \in 1 .. Len(data) THEN data[i - filePosition]
     ELSE IF i <= Len(File) THEN File[i] ELSE 0]

Write(data) ==
  /\ mode # "closed" /\ transfer # "read"
  /\ \E Result \in 0 .. Len(data) :
       /\ mode = "MODE_READ" => Result = 0
       /\ filePosition + Result <= FileMax
       /\ File' = IF Result = 0 THEN File ELSE Fwritten(SubSeq(data, 1, Result))
       /\ filePosition' = filePosition + Result
       /\ mCurrentPosition' = Advanced(Len(data), Result)
       /\ returned' = Answer(Len(data), << >>, Result)
  /\ transfer' = "write"
  /\ UNCHANGED mode

(* close; a failing fclose throws before File is reset, and the file is    *)
(* closed again by the destructor: only the success is here.               *)
Close ==
  /\ mode # "closed"
  /\ mode' = "closed"
  /\ UNCHANGED <<File, filePosition, transfer, mCurrentPosition, returned>>

Next ==
  \/ \E Size \in Size_t : Read(Size)
  \/ \E Offset \in Offsets, Mode \in {"SEEK_SET", "SEEK_CUR", "SEEK_END"} :
        SetFilePointer(Offset, Mode) \/ SeekFails(Offset, Mode)
  \/ \E data \in Data : Write(data)
  \/ Close

Spec == Init /\ [][Next]_stdVars

-----------------------------------------------------------------------------
TypeOK ==
  /\ File \in Seq(Octet) /\ Len(File) <= FileMax
  /\ filePosition \in 0 .. FileMax
  /\ mCurrentPosition \in Nat
  /\ transfer \in {"none", "read", "write"}
  /\ mode \in Modes \cup {"closed"}
  /\ returned.asked \in Size_t /\ returned.count \in Size_t
  /\ returned.octets \in Seq(Octet)

Stream == INSTANCE ByteStream
  WITH content <- File, position <- mCurrentPosition

(* The file is a stream at the position the class keeps, although it only  *)
(* adds up what the calls returned.                                        *)
IsStream == Stream!Spec
=============================================================================
