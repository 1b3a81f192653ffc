--------------------------- MODULE MemIOCallback ---------------------------
(***************************************************************************)
(* MemIOCallback: a stream in a growing buffer.  Positions and sizes are   *)
(* words that wrap, and nothing keeps a caller from seeking behind the     *)
(* data, as EbmlElement::SkipData and EbmlMaster::ReadData do when a size  *)
(* in the data says so, or from setting any size.  A copy from outside the *)
(* buffer, and the use of an octet that it does not have, is undefined: no *)
(* call follows it.                                                        *)
(***************************************************************************)
EXTENDS StreamParameters

VARIABLES dataBuffer, dataBufferPos, dataBufferTotalSize,
          dataBufferMemorySize, returned,
          undefined      (* the program did what C++ does not define        *)

buffer == <<dataBuffer, dataBufferPos, dataBufferTotalSize,
            dataBufferMemorySize>>
memVars == <<buffer, returned, undefined>>

(* The constructor that could allocate.                                    *)
Init ==
  /\ \E DefaultSize \in 0 .. SizeMax :
       /\ dataBuffer = [i \in 1 .. DefaultSize |-> 0]
       /\ dataBufferMemorySize = DefaultSize
  /\ dataBufferPos = 0 /\ dataBufferTotalSize = 0
  /\ returned = NothingReturned /\ undefined = FALSE

Undefined ==
  /\ undefined' = TRUE
  /\ UNCHANGED <<buffer, returned>>

(* Fault, that of version 1.4.3: a sum that wraps is not noticed.          *)
ReadSizeUnchecked(Size) ==
  IF Wrapped(Size + dataBufferPos) > dataBufferTotalSize
  THEN Wrapped(dataBufferTotalSize - dataBufferPos) ELSE Size

(* read: what is left when more is asked for or the sum wraps.  Behind the *)
(* data that difference wraps too.                                         *)
ReadSize(Size) ==
  LET end == Wrapped(Size + dataBufferPos)
  IN  IF end < Size \/ end > dataBufferTotalSize
      THEN Wrapped(dataBufferTotalSize - dataBufferPos) ELSE Size

Read(Size) ==
  LET n == IF Size < 1 THEN 0 ELSE ReadSize(Size)
  IN  IF n > 0 /\ dataBufferPos + n > dataBufferMemorySize THEN Undefined
      ELSE /\ returned' = Answer(Size, SubSeq(dataBuffer, dataBufferPos + 1,
                                              dataBufferPos + n), n)
           /\ dataBufferPos' = dataBufferPos + n
           /\ UNCHANGED <<dataBuffer, dataBufferTotalSize,
                          dataBufferMemorySize, undefined>>

(* setFilePointer.                                                         *)
SetFilePointer(Offset, Mode) ==
  /\ dataBufferPos' =
       Wrapped(Offset + CASE Mode = "seek_beginning" -> 0
                          [] Mode = "seek_current" -> dataBufferPos
                          [] Mode = "seek_end" -> dataBufferTotalSize)
  /\ returned' = NothingReturned
  /\ UNCHANGED <<dataBuffer, dataBufferTotalSize, dataBufferMemorySize,
                 undefined>>

-----------------------------------------------------------------------------
(* A call returns 0 when its sum wraps, and throws when the vector cannot  *)
(* grow: it has fewer than Half octets, and the memory may end before.     *)
(* Both leave everything as it was.                                        *)
End(Size) == dataBufferPos + Size

Refuses(Size) == Wrapped(End(Size)) < Size

Refuse(Size) ==
  /\ Refuses(Size) \/ dataBufferMemorySize < End(Size)
  /\ returned' = Answer(Size, << >>, 0)
  /\ UNCHANGED <<buffer, undefined>>

Grows(Size) == ~ Refuses(Size) /\ Wrapped(End(Size)) < Half

(* The memory after it grew to hold Size octets at the position.           *)
MemoryFor(Size) ==
  IF dataBufferMemorySize < Wrapped(End(Size)) THEN Wrapped(End(Size))
  ELSE dataBufferMemorySize

(* The vector resized where it is too short, and data copied to the        *)
(* position.                                                               *)
CopyTo(data, Size) ==
  [i \in 1 .. (IF dataBufferMemorySize < Wrapped(End(Size))
               THEN Wrapped(End(Size)) ELSE Len(dataBuffer)) |->
     IF i - dataBufferPos \in 1 .. Len(data) THEN data[i - dataBufferPos]
     ELSE IF i \in DOMAIN dataBuffer THEN dataBuffer[i] ELSE 0]

(* Fault: a write in the middle ends the data.                             *)
TotalSizeIsEnd(pos) == pos

TotalSize(pos) == IF pos > dataBufferTotalSize THEN pos ELSE dataBufferTotalSize

Write(data) ==
  \/ Refuse(Len(data))
  \/ /\ Grows(Len(data))
     /\ dataBufferMemorySize' = MemoryFor(Len(data))
     /\ dataBuffer' = CopyTo(data, Len(data))
     /\ dataBufferPos' = Wrapped(End(Len(data)))
     /\ dataBufferTotalSize' = TotalSize(dataBufferPos')
     /\ returned' = Answer(Len(data), << >>, Len(data))
     /\ UNCHANGED undefined

(* write(IOToRead): readFully gave the octets, all that were asked for or  *)
(* fewer, in which case it throws.  The size is what was copied, wherever  *)
(* it was copied to; the position stays; what is returned is the size as a *)
(* number of 32 bits.  Nothing copied to the end of the memory uses an     *)
(* octet that is not there.                                                *)
WriteFrom(octets, Size) ==
  /\ Grows(Size)
  /\ IF dataBufferPos = MemoryFor(Size) THEN Undefined
     ELSE /\ dataBufferMemorySize' = MemoryFor(Size)
          /\ dataBuffer' = CopyTo(octets, Size)
          /\ IF Len(octets) = Size
             THEN /\ dataBufferTotalSize' = Size
                  /\ returned' = Answer(Size, << >>, Size % Narrow)
             ELSE /\ UNCHANGED dataBufferTotalSize
                  /\ returned' = Answer(Size, << >>, 0)
          /\ UNCHANGED <<dataBufferPos, undefined>>

SetDataBufferSize(newDataBufferSize) ==
  /\ dataBufferTotalSize' = newDataBufferSize
  /\ returned' = NothingReturned
  /\ UNCHANGED <<dataBuffer, dataBufferPos, dataBufferMemorySize, undefined>>

Next ==
  /\ ~ undefined
  /\ \/ \E Size \in Size_t : Read(Size) \/ SetDataBufferSize(Size)
     \/ \E Offset \in Offsets,
           Mode \in {"seek_beginning", "seek_current", "seek_end"} :
           SetFilePointer(Offset, Mode)
     \/ \E data \in Data : Write(data)
     \/ \E octets \in Data : \E Size \in Len(octets) .. SizeMax :
           WriteFrom(octets, Size) \/ Refuse(Size)

Spec == Init /\ [][Next]_memVars

-----------------------------------------------------------------------------
(* The indices are words, and the buffer is as long as it says, although   *)
(* it only says so where it grows.                                         *)
TypeOK ==
  /\ dataBuffer \in Seq(Octet) /\ Len(dataBuffer) = dataBufferMemorySize
  /\ dataBufferMemorySize < Half
  /\ dataBufferPos \in Size_t
  /\ dataBufferTotalSize \in Size_t
  /\ returned.asked \in Size_t /\ returned.count \in Size_t
  /\ returned.octets \in Seq(Octet)
  /\ undefined \in BOOLEAN

Inside ==
  /\ dataBufferPos <= dataBufferTotalSize
  /\ dataBufferTotalSize <= dataBufferMemorySize

(* A buffer whose position is within its data, and the data within the     *)
(* memory, copies nothing from or to outside of it, whatever the size      *)
(* asked for; and only a caller takes it out of this state: by a seek, by  *)
(* setting another size, or by filling it from another stream with fewer   *)
(* octets than lie before the position.                                    *)
KeepsInside ==
  Inside =>
    /\ undefined' => undefined \/ dataBufferPos = dataBufferMemorySize
    /\ \/ Inside'
       \/ \E n \in Size_t : SetDataBufferSize(n)
       \/ \E Offset \in Offsets,
             Mode \in {"seek_beginning", "seek_current", "seek_end"} :
             SetFilePointer(Offset, Mode)
       \/ dataBufferPos' = dataBufferPos /\ dataBufferTotalSize' < dataBufferPos

StaysInside == [][KeepsInside]_memVars

(* What GetDataBuffer and GetDataBufferSize give; of a size that was set   *)
(* too large, the octets that are missing have the value they will get.    *)
Content ==
  [i \in 1 .. dataBufferTotalSize |->
     IF i \in DOMAIN dataBuffer THEN dataBuffer[i] ELSE 0]

Stream == INSTANCE ByteStream
  WITH content <- Content, position <- dataBufferPos

(* The buffer is a stream: what it does is what IOCallback promises, also  *)
(* after a seek behind the data, as long as it does something defined.     *)
IsStream == Stream!Spec
=============================================================================
