----------------------------- MODULE StreamCopy -----------------------------
(***************************************************************************)
(* A file and a buffer in memory, both streams, and the copy from the one  *)
(* to the other: MemIOCallback::write(IOCallback &, size) reads with       *)
(* readFully, which fails when the file ends first.                        *)
(***************************************************************************)
EXTENDS StreamParameters

VARIABLES
  dataBuffer, dataBufferPos, dataBufferTotalSize, dataBufferMemorySize,
  memReturned, undefined,
  File, filePosition, transfer, mode, mCurrentPosition, fileReturned

Mem == INSTANCE MemIOCallback WITH returned <- memReturned
Std == INSTANCE StdIOCallback WITH returned <- fileReturned

memVars == <<dataBuffer, dataBufferPos, dataBufferTotalSize,
             dataBufferMemorySize, memReturned, undefined>>
stdVars == <<File, filePosition, transfer, mode, mCurrentPosition,
             fileReturned>>
vars == <<memVars, stdVars>>

Init == Mem!Init /\ Std!Init

(* readFully reads by chunks, of which there is none for no octet, until   *)
(* one is short: what it leaves is what one reading of all of it leaves.   *)
ReadFully(Size) ==
  IF Size = 0 THEN UNCHANGED stdVars ELSE Std!Read(Size)

(* Without memory there is nothing to read to, and nothing is read.        *)
Copy(Size) ==
  \/ Mem!Refuse(Size) /\ UNCHANGED stdVars
  \/ /\ Mem!Grows(Size)
     /\ ReadFully(Size)
     /\ Mem!WriteFrom(IF Size = 0 THEN << >> ELSE fileReturned'.octets, Size)

OnFile ==
  /\ \/ \E Size \in Size_t : Std!Read(Size)
     \/ \E Offset \in Offsets, Mode \in {"SEEK_SET", "SEEK_CUR", "SEEK_END"} :
           Std!SetFilePointer(Offset, Mode) \/ Std!SeekFails(Offset, Mode)
     \/ \E data \in Data : Std!Write(data)
     \/ Std!Close
  /\ UNCHANGED memVars

OnMemory ==
  /\ \/ \E Size \in Size_t : Mem!Read(Size) \/ Mem!SetDataBufferSize(Size)
     \/ \E Offset \in Offsets,
           Mode \in {"seek_beginning", "seek_current", "seek_end"} :
           Mem!SetFilePointer(Offset, Mode)
     \/ \E data \in Data : Mem!Write(data)
  /\ UNCHANGED stdVars

Next ==
  /\ ~ undefined
  /\ OnFile \/ OnMemory \/ \E Size \in 0 .. SizeMax : Copy(Size)

Spec == Init /\ [][Next]_vars

-----------------------------------------------------------------------------
(* The buffer's words are words, although their sums wrap, it is as long   *)
(* as it says, and the file is within its bound.                           *)
TypeOK == Mem!TypeOK /\ Std!TypeOK

(* Filled from a file or written to, a buffer whose position is within its *)
(* data copies nothing from or to outside of it, and is taken out of that  *)
(* state by nothing but a caller's seek or size, or by filling it before   *)
(* its position.                                                           *)
BufferStaysInside == Mem!StaysInside

(* Both classes keep what IOCallback promises of a stream, whatever is     *)
(* done with the other.                                                    *)
MemoryIsStream == Mem!IsStream
FileIsStream == Std!IsStream
=============================================================================
