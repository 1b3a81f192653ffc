---------------------------- MODULE MCStreamCopy ----------------------------
(***************************************************************************)
(* Words of six values, three of them without a sign: sums of two sizes    *)
(* wrap, and sizes become negative.  What the last calls gave is not part  *)
(* of the view: no call depends on it, and every step is checked against   *)
(* the promise when it is taken.  Once a reader is made over one of the    *)
(* streams, the other does not change and is not looked at again; nor is   *)
(* anything after what is not defined.                                     *)
(***************************************************************************)
EXTENDS SafeReadIOCallback

MemState == <<dataBuffer, dataBufferPos, dataBufferTotalSize,
              dataBufferMemorySize, undefined>>
FileState == <<File, filePosition, transfer, mode, mCurrentPosition>>

MCView == <<over, mSize,
            CASE over = "none" -> IF undefined THEN << >> ELSE <<MemState, FileState>>
              [] over \in {"open", "view"} -> <<view, mPtr>>
              [] over = "file" -> FileState>>
=============================================================================
