------------------------- MODULE MemReadIOCallback -------------------------
(***************************************************************************)
(* MemReadIOCallback: octets of another owner, read only.  A position is   *)
(* moved to the nearest one inside, and nothing can be written.            *)
(***************************************************************************)
EXTENDS StreamParameters

VARIABLES view, mPtr, returned

viewVars == <<view, mPtr, returned>>

(* Not opened yet: an empty stream.                                        *)
Init == view = << >> /\ mPtr = 0 /\ returned = NothingReturned

(* The constructor over some memory.  The copy of another view starts at   *)
(* the position of that one and ends with it, which is a view of the rest. *)
Open(memory) ==
  /\ view' = memory
  /\ mPtr' = 0
  /\ returned' = NothingReturned

RemainingBytes == Len(view) - mPtr

ReadSize(Size) == IF RemainingBytes < Size THEN RemainingBytes ELSE Size

Read(Size) ==
  /\ LET n == ReadSize(Size)
     IN  /\ returned' = Answer(Size, SubSeq(view, mPtr + 1, mPtr + n), n)
         /\ mPtr' = mPtr + n
  /\ UNCHANGED view

(* Fault: a position before the beginning is not moved.                    *)
ClampedAbove(n) == IF n > Len(view) THEN Len(view) ELSE n

Clamped(n) == IF n < 0 THEN 0 ELSE IF n > Len(view) THEN Len(view) ELSE n

(* The sum of two signed words; one that overflows is not defined by C++:  *)
(* it wraps, or the compiler reckons with the number that does not fit.    *)
SignedSum(a, b) == {a + b} \cup IF a + b >= Half THEN {a + b - Word} ELSE {}

SetFilePointer(Offset, Mode) ==
  /\ \E NewPosition \in
        SignedSum(CASE Mode = "seek_beginning" -> 0
                    [] Mode = "seek_end" -> Len(view)
                    [] Mode = "seek_current" -> mPtr, Offset) :
        mPtr' = Clamped(NewPosition)
  /\ returned' = NothingReturned
  /\ UNCHANGED view

Stream == INSTANCE ByteStream WITH content <- view, position <- mPtr

(* A view keeps what IOCallback promises of a stream.                      *)
IsStream == Stream!Spec
=============================================================================
