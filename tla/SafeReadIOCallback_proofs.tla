--------------------- MODULE SafeReadIOCallback_proofs ---------------------
(***************************************************************************)
(* The file is a stream, and so is the buffer it is copied to, whatever is *)
(* done with either, as long as it is defined; and what makes the buffer   *)
(* leave its data is named.  A view of the buffer is a stream too, and the *)
(* reader over it, or over the file, throws exactly when it does not get   *)
(* to where it was asked to.                                               *)
(***************************************************************************)
EXTENDS SafeReadIOCallback, SequenceTheorems, TLAPS

-----------------------------------------------------------------------------
(***************************************************************************)
(* The buffer alone, for every width of its words and every size and       *)
(* offset of its calls: positions behind the data, sizes that were set and *)
(* sums that wrap included.                                                *)
(***************************************************************************)

(* What the assumptions say of the constants, also as each instance has    *)
(* them.                                                                   *)
LEMMA WordFacts ==
  /\ Half \in Nat \ {0} /\ SizeMax \in Nat /\ SizeMax < Half
  /\ Word = 2 * Half /\ Word \in Nat /\ Mem!Word = Word
  /\ Size_t = 0 .. Word - 1 /\ Mem!Size_t = Size_t
  /\ \A n : Mem!Wrapped(n) = Wrapped(n)
  /\ 0 \in Octet
BY WordAssumption, OctetAssumption
   DEF Word, Mem!Word, Size_t, Mem!Size_t, Wrapped, Mem!Wrapped

(* A sum of two words, or a difference, wraps once at most.                *)
LEMMA WrappedIsWord ==
  ASSUME NEW n \in Int, - Word <= n, n < 2 * Word
  PROVE  /\ Wrapped(n) \in Size_t
         /\ n \in Size_t => Wrapped(n) = n
         /\ n < 0 => Wrapped(n) = n + Word
         /\ n >= Word => Wrapped(n) = n - Word
BY WordFacts DEF Wrapped

(* The size as a number of 32 bits is a number, and a word.                *)
LEMMA NarrowFacts ==
  ASSUME NEW Size \in Nat
  PROVE  Size % Narrow \in Size_t
<1>1. Narrow \in Nat /\ Narrow > 0 /\ Narrow <= Word
  BY WordFacts, WordAssumption
<1>2. Size % Narrow \in 0 .. Narrow - 1
  BY <1>1
<1>. QED
  BY <1>1, <1>2, WordFacts

(* What is given to a write is a sequence of octets, no longer than the    *)
(* bound.                                                                  *)
LEMMA DataFacts ==
  ASSUME NEW data \in Mem!Data
  PROVE  /\ data \in Seq(Octet)
         /\ Len(data) \in 0 .. SizeMax
         /\ Len(data) \in Size_t
         /\ DOMAIN data = 1 .. Len(data)
         /\ \A i \in 1 .. Len(data) : data[i] \in Octet
<1>1. PICK n \in 0 .. SizeMax : data \in [1 .. n -> Octet]
  BY DEF Mem!Data
<1>2. n \in Nat
  BY WordFacts
<1>3. data \in Seq(Octet) /\ Len(data) = n /\ DOMAIN data = 1 .. n
  BY <1>1, <1>2
<1>. QED
  BY <1>1, <1>2, <1>3, WordFacts

(* What the type invariant says, with the numbers it is about.             *)
LEMMA BufferFacts ==
  ASSUME Mem!TypeOK
  PROVE  /\ dataBuffer \in Seq(Octet)
         /\ DOMAIN dataBuffer = 1 .. dataBufferMemorySize
         /\ Len(dataBuffer) = dataBufferMemorySize
         /\ dataBufferMemorySize \in Nat /\ dataBufferMemorySize < Half
         /\ dataBufferPos \in Nat /\ dataBufferPos < Word
         /\ dataBufferTotalSize \in Nat /\ dataBufferTotalSize < Word
         /\ \A i \in 1 .. dataBufferMemorySize : dataBuffer[i] \in Octet
BY WordFacts DEF Mem!TypeOK

(* The content is as long as the data is said to be, and made of octets.   *)
LEMMA ContentFacts ==
  ASSUME Mem!TypeOK
  PROVE  /\ Mem!Content \in Seq(Octet)
         /\ Len(Mem!Content) = dataBufferTotalSize
         /\ DOMAIN Mem!Content = 1 .. dataBufferTotalSize
         /\ \A i \in 1 .. dataBufferTotalSize :
              Mem!Content[i] = IF i \in DOMAIN dataBuffer THEN dataBuffer[i] ELSE 0
<1>1. /\ dataBufferTotalSize \in Nat
      /\ \A i \in DOMAIN dataBuffer : dataBuffer[i] \in Octet
  BY BufferFacts
<1>2. \A i \in 1 .. dataBufferTotalSize :
        (IF i \in DOMAIN dataBuffer THEN dataBuffer[i] ELSE 0) \in Octet
  BY <1>1, WordFacts
<1>. QED
  BY <1>1, <1>2 DEF Mem!Content

-----------------------------------------------------------------------------
(* A new buffer has the type.                                              *)
LEMMA BufferAloneInit == Mem!Init => Mem!TypeOK
<1>1. SUFFICES ASSUME Mem!Init PROVE Mem!TypeOK
  OBVIOUS
<1>2. PICK n \in 0 .. SizeMax :
        dataBuffer = [i \in 1 .. n |-> 0] /\ dataBufferMemorySize = n
  BY <1>1 DEF Mem!Init
<1>3. /\ dataBuffer \in Seq(Octet) /\ Len(dataBuffer) = n
      /\ dataBufferMemorySize = n /\ n < Half
  BY <1>2, WordFacts
<1>4. /\ dataBufferPos = 0 /\ dataBufferTotalSize = 0 /\ undefined = FALSE
      /\ memReturned.asked = 0 /\ memReturned.octets = << >>
      /\ memReturned.count = 0
  BY <1>1 DEF Mem!Init, Mem!NothingReturned, Mem!Answer
<1>5. 0 \in Mem!Size_t /\ << >> \in Seq(Octet)
  BY WordFacts
<1>. QED
  BY <1>3, <1>4, <1>5 DEF Mem!TypeOK

(* The octets a read that is defined is to give.                           *)
ToRead(Size) == IF Size < 1 THEN 0 ELSE Mem!ReadSize(Size)

(* What it gives: what there is, up to Size; a position behind the data    *)
(* makes it more than the memory has.                                      *)
LEMMA ReadSizeFacts ==
  ASSUME Mem!TypeOK, NEW Size \in Size_t
  PROVE  /\ ToRead(Size) \in Size_t
         /\ dataBufferPos <= dataBufferTotalSize =>
              /\ dataBufferPos + ToRead(Size) <= dataBufferTotalSize
              /\ ToRead(Size) = IF dataBufferPos + Size <= dataBufferTotalSize
                                THEN Size ELSE dataBufferTotalSize - dataBufferPos
         /\ dataBufferPos > dataBufferTotalSize /\ Size > 0 =>
              /\ ToRead(Size) > 0
              /\ dataBufferPos + ToRead(Size) > dataBufferMemorySize
<1>1. /\ dataBufferPos \in Nat /\ dataBufferPos < Word
      /\ dataBufferTotalSize \in Nat /\ dataBufferTotalSize < Word
      /\ dataBufferMemorySize \in Nat /\ dataBufferMemorySize < Half
      /\ Size \in Nat /\ Size < Word /\ Half \in Nat /\ Word = 2 * Half
      /\ Size_t = 0 .. Word - 1
  BY BufferFacts, WordFacts
<1>2. CASE Size < 1
  BY <1>1, <1>2 DEF ToRead
<1>3. CASE Size >= 1
  <2>. DEFINE end == Wrapped(Size + dataBufferPos)
              left == Wrapped(dataBufferTotalSize - dataBufferPos)
  <2>1. end = IF Size + dataBufferPos >= Word THEN Size + dataBufferPos - Word
              ELSE Size + dataBufferPos
    BY <1>1 DEF Wrapped
  <2>2. left = IF dataBufferPos <= dataBufferTotalSize
               THEN dataBufferTotalSize - dataBufferPos
               ELSE dataBufferTotalSize - dataBufferPos + Word
    BY <1>1 DEF Wrapped
  <2>3. ToRead(Size) = IF end < Size \/ end > dataBufferTotalSize THEN left ELSE Size
    BY <1>1, <1>3, WordFacts DEF ToRead, Mem!ReadSize
  <2>. HIDE DEF end, left
  <2>. QED
    BY <1>1, <1>3, <2>1, <2>2, <2>3
<1>. QED
  BY <1>1, <1>2, <1>3

(* A read gives what is not in the buffer to nobody: it is undefined, or   *)
(* all its octets are in the buffer.                                       *)
LEMMA ReadGives ==
  ASSUME Mem!TypeOK, NEW Size \in Size_t, Mem!Read(Size), ~ Mem!Undefined
  PROVE  /\ ToRead(Size) \in Nat
         /\ ToRead(Size) > 0 => dataBufferPos + ToRead(Size) <= dataBufferMemorySize
         /\ memReturned' = Mem!Answer(Size, SubSeq(dataBuffer, dataBufferPos + 1,
                                        dataBufferPos + ToRead(Size)), ToRead(Size))
         /\ dataBufferPos' = dataBufferPos + ToRead(Size)
         /\ UNCHANGED <<dataBuffer, dataBufferTotalSize, dataBufferMemorySize,
                        undefined>>
<1>1. ToRead(Size) \in Nat /\ dataBufferPos \in Nat /\ dataBufferMemorySize \in Nat
  BY ReadSizeFacts, BufferFacts, WordFacts
<1>2. ~ (ToRead(Size) > 0 /\ dataBufferPos + ToRead(Size) > dataBufferMemorySize)
  BY DEF Mem!Read, ToRead
<1>. QED
  BY <1>1, <1>2 DEF Mem!Read, ToRead

(* A part of the memory, as it is copied to or from.                       *)
LEMMA PartOfBuffer ==
  ASSUME Mem!TypeOK, NEW n \in Nat,
         n > 0 => dataBufferPos + n <= dataBufferMemorySize
  PROVE  LET part == SubSeq(dataBuffer, dataBufferPos + 1, dataBufferPos + n)
         IN  /\ part \in Seq(Octet) /\ Len(part) = n
             /\ \A i \in 1 .. n : /\ part[i] = dataBuffer[dataBufferPos + i]
                                  /\ dataBufferPos + i \in DOMAIN dataBuffer
<1>. DEFINE first == dataBufferPos + 1
            last == dataBufferPos + n
            part == SubSeq(dataBuffer, first, last)
<1>0. dataBufferPos \in Nat /\ dataBufferMemorySize \in Nat
  BY BufferFacts
<1>1. /\ first \in Int /\ last \in Int /\ last - first + 1 = n
      /\ first <= last <=> n > 0
      /\ \A i \in first .. last : i \in 1 .. dataBufferMemorySize
      /\ \A i \in 1 .. n : /\ first + i - 1 = dataBufferPos + i
                           /\ dataBufferPos + i \in 1 .. dataBufferMemorySize
  BY <1>0
<1>2. \A i \in first .. last : dataBuffer[i] \in Octet
  BY <1>1, BufferFacts
<1>. HIDE DEF first, last
<1>3. /\ part \in Seq(Octet)
      /\ Len(part) = IF first <= last THEN last - first + 1 ELSE 0
      /\ \A i \in 1 .. last - first + 1 : part[i] = dataBuffer[first + i - 1]
  BY <1>1, <1>2, BufferFacts, SubSeqProperties
<1>. HIDE DEF part
<1>4. /\ part \in Seq(Octet) /\ Len(part) = n
      /\ \A i \in 1 .. n : /\ part[i] = dataBuffer[dataBufferPos + i]
                           /\ dataBufferPos + i \in DOMAIN dataBuffer
  BY <1>1, <1>3, BufferFacts
<1>. QED
  BY <1>4 DEF part, first, last

(* A read keeps the type, whether it copies or the copy is undefined.      *)
LEMMA BufferReadInv ==
  ASSUME Mem!TypeOK, NEW Size \in Size_t, Mem!Read(Size)
  PROVE  Mem!TypeOK'
<1>1. CASE Mem!Undefined
  BY <1>1 DEF Mem!Undefined, Mem!buffer, Mem!TypeOK
<1>2. CASE ~ Mem!Undefined
  <2>. DEFINE n == ToRead(Size)
              part == SubSeq(dataBuffer, dataBufferPos + 1, dataBufferPos + n)
  <2>1. /\ n \in Nat
        /\ n > 0 => dataBufferPos + n <= dataBufferMemorySize
        /\ memReturned' = Mem!Answer(Size, part, n)
        /\ dataBufferPos' = dataBufferPos + n
        /\ UNCHANGED <<dataBuffer, dataBufferTotalSize, dataBufferMemorySize,
                       undefined>>
    BY <1>2, ReadGives
  <2>2. n \in Size_t
    BY ReadSizeFacts
  <2>. HIDE DEF n
  <2>3. part \in Seq(Octet)
    BY <2>1, PartOfBuffer
  <2>. HIDE DEF part
  <2>4. dataBufferPos' \in Size_t
    BY <2>1, BufferFacts, WordFacts
  <2>. QED
    BY <2>1, <2>2, <2>3, <2>4, WordFacts DEF Mem!TypeOK, Mem!Answer
<1>. QED
  BY <1>1, <1>2

(* Where a seek counts from, and that it changes the position alone.       *)
LEMMA SeekFacts ==
  ASSUME Mem!TypeOK, NEW Offset \in Mem!Offsets,
         NEW Mode \in {"seek_beginning", "seek_current", "seek_end"},
         Mem!SetFilePointer(Offset, Mode)
  PROVE  /\ dataBufferPos' \in Size_t
         /\ memReturned' = Mem!NothingReturned
         /\ UNCHANGED <<dataBuffer, dataBufferTotalSize, dataBufferMemorySize,
                        undefined>>
<1>1. PICK base \in {0, dataBufferPos, dataBufferTotalSize} :
        dataBufferPos' = Wrapped(Offset + base)
  <2>1. CASE Mode = "seek_beginning"
    BY <2>1, WordFacts DEF Mem!SetFilePointer
  <2>2. CASE Mode = "seek_current"
    BY <2>2, WordFacts DEF Mem!SetFilePointer
  <2>3. CASE Mode = "seek_end"
    BY <2>3, WordFacts DEF Mem!SetFilePointer
  <2>. QED
    BY <2>1, <2>2, <2>3
<1>2. Offset \in Int /\ - Half <= Offset /\ Offset < Half
  BY WordFacts DEF Mem!Offsets
<1>3. base \in Nat /\ base < Word
  BY <1>1, BufferFacts, WordFacts
<1>4. Wrapped(Offset + base) \in Size_t
  BY <1>2, <1>3, WordFacts, WrappedIsWord
<1>. QED
  BY <1>1, <1>4 DEF Mem!SetFilePointer

(* A seek keeps the type, wherever the sum wraps to.                       *)
LEMMA BufferSeekInv ==
  ASSUME Mem!TypeOK, NEW Offset \in Mem!Offsets,
         NEW Mode \in {"seek_beginning", "seek_current", "seek_end"},
         Mem!SetFilePointer(Offset, Mode)
  PROVE  Mem!TypeOK'
<1>1. /\ dataBufferPos' \in Mem!Size_t
      /\ memReturned' = Mem!NothingReturned
      /\ UNCHANGED <<dataBuffer, dataBufferTotalSize, dataBufferMemorySize,
                     undefined>>
  BY SeekFacts, WordFacts
<1>2. 0 \in Mem!Size_t /\ << >> \in Seq(Octet)
  BY WordFacts
<1>. QED
  BY <1>1, <1>2 DEF Mem!TypeOK, Mem!Answer, Mem!NothingReturned

(* The sizes of a write that is not refused: its end does not wrap, and is *)
(* within the memory it grows to.                                          *)
LEMMA RoomFacts ==
  ASSUME Mem!TypeOK, NEW Size \in 0 .. SizeMax, Mem!Grows(Size)
  PROVE  /\ Wrapped(dataBufferPos + Size) = dataBufferPos + Size
         /\ Mem!Wrapped(Mem!End(Size)) = dataBufferPos + Size
         /\ dataBufferPos + Size < Half
         /\ Mem!MemoryFor(Size) \in Nat /\ Mem!MemoryFor(Size) < Half
         /\ dataBufferPos + Size <= Mem!MemoryFor(Size)
         /\ dataBufferMemorySize <= Mem!MemoryFor(Size)
<1>1. /\ dataBufferPos \in Nat /\ dataBufferPos < Word
      /\ dataBufferMemorySize \in Nat /\ dataBufferMemorySize < Half
      /\ Size \in Nat /\ Size < Half /\ Half \in Nat /\ Word = 2 * Half
  BY BufferFacts, WordFacts
<1>2. /\ ~ (Wrapped(dataBufferPos + Size) < Size)
      /\ Wrapped(dataBufferPos + Size) < Half
      /\ Mem!Wrapped(Mem!End(Size)) = Wrapped(dataBufferPos + Size)
  BY WordFacts DEF Mem!Grows, Mem!Refuses, Mem!End
<1>3. Wrapped(dataBufferPos + Size) = dataBufferPos + Size
  BY <1>1, <1>2 DEF Wrapped
<1>. QED
  BY <1>1, <1>2, <1>3 DEF Mem!MemoryFor

(* The buffer grown and filled is a sequence of octets of its new length.  *)
LEMMA CopyToFacts ==
  ASSUME Mem!TypeOK, NEW data \in Mem!Data, NEW Size \in 0 .. SizeMax,
         Mem!Grows(Size)
  PROVE  /\ Mem!CopyTo(data, Size) \in Seq(Octet)
         /\ Len(Mem!CopyTo(data, Size)) = Mem!MemoryFor(Size)
         /\ DOMAIN Mem!CopyTo(data, Size) = 1 .. Mem!MemoryFor(Size)
         /\ \A i \in 1 .. Mem!MemoryFor(Size) : Mem!CopyTo(data, Size)[i] =
              IF i - dataBufferPos \in 1 .. Len(data)
              THEN data[i - dataBufferPos]
              ELSE IF i \in DOMAIN dataBuffer THEN dataBuffer[i] ELSE 0
<1>. DEFINE c == Mem!CopyTo(data, Size)
            memory == Mem!MemoryFor(Size)
<1>1. /\ memory \in Nat
      /\ memory = IF dataBufferMemorySize < Mem!Wrapped(Mem!End(Size))
                  THEN Mem!Wrapped(Mem!End(Size)) ELSE Len(dataBuffer)
  BY RoomFacts, BufferFacts DEF Mem!MemoryFor
<1>2. /\ DOMAIN c = 1 .. memory
      /\ \A i \in 1 .. memory : c[i] =
           IF i - dataBufferPos \in 1 .. Len(data)
           THEN data[i - dataBufferPos]
           ELSE IF i \in DOMAIN dataBuffer THEN dataBuffer[i] ELSE 0
      /\ c = [i \in 1 .. memory |-> c[i]]
  BY <1>1 DEF Mem!CopyTo
<1>3. \A i \in 1 .. memory : c[i] \in Octet
  BY <1>2, DataFacts, BufferFacts, WordFacts
<1>. HIDE DEF c, memory
<1>4. c \in Seq(Octet) /\ Len(c) = memory
  <2>1. memory \in Nat /\ c = [i \in 1 .. memory |-> c[i]]
    BY <1>1, <1>2
  <2>. QED
    BY <1>3, <2>1
<1>. QED
  BY <1>2, <1>4 DEF c, memory

(* A refused write keeps the type.                                         *)
LEMMA BufferRefuseInv ==
  ASSUME Mem!TypeOK, NEW Size \in 0 .. SizeMax, Mem!Refuse(Size)
  PROVE  Mem!TypeOK'
BY WordFacts DEF Mem!Refuse, Mem!buffer, Mem!TypeOK, Mem!Answer

(* What a write changes.                                                   *)
LEMMA WriteGives ==
  ASSUME NEW data, Mem!Write(data), ~ Mem!Refuse(Len(data))
  PROVE  /\ Mem!Grows(Len(data))
         /\ dataBufferMemorySize' = Mem!MemoryFor(Len(data))
         /\ dataBuffer' = Mem!CopyTo(data, Len(data))
         /\ dataBufferPos' = Mem!Wrapped(Mem!End(Len(data)))
         /\ dataBufferTotalSize' = Mem!TotalSize(dataBufferPos')
         /\ memReturned' = Mem!Answer(Len(data), << >>, Len(data))
         /\ UNCHANGED undefined
BY DEF Mem!Write

(* A write keeps the type: what it makes fits into the memory it gets.     *)
LEMMA BufferWriteInv ==
  ASSUME Mem!TypeOK, NEW data \in Mem!Data, Mem!Write(data)
  PROVE  Mem!TypeOK'
<1>1. Len(data) \in 0 .. SizeMax /\ Len(data) \in Size_t
  BY DataFacts
<1>2. CASE Mem!Refuse(Len(data))
  BY <1>1, <1>2, BufferRefuseInv
<1>3. CASE ~ Mem!Refuse(Len(data))
  <2>1. /\ Mem!Grows(Len(data))
        /\ dataBufferMemorySize' = Mem!MemoryFor(Len(data))
        /\ dataBuffer' = Mem!CopyTo(data, Len(data))
        /\ dataBufferPos' = Mem!Wrapped(Mem!End(Len(data)))
        /\ dataBufferTotalSize' = Mem!TotalSize(dataBufferPos')
        /\ memReturned' = Mem!Answer(Len(data), << >>, Len(data))
        /\ UNCHANGED undefined
    BY <1>3, WriteGives
  <2>2. dataBufferPos' \in Size_t /\ dataBufferMemorySize' < Half
    BY <1>1, <2>1, RoomFacts, BufferFacts, WordFacts
  <2>3. dataBufferTotalSize' \in Size_t
    BY <2>1, <2>2, WordFacts DEF Mem!TotalSize, Mem!TypeOK
  <2>4. dataBuffer' \in Seq(Octet) /\ Len(dataBuffer') = dataBufferMemorySize'
    BY <1>1, <2>1, CopyToFacts
  <2>. QED
    BY <1>1, <2>1, <2>2, <2>3, <2>4, WordFacts DEF Mem!TypeOK, Mem!Answer
<1>. QED
  BY <1>2, <1>3

(* A fill keeps the type, whatever the width of the count it returns.      *)
LEMMA BufferWriteFromInv ==
  ASSUME Mem!TypeOK, NEW octets \in Mem!Data,
         NEW Size \in Len(octets) .. SizeMax, Mem!WriteFrom(octets, Size)
  PROVE  Mem!TypeOK'
<1>1. Size \in 0 .. SizeMax /\ Size \in Nat /\ Size \in Size_t
  BY DataFacts, WordFacts
<1>2. CASE Mem!Undefined
  BY <1>2 DEF Mem!Undefined, Mem!buffer, Mem!TypeOK
<1>3. CASE ~ Mem!Undefined
  <2>1. /\ Mem!Grows(Size)
        /\ dataBufferMemorySize' = Mem!MemoryFor(Size)
        /\ dataBuffer' = Mem!CopyTo(octets, Size)
        /\ dataBufferTotalSize' \in {Size, dataBufferTotalSize}
        /\ \E n \in {0, Size % Narrow} : memReturned' = Mem!Answer(Size, << >>, n)
        /\ UNCHANGED <<dataBufferPos, undefined>>
    BY <1>3 DEF Mem!WriteFrom
  <2>2. dataBufferMemorySize' < Half
    BY <1>1, <2>1, RoomFacts
  <2>3. dataBufferTotalSize' \in Size_t
    BY <1>1, <2>1, WordFacts DEF Mem!TypeOK
  <2>4. dataBuffer' \in Seq(Octet) /\ Len(dataBuffer') = dataBufferMemorySize'
    BY <1>1, <2>1, CopyToFacts
  <2>5. 0 \in Size_t /\ Size % Narrow \in Size_t
    BY <1>1, NarrowFacts, WordFacts
  <2>. QED
    BY <1>1, <2>1, <2>2, <2>3, <2>4, <2>5, WordFacts DEF Mem!TypeOK, Mem!Answer
<1>. QED
  BY <1>2, <1>3

(* Setting the size keeps the type.                                        *)
LEMMA BufferSetSizeInv ==
  ASSUME Mem!TypeOK, NEW Size \in Size_t, Mem!SetDataBufferSize(Size)
  PROVE  Mem!TypeOK'
BY WordFacts DEF Mem!SetDataBufferSize, Mem!TypeOK, Mem!Answer, Mem!NothingReturned

(* Every call of the buffer keeps the type.                                *)
LEMMA BufferNextInv ==
  ASSUME Mem!TypeOK, [Mem!Next]_(Mem!memVars)
  PROVE  Mem!TypeOK'
<1>1. CASE UNCHANGED Mem!memVars
  BY <1>1 DEF Mem!memVars, Mem!buffer, Mem!TypeOK
<1>2. ASSUME NEW octets \in Mem!Data, NEW Size \in Len(octets) .. SizeMax
      PROVE  Size \in 0 .. SizeMax
  BY DataFacts, WordFacts
<1>3. CASE Mem!Next
  BY <1>2, <1>3, BufferReadInv, BufferSetSizeInv, BufferSeekInv, BufferWriteInv,
     BufferWriteFromInv, BufferRefuseInv, WordFacts DEF Mem!Next
<1>. QED
  BY <1>1, <1>3

-----------------------------------------------------------------------------
(* What takes a buffer out of its data, and what does not.                 *)
LEMMA ReadKeepsInside ==
  ASSUME Mem!TypeOK, NEW Size \in Size_t, Mem!Read(Size), Mem!Inside
  PROVE  Mem!Inside' /\ UNCHANGED undefined
<1>1. /\ dataBufferPos \in Nat /\ dataBufferTotalSize \in Nat
      /\ dataBufferMemorySize \in Nat /\ dataBufferPos <= dataBufferTotalSize
      /\ dataBufferTotalSize <= dataBufferMemorySize
  BY BufferFacts DEF Mem!Inside
<1>2. ToRead(Size) \in Nat /\ dataBufferPos + ToRead(Size) <= dataBufferTotalSize
  BY <1>1, ReadSizeFacts, WordFacts
<1>3. /\ dataBufferPos' = dataBufferPos + ToRead(Size)
      /\ UNCHANGED <<dataBufferTotalSize, dataBufferMemorySize, undefined>>
  BY <1>1, <1>2 DEF Mem!Read, ToRead
<1>. QED
  BY <1>1, <1>2, <1>3 DEF Mem!Inside

(* A write from within the data stays within the memory.                   *)
LEMMA WriteKeepsInside ==
  ASSUME Mem!TypeOK, NEW data \in Mem!Data, Mem!Write(data), Mem!Inside
  PROVE  Mem!Inside' /\ UNCHANGED undefined
<1>1. CASE Mem!Refuse(Len(data))
  BY <1>1 DEF Mem!Refuse, Mem!buffer, Mem!Inside
<1>2. CASE ~ Mem!Refuse(Len(data))
  <2>1. /\ Mem!Grows(Len(data)) /\ UNCHANGED undefined
        /\ dataBufferMemorySize' = Mem!MemoryFor(Len(data))
        /\ dataBufferPos' = Mem!Wrapped(Mem!End(Len(data)))
        /\ dataBufferTotalSize' = Mem!TotalSize(dataBufferPos')
    BY <1>2, WriteGives
  <2>2. /\ dataBufferPos' = dataBufferPos + Len(data)
        /\ dataBufferPos' <= dataBufferMemorySize'
        /\ dataBufferMemorySize <= dataBufferMemorySize'
        /\ dataBufferMemorySize' \in Nat /\ Len(data) \in Nat
    BY <2>1, RoomFacts, DataFacts, WordFacts
  <2>. QED
    BY <2>1, <2>2, BufferFacts DEF Mem!TotalSize, Mem!Inside
<1>. QED
  BY <1>1, <1>2

(* A fill from within the data stays within the memory.                    *)
LEMMA FillKeepsInside ==
  ASSUME Mem!TypeOK, NEW octets \in Mem!Data,
         NEW Size \in Len(octets) .. SizeMax, Mem!WriteFrom(octets, Size),
         Mem!Inside
  PROVE  Mem!KeepsInside
<1>1. Size \in 0 .. SizeMax /\ Size \in Nat
  BY DataFacts, WordFacts
<1>2. /\ Mem!Grows(Size)
      /\ dataBufferPos + Size <= Mem!MemoryFor(Size)
      /\ dataBufferMemorySize <= Mem!MemoryFor(Size)
      /\ Mem!MemoryFor(Size) \in Nat
      /\ Mem!Wrapped(Mem!End(Size)) = dataBufferPos + Size
  BY <1>1, RoomFacts DEF Mem!WriteFrom
<1>3. /\ dataBufferPos \in Nat /\ dataBufferTotalSize \in Nat
      /\ dataBufferMemorySize \in Nat /\ dataBufferPos <= dataBufferTotalSize
      /\ dataBufferTotalSize <= dataBufferMemorySize
  BY BufferFacts DEF Mem!Inside
<1>4. CASE dataBufferPos = Mem!MemoryFor(Size)
  <2>1. dataBufferPos = dataBufferMemorySize
    BY <1>2, <1>3, <1>4
  <2>2. Mem!Inside'
    BY <1>4 DEF Mem!WriteFrom, Mem!Undefined, Mem!buffer, Mem!Inside
  <2>. QED
    BY <2>1, <2>2 DEF Mem!KeepsInside
<1>5. CASE dataBufferPos # Mem!MemoryFor(Size)
  <2>1. /\ dataBufferMemorySize' = Mem!MemoryFor(Size)
        /\ dataBufferTotalSize' \in {Size, dataBufferTotalSize}
        /\ UNCHANGED <<dataBufferPos, undefined>>
    BY <1>5 DEF Mem!WriteFrom
  <2>2. dataBufferTotalSize' < dataBufferPos \/ Mem!Inside'
    BY <1>1, <1>2, <1>3, <2>1 DEF Mem!Inside
  <2>. QED
    BY <2>1, <2>2 DEF Mem!KeepsInside
<1>. QED
  BY <1>4, <1>5

(* No call from within the data touches what is not the memory.            *)
LEMMA BufferStepKeepsInside ==
  ASSUME Mem!TypeOK, [Mem!Next]_(Mem!memVars)
  PROVE  [Mem!KeepsInside]_(Mem!memVars)
<1>. SUFFICES ASSUME Mem!Next, Mem!Inside PROVE Mem!KeepsInside
  BY DEF Mem!KeepsInside
<1>1. ASSUME NEW Size \in Size_t, Mem!Read(Size) PROVE Mem!KeepsInside
  BY <1>1, ReadKeepsInside DEF Mem!KeepsInside
<1>2. ASSUME NEW Size \in Mem!Size_t, Mem!SetDataBufferSize(Size)
      PROVE  Mem!KeepsInside
  BY <1>2 DEF Mem!KeepsInside, Mem!SetDataBufferSize
<1>3. ASSUME NEW Offset \in Mem!Offsets,
             NEW Mode \in {"seek_beginning", "seek_current", "seek_end"},
             Mem!SetFilePointer(Offset, Mode)
      PROVE  Mem!KeepsInside
  <2>1. UNCHANGED undefined
    BY <1>3 DEF Mem!SetFilePointer
  <2>. QED
    BY <1>3, <2>1 DEF Mem!KeepsInside
<1>4. ASSUME NEW data \in Mem!Data, Mem!Write(data) PROVE Mem!KeepsInside
  BY <1>4, WriteKeepsInside DEF Mem!KeepsInside
<1>5. ASSUME NEW octets \in Mem!Data, NEW Size \in Len(octets) .. SizeMax,
             Mem!WriteFrom(octets, Size)
      PROVE  Mem!KeepsInside
  BY <1>5, FillKeepsInside
<1>6. ASSUME NEW Size, Mem!Refuse(Size) PROVE Mem!KeepsInside
  BY <1>6 DEF Mem!KeepsInside, Mem!Refuse, Mem!buffer, Mem!Inside
<1>. QED
  BY <1>1, <1>2, <1>3, <1>4, <1>5, <1>6, WordFacts DEF Mem!Next

(* Whatever its callers do, a buffer within its data copies nothing from   *)
(* or to outside of it, sums that wrap included, and leaves its data by    *)
(* nothing but a seek, a size that is set, or a filling that ends before   *)
(* its position.                                                           *)
THEOREM StaysInside == Mem!Spec => []Mem!TypeOK /\ Mem!StaysInside
<1>1. Mem!Init => Mem!TypeOK
  BY BufferAloneInit
<1>2. Mem!TypeOK /\ [Mem!Next]_(Mem!memVars) => Mem!TypeOK'
  BY BufferNextInv
<1>3. Mem!TypeOK /\ [Mem!Next]_(Mem!memVars) => [Mem!KeepsInside]_(Mem!memVars)
  BY BufferStepKeepsInside
<1>. QED
  BY <1>1, <1>2, <1>3, PTL DEF Mem!Spec, Mem!StaysInside

-----------------------------------------------------------------------------
(* A call that is undefined leaves the stream as it is.                    *)
LEMMA UndefinedStreams ==
  ASSUME Mem!Undefined
  PROVE  UNCHANGED Mem!Stream!vars
BY DEF Mem!Undefined, Mem!buffer, Mem!Stream!vars, Mem!Content

(* Each call that is defined is one of the calls IOCallback promises.      *)
LEMMA ReadIsStreamRead ==
  ASSUME Mem!TypeOK, NEW Size \in Size_t, Mem!Read(Size), ~ Mem!Undefined
  PROVE  Mem!Stream!Read(Size)
<1>. DEFINE n == ToRead(Size)
            first == dataBufferPos + 1
            last == dataBufferPos + n
            part == SubSeq(Mem!Content, first, last)
            octets == SubSeq(dataBuffer, first, last)
<1>1. /\ n \in Nat
      /\ n > 0 => dataBufferPos + n <= dataBufferMemorySize
      /\ memReturned' = Mem!Answer(Size, octets, n)
      /\ dataBufferPos' = dataBufferPos + n
      /\ UNCHANGED <<dataBuffer, dataBufferTotalSize, dataBufferMemorySize>>
  BY ReadGives
<1>2. /\ dataBufferPos \in Nat /\ dataBufferTotalSize \in Nat
      /\ dataBufferMemorySize \in Nat /\ Size \in Nat
      /\ Len(Mem!Content) = dataBufferTotalSize
  BY BufferFacts, ContentFacts, WordFacts
<1>3. \/ Size = 0 /\ n = 0
      \/ /\ dataBufferPos <= dataBufferTotalSize
         /\ dataBufferPos + n <= dataBufferTotalSize
         /\ n = IF dataBufferPos + Size <= dataBufferTotalSize
                THEN Size ELSE dataBufferTotalSize - dataBufferPos
  <2>1. CASE Size = 0
    BY <2>1 DEF ToRead
  <2>2. CASE Size > 0
    BY <1>1, <1>2, <2>2, ReadSizeFacts
  <2>. QED
    BY <1>2, <2>1, <2>2
<1>. HIDE DEF n
<1>4. n \in {0, Mem!Stream!Available(Size)}
  BY <1>1, <1>2, <1>3 DEF Mem!Stream!Available
<1>5. /\ first \in Int /\ last \in Int /\ last - first + 1 = n
      /\ first <= last <=> n > 0
      /\ \A i \in first .. last : i \in 1 .. dataBufferTotalSize
      /\ \A i \in 1 .. n :
           /\ first + i - 1 = dataBufferPos + i
           /\ dataBufferPos + i \in 1 .. dataBufferTotalSize
  BY <1>1, <1>2, <1>3
<1>6. \A i \in first .. last : Mem!Content[i] \in Octet
  BY <1>5, ContentFacts
<1>7. /\ octets \in Seq(Octet) /\ Len(octets) = n
      /\ \A i \in 1 .. n : /\ octets[i] = dataBuffer[dataBufferPos + i]
                           /\ dataBufferPos + i \in DOMAIN dataBuffer
  BY <1>1, PartOfBuffer
<1>. HIDE DEF first, last, octets
<1>8. /\ part \in Seq(Octet)
      /\ Len(part) = IF first <= last THEN last - first + 1 ELSE 0
      /\ \A i \in 1 .. last - first + 1 : part[i] = Mem!Content[first + i - 1]
  BY <1>5, <1>6, SubSeqProperties
<1>. HIDE DEF part
<1>9. /\ Len(part) = n
      /\ \A i \in 1 .. n : part[i] = Mem!Content[dataBufferPos + i]
  BY <1>1, <1>5, <1>8
<1>10. \A i \in 1 .. n : part[i] = octets[i]
  BY <1>5, <1>7, <1>9, ContentFacts
<1>11. octets = part
  BY <1>1, <1>7, <1>8, <1>9, <1>10, SeqEqual
<1>12. Mem!Content' = Mem!Content
  BY <1>1 DEF Mem!Content
<1>. QED
  BY <1>1, <1>4, <1>11, <1>12
     DEF Mem!Stream!Read, Mem!Answer, Mem!Stream!Answer, part, first, last

(* What a copy leaves: the octets at the position, and the others where    *)
(* they were.                                                              *)
LEMMA CopyGives ==
  ASSUME Mem!TypeOK, NEW data \in Mem!Data, NEW Size \in 0 .. SizeMax,
         Mem!Grows(Size), Len(data) <= Size,
         dataBuffer' = Mem!CopyTo(data, Size),
         dataBufferTotalSize' \in Nat
  PROVE  /\ DOMAIN Mem!Content' = 1 .. dataBufferTotalSize'
         /\ \A i \in 1 .. dataBufferTotalSize' : Mem!Content'[i] =
              IF i - dataBufferPos \in 1 .. Len(data)
              THEN data[i - dataBufferPos]
              ELSE IF i \in DOMAIN dataBuffer THEN dataBuffer[i] ELSE 0
<1>. DEFINE memory == Mem!MemoryFor(Size)
<1>1. /\ DOMAIN dataBuffer' = 1 .. memory
      /\ \A i \in 1 .. memory : dataBuffer'[i] =
           IF i - dataBufferPos \in 1 .. Len(data)
           THEN data[i - dataBufferPos]
           ELSE IF i \in DOMAIN dataBuffer THEN dataBuffer[i] ELSE 0
  BY CopyToFacts
<1>2. /\ memory \in Nat /\ dataBufferPos + Size <= memory
      /\ dataBufferPos \in Nat /\ Len(data) \in Nat
      /\ dataBufferMemorySize \in Nat /\ dataBufferMemorySize <= memory
      /\ DOMAIN dataBuffer = 1 .. dataBufferMemorySize /\ Size \in Nat
  BY RoomFacts, BufferFacts, DataFacts, WordFacts
<1>3. /\ DOMAIN Mem!Content' = 1 .. dataBufferTotalSize'
      /\ \A i \in 1 .. dataBufferTotalSize' : Mem!Content'[i] =
           IF i \in DOMAIN dataBuffer' THEN dataBuffer'[i] ELSE 0
  BY DEF Mem!Content
<1>. HIDE DEF memory
<1>4. ASSUME NEW i \in 1 .. dataBufferTotalSize'
      PROVE  Mem!Content'[i] =
               IF i - dataBufferPos \in 1 .. Len(data)
               THEN data[i - dataBufferPos]
               ELSE IF i \in DOMAIN dataBuffer THEN dataBuffer[i] ELSE 0
  <2>1. CASE i \in 1 .. memory
    BY <1>1, <1>3, <2>1
  <2>2. CASE i \notin 1 .. memory
    <3>1. i - dataBufferPos \notin 1 .. Len(data) /\ i \notin DOMAIN dataBuffer
      BY <1>2, <2>2
    <3>. QED
      BY <1>1, <1>3, <2>2, <3>1
  <2>. QED
    BY <2>1, <2>2
<1>. QED
  BY <1>3, <1>4

(* What was copied to is what the content shows there.                     *)
LEMMA CopyIsHeld ==
  ASSUME Mem!TypeOK, NEW data \in Mem!Data, Mem!Grows(Len(data)),
         dataBuffer' = Mem!CopyTo(data, Len(data)),
         dataBufferTotalSize' = Mem!TotalSize(dataBufferPos + Len(data))
  PROVE  Mem!Stream!Holds(data)
<1>1. /\ Len(data) \in Nat /\ Len(data) \in 0 .. SizeMax
      /\ dataBufferPos \in Nat /\ dataBufferTotalSize \in Nat
  BY DataFacts, BufferFacts, WordFacts
<1>2. dataBufferTotalSize' = IF dataBufferPos + Len(data) > dataBufferTotalSize
                             THEN dataBufferPos + Len(data)
                             ELSE dataBufferTotalSize
  BY DEF Mem!TotalSize
<1>3. dataBufferTotalSize' \in Nat
  BY <1>1, <1>2
<1>4. /\ DOMAIN Mem!Content' = 1 .. dataBufferTotalSize'
      /\ \A i \in 1 .. dataBufferTotalSize' : Mem!Content'[i] =
           IF i - dataBufferPos \in 1 .. Len(data)
           THEN data[i - dataBufferPos]
           ELSE IF i \in DOMAIN dataBuffer THEN dataBuffer[i] ELSE 0
  BY <1>1, <1>3, CopyGives
<1>5. \A i \in 1 .. Len(data) : Mem!Content'[dataBufferPos + i] = data[i]
  <2>1. SUFFICES ASSUME NEW i \in 1 .. Len(data)
                 PROVE  Mem!Content'[dataBufferPos + i] = data[i]
    OBVIOUS
  <2>2. /\ dataBufferPos + i \in 1 .. dataBufferTotalSize'
        /\ dataBufferPos + i - dataBufferPos = i
    BY <1>1, <1>2
  <2>3. \A j \in 1 .. dataBufferTotalSize' :
          j - dataBufferPos = i => Mem!Content'[j] = data[i]
    BY <1>4
  <2>. DEFINE place == dataBufferPos + i
  <2>4. place \in 1 .. dataBufferTotalSize' /\ place - dataBufferPos = i
    BY <1>1, <1>2
  <2>. HIDE DEF place
  <2>5. Mem!Content'[place] = data[i]
    BY <2>3, <2>4
  <2>. QED
    BY <2>5 DEF place
<1>6. \A i \in 1 .. Len(Mem!Content) :
        i <= dataBufferPos \/ i > dataBufferPos + Len(data)
          => Mem!Content'[i] = Mem!Content[i]
  <2>1. SUFFICES ASSUME NEW i \in 1 .. dataBufferTotalSize,
                        i <= dataBufferPos \/ i > dataBufferPos + Len(data)
                 PROVE  Mem!Content'[i] = Mem!Content[i]
    BY ContentFacts
  <2>2. /\ i \in 1 .. dataBufferTotalSize'
        /\ i - dataBufferPos \notin 1 .. Len(data)
    BY <1>1, <1>2, <2>1
  <2>. QED
    BY <1>4, <2>2, ContentFacts
<1>. QED
  BY <1>2, <1>4, <1>5, <1>6, ContentFacts DEF Mem!Stream!Holds

(* A refused write is one of no octets.                                    *)
LEMMA RefuseIsStreamWrite ==
  ASSUME Mem!TypeOK, NEW Size \in 0 .. SizeMax, Mem!Refuse(Size)
  PROVE  \E d \in Mem!Stream!Data : Mem!Stream!Write(d)
<1>. DEFINE data == [i \in 1 .. Size |-> 0]
<1>0. Size \in Nat /\ 0 \in Octet
  BY WordFacts
<1>1. data \in Seq(Octet) /\ Len(data) = Size /\ data \in Mem!Stream!Data
  BY <1>0 DEF Mem!Stream!Data
<1>2. /\ UNCHANGED <<dataBuffer, dataBufferPos, dataBufferTotalSize>>
      /\ memReturned' = Mem!Stream!Answer(Size, << >>, 0)
  BY DEF Mem!Refuse, Mem!buffer, Mem!Answer, Mem!Stream!Answer
<1>3. Mem!Content' = Mem!Content
  BY <1>2 DEF Mem!Content
<1>. HIDE DEF data
<1>4. 0 \in 0 .. Len(data) /\ dataBufferPos' = dataBufferPos + 0
  BY <1>1, <1>2, BufferFacts, WordFacts
<1>. QED
  BY <1>1, <1>2, <1>3, <1>4 DEF Mem!Stream!Write

(* A write within the data is the write of the stream.                     *)
LEMMA WriteIsStreamWrite ==
  ASSUME Mem!TypeOK, NEW data \in Mem!Data, Mem!Write(data)
  PROVE  \E d \in Mem!Stream!Data : Mem!Stream!Write(d)
<1>1. Len(data) \in 0 .. SizeMax /\ data \in Seq(Octet) /\ data \in Mem!Stream!Data
  BY DataFacts DEF Mem!Data, Mem!Stream!Data
<1>2. CASE Mem!Refuse(Len(data))
  BY <1>1, <1>2, RefuseIsStreamWrite
<1>3. CASE ~ Mem!Refuse(Len(data))
  <2>1. /\ Mem!Grows(Len(data))
        /\ dataBuffer' = Mem!CopyTo(data, Len(data))
        /\ dataBufferPos' = Mem!Wrapped(Mem!End(Len(data)))
        /\ dataBufferTotalSize' = Mem!TotalSize(dataBufferPos')
        /\ memReturned' = Mem!Stream!Answer(Len(data), << >>, Len(data))
    BY <1>3, WriteGives DEF Mem!Answer, Mem!Stream!Answer
  <2>2. dataBufferPos' = dataBufferPos + Len(data)
    BY <1>1, <2>1, RoomFacts
  <2>3. dataBufferTotalSize' = Mem!TotalSize(dataBufferPos + Len(data))
    BY <2>1, <2>2
  <2>4. Mem!Stream!Holds(data)
    BY <2>1, <2>3, CopyIsHeld
  <2>5. SubSeq(data, 1, Len(data)) = data /\ Len(data) \in 0 .. Len(data)
    BY <1>1
  <2>6. Mem!Stream!Write(data)
    BY <2>1, <2>2, <2>4, <2>5 DEF Mem!Stream!Write
  <2>. QED
    BY <1>1, <2>6
<1>. QED
  BY <1>2, <1>3

(* A fill within the data is the fill of the stream.                       *)
LEMMA WriteFromIsStreamFill ==
  ASSUME Mem!TypeOK, NEW octets \in Mem!Data,
         NEW Size \in Len(octets) .. SizeMax, Mem!WriteFrom(octets, Size),
         ~ Mem!Undefined
  PROVE  \E d \in Mem!Stream!Data : Mem!Stream!Fill(d)
<1>1. /\ Len(octets) \in 0 .. SizeMax /\ octets \in Mem!Stream!Data
      /\ Len(octets) \in Nat /\ Size \in 0 .. SizeMax /\ Size \in Nat
      /\ Len(octets) <= Size
      /\ dataBufferPos \in Nat /\ dataBufferTotalSize \in Nat
  BY DataFacts, BufferFacts, WordFacts DEF Mem!Data, Mem!Stream!Data
<1>2. /\ Mem!Grows(Size)
      /\ dataBuffer' = Mem!CopyTo(octets, Size)
      /\ UNCHANGED dataBufferPos
      /\ IF Len(octets) = Size
         THEN /\ dataBufferTotalSize' = Size
              /\ memReturned' = Mem!Answer(Size, << >>, Size % Narrow)
         ELSE /\ UNCHANGED dataBufferTotalSize
              /\ memReturned' = Mem!Answer(Size, << >>, 0)
  BY DEF Mem!WriteFrom
<1>3. dataBufferTotalSize' \in Nat
  BY <1>1, <1>2
<1>4. /\ DOMAIN Mem!Content' = 1 .. dataBufferTotalSize'
      /\ \A i \in 1 .. dataBufferTotalSize' : Mem!Content'[i] =
           IF i - dataBufferPos \in 1 .. Len(octets)
           THEN octets[i - dataBufferPos]
           ELSE IF i \in DOMAIN dataBuffer THEN dataBuffer[i] ELSE 0
  BY <1>1, <1>2, <1>3, CopyGives
<1>5. \A i \in DOMAIN Mem!Content \cap DOMAIN Mem!Content' :
        i <= dataBufferPos \/ i > dataBufferPos + Size
          => Mem!Content'[i] = Mem!Content[i]
  <2>1. SUFFICES ASSUME NEW i \in DOMAIN Mem!Content \cap DOMAIN Mem!Content',
                        i <= dataBufferPos \/ i > dataBufferPos + Size
                 PROVE  Mem!Content'[i] = Mem!Content[i]
    OBVIOUS
  <2>2. i \in 1 .. dataBufferTotalSize /\ i \in 1 .. dataBufferTotalSize'
    BY <1>4, ContentFacts
  <2>3. i - dataBufferPos \notin 1 .. Len(octets)
    BY <1>1, <2>1, <2>2
  <2>. QED
    BY <1>4, <2>2, <2>3, ContentFacts
<1>6. CASE Len(octets) = Size
  <2>1. DOMAIN Mem!Content' = 1 .. Len(octets)
    BY <1>2, <1>4, <1>6
  <2>2. \A i \in dataBufferPos + 1 .. Len(octets) :
          Mem!Content'[i] = octets[i - dataBufferPos]
    <3>1. SUFFICES ASSUME NEW i \in dataBufferPos + 1 .. Len(octets)
                   PROVE  Mem!Content'[i] = octets[i - dataBufferPos]
      OBVIOUS
    <3>2. /\ i \in 1 .. dataBufferTotalSize'
          /\ i - dataBufferPos \in 1 .. Len(octets)
      BY <1>1, <1>2, <1>6
    <3>. QED
      BY <1>4, <3>2
  <2>3. memReturned' = Mem!Stream!Answer(Len(octets), << >>, Len(octets) % Narrow)
    BY <1>2, <1>6 DEF Mem!Answer, Mem!Stream!Answer
  <2>4. Mem!Stream!Fill(octets)
    BY <1>2, <1>5, <2>1, <2>2, <2>3 DEF Mem!Stream!Fill
  <2>. QED
    BY <1>1, <2>4
<1>7. CASE Len(octets) # Size
  <2>. DEFINE d == [i \in 1 .. Size |-> 0]
  <2>1. d \in Mem!Stream!Data /\ Len(d) = Size
    BY <1>1, WordFacts DEF Mem!Stream!Data
  <2>2. DOMAIN Mem!Content' = DOMAIN Mem!Content
    BY <1>2, <1>4, <1>7, ContentFacts
  <2>3. memReturned' = Mem!Stream!Answer(Size, << >>, 0)
    BY <1>2, <1>7 DEF Mem!Answer, Mem!Stream!Answer
  <2>. HIDE DEF d
  <2>4. Mem!Stream!Fill(d)
    BY <1>2, <1>5, <2>1, <2>2, <2>3 DEF Mem!Stream!Fill
  <2>. QED
    BY <2>1, <2>4
<1>. QED
  BY <1>6, <1>7

(* A seek within the data is the seek of the stream.                       *)
LEMMA SeekIsStreamSeek ==
  ASSUME Mem!TypeOK, NEW Offset \in Mem!Offsets,
         NEW Mode \in {"seek_beginning", "seek_current", "seek_end"},
         Mem!SetFilePointer(Offset, Mode)
  PROVE  Mem!Stream!Seek
<1>1. dataBufferPos' \in Nat /\ UNCHANGED <<dataBuffer, dataBufferTotalSize>>
  BY SeekFacts, WordFacts
<1>2. Mem!Content' = Mem!Content
  BY <1>1 DEF Mem!Content
<1>. QED
  BY <1>1, <1>2
     DEF Mem!SetFilePointer, Mem!Stream!Seek, Mem!Answer, Mem!NothingReturned,
         Mem!Stream!Answer

(* Setting the size is that of the stream.                                 *)
LEMMA SetSizeIsStreamSetSize ==
  ASSUME NEW Size \in Mem!Size_t, Mem!SetDataBufferSize(Size)
  PROVE  Mem!Stream!SetSize
<1>1. /\ dataBuffer' = dataBuffer
      /\ UNCHANGED dataBufferPos
      /\ memReturned' = Mem!Stream!Answer(0, << >>, 0)
  BY DEF Mem!SetDataBufferSize, Mem!Answer, Mem!NothingReturned,
         Mem!Stream!Answer
<1>2. \A i \in DOMAIN Mem!Content \cap DOMAIN Mem!Content' :
        Mem!Content'[i] = Mem!Content[i]
  BY <1>1 DEF Mem!Content
<1>. QED
  BY <1>1, <1>2 DEF Mem!Stream!SetSize

(* Every call of the buffer is one of those IOCallback promises.           *)
LEMMA BufferStreams ==
  ASSUME Mem!TypeOK, [Mem!Next]_(Mem!memVars)
  PROVE  [Mem!Stream!Next]_(Mem!Stream!vars)
<1>. SUFFICES Mem!Stream!Next \/ UNCHANGED Mem!Stream!vars
  OBVIOUS
<1>1. CASE UNCHANGED Mem!memVars
  BY <1>1 DEF Mem!memVars, Mem!buffer, Mem!Stream!vars, Mem!Content
<1>2. CASE Mem!Undefined
  BY <1>2, UndefinedStreams
<1>3. ASSUME NEW Size \in Mem!Size_t, Mem!Read(Size), ~ Mem!Undefined
      PROVE  Mem!Stream!Next
  BY <1>3, ReadIsStreamRead, WordFacts DEF Mem!Stream!Next
<1>4. ASSUME NEW Size \in Mem!Size_t, Mem!SetDataBufferSize(Size)
      PROVE  Mem!Stream!Next
  BY <1>4, SetSizeIsStreamSetSize DEF Mem!Stream!Next
<1>5. ASSUME NEW Offset \in Mem!Offsets,
             NEW Mode \in {"seek_beginning", "seek_current", "seek_end"},
             Mem!SetFilePointer(Offset, Mode)
      PROVE  Mem!Stream!Next
  BY <1>5, SeekIsStreamSeek DEF Mem!Stream!Next
<1>6. ASSUME NEW data \in Mem!Data, Mem!Write(data) PROVE Mem!Stream!Next
  BY <1>6, WriteIsStreamWrite DEF Mem!Stream!Next
<1>7. ASSUME NEW octets \in Mem!Data, NEW Size \in Len(octets) .. SizeMax,
             Mem!WriteFrom(octets, Size), ~ Mem!Undefined
      PROVE  Mem!Stream!Next
  BY <1>7, WriteFromIsStreamFill DEF Mem!Stream!Next
<1>8. ASSUME NEW octets \in Mem!Data, NEW Size \in Len(octets) .. SizeMax,
             Mem!Refuse(Size)
      PROVE  Mem!Stream!Next
  <2>1. Size \in 0 .. SizeMax
    BY DataFacts, WordFacts
  <2>. QED
    BY <1>8, <2>1, RefuseIsStreamWrite DEF Mem!Stream!Next
<1>. QED
  BY <1>1, <1>2, <1>3, <1>4, <1>5, <1>6, <1>7, <1>8 DEF Mem!Next

(* Whatever its callers do, as long as it is defined, a buffer keeps the   *)
(* promise of IOCallback: what is read is what was written there, and the  *)
(* position moves by what the calls return.                                *)
THEOREM MemoryIsAStream == Mem!Spec => Mem!IsStream
<1>1. Mem!Init => Mem!Stream!Init
  <2>1. SUFFICES ASSUME Mem!Init PROVE Mem!Stream!Init
    OBVIOUS
  <2>2. Mem!Content \in Seq(Octet)
    BY <2>1, BufferAloneInit, ContentFacts
  <2>. QED
    BY <2>1, <2>2
       DEF Mem!Init, Mem!Stream!Init, Mem!Answer, Mem!NothingReturned,
           Mem!Stream!Answer
<1>2. Mem!Init => Mem!TypeOK
  BY BufferAloneInit
<1>3. Mem!TypeOK /\ [Mem!Next]_(Mem!memVars) => Mem!TypeOK'
  BY BufferNextInv
<1>4. Mem!TypeOK /\ [Mem!Next]_(Mem!memVars) => [Mem!Stream!Next]_(Mem!Stream!vars)
  BY BufferStreams
<1>. QED
  BY <1>1, <1>2, <1>3, <1>4, PTL DEF Mem!Spec, Mem!IsStream, Mem!Stream!Spec

-----------------------------------------------------------------------------
(***************************************************************************)
(* The file, and the copy from it to the buffer.                           *)
(***************************************************************************)

(* What the assumptions say of the file's constants.                      *)
LEMMA ParameterFacts ==
  /\ 0 \in Octet /\ SizeMax \in Nat /\ FileMax \in Nat /\ FileMax < Half
  /\ SizeMax < Half /\ Half \in Nat /\ Word = 2 * Half
  /\ Size_t = 0 .. Word - 1 /\ Std!Size_t = Size_t
  /\ Modes \subseteq {"MODE_READ", "MODE_SAFE", "MODE_WRITE", "MODE_CREATE"}
BY WordFacts, FileAssumption DEF Std!Size_t, Std!Word, Word

(* What is read from the file: octets, as many as are counted.             *)
LEMMA FileGives ==
  ASSUME Std!TypeOK, NEW Size \in Nat, Std!Read(Size)
  PROVE  /\ Std!Fread(Size) \in 0 .. Size
         /\ fileReturned'.octets \in Seq(Octet)
         /\ Len(fileReturned'.octets) = Std!Fread(Size)
<1>. DEFINE n == Std!Fread(Size)
            part == SubSeq(File, filePosition + 1, filePosition + n)
<1>1. /\ filePosition \in Nat /\ File \in Seq(Octet) /\ Len(File) \in Nat
  BY ParameterFacts DEF Std!TypeOK
<1>2. /\ n \in 0 .. Size /\ n \in Nat
      /\ n > 0 => filePosition + n <= Len(File)
  BY <1>1 DEF Std!Fread
<1>3. fileReturned'.octets = part
  BY DEF Std!Read, Std!Answer
<1>. HIDE DEF n
<1>4. \A i \in filePosition + 1 .. filePosition + n : File[i] \in Octet
  BY <1>1, <1>2
<1>5. /\ filePosition + 1 \in Int /\ filePosition + n \in Int
      /\ (filePosition + 1 <= filePosition + n <=> n > 0)
      /\ filePosition + n - (filePosition + 1) + 1 = n
  BY <1>1, <1>2
<1>6. part \in Seq(Octet) /\ Len(part) = n
  BY <1>1, <1>2, <1>4, <1>5, SubSeqProperties
<1>. QED
  BY <1>2, <1>3, <1>6 DEF n

(* It can be written to the buffer.                                        *)
LEMMA FileGivesData ==
  ASSUME Std!TypeOK, NEW Size \in 0 .. SizeMax, Std!Read(Size)
  PROVE  /\ fileReturned'.octets \in Mem!Data
         /\ Size \in Len(fileReturned'.octets) .. SizeMax
<1>. DEFINE part == fileReturned'.octets
            n == Std!Fread(Size)
<1>1. Size \in Nat /\ SizeMax \in Nat
  BY ParameterFacts
<1>2. n \in 0 .. Size /\ part \in Seq(Octet) /\ Len(part) = n
  BY <1>1, FileGives
<1>. HIDE DEF part, n
<1>3. part \in [1 .. n -> Octet] /\ n \in 0 .. SizeMax
  BY <1>1, <1>2
<1>. QED
  BY <1>1, <1>2, <1>3 DEF Mem!Data, part

(* What fwrite leaves is a sequence of octets, as long as it says.         *)
LEMMA FwrittenType ==
  ASSUME Std!TypeOK, NEW data \in Seq(Octet),
         filePosition + Len(data) <= FileMax
  PROVE  /\ Std!Fwritten(data) \in Seq(Octet)
         /\ Len(Std!Fwritten(data)) <= FileMax
<1>. DEFINE n == IF filePosition + Len(data) > Len(File)
                 THEN filePosition + Len(data) ELSE Len(File)
            f == Std!Fwritten(data)
<1>1. /\ n \in Nat /\ n <= FileMax
      /\ filePosition \in Nat /\ File \in Seq(Octet) /\ Len(data) \in Nat
  BY ParameterFacts DEF Std!TypeOK
<1>2. f = [i \in 1 .. n |->
             IF i - filePosition \in 1 .. Len(data) THEN data[i - filePosition]
             ELSE IF i <= Len(File) THEN File[i] ELSE 0]
  BY DEF Std!Fwritten
<1>. HIDE DEF n, f
<1>3. \A i \in 1 .. n :
        (IF i - filePosition \in 1 .. Len(data) THEN data[i - filePosition]
         ELSE IF i <= Len(File) THEN File[i] ELSE 0) \in Octet
  BY <1>1, ParameterFacts
<1>4. f \in Seq(Octet) /\ Len(f) = n
  BY <1>1, <1>2, <1>3
<1>. QED
  BY <1>1, <1>4 DEF f

(* The strengthening: the position that is kept is the file's.             *)
FileInv == Std!TypeOK /\ mCurrentPosition = filePosition

(* An opened file has the type, with both positions at the beginning.      *)
LEMMA FileInitInv == Init => FileInv
<1>1. SUFFICES ASSUME Init PROVE FileInv
  OBVIOUS
<1>2. /\ filePosition = 0 /\ mCurrentPosition = 0
      /\ transfer = "none" /\ mode \in Modes
      /\ fileReturned = [asked |-> 0, octets |-> << >>, count |-> 0]
  BY <1>1 DEF Init, Std!Init, Std!NothingReturned, Std!Answer
<1>3. File \in Seq(Octet) /\ Len(File) <= FileMax
  <2>1. CASE File = << >>
    BY <2>1, ParameterFacts
  <2>2. CASE \E n \in 0 .. FileMax : File \in [1 .. n -> Octet]
    BY <2>2, ParameterFacts
  <2>. QED
    BY <1>1, <2>1, <2>2 DEF Init, Std!Init
<1>. QED
  BY <1>2, <1>3, ParameterFacts DEF FileInv, Std!TypeOK

(* A read keeps the two positions of the file equal.                       *)
LEMMA FileReadInv ==
  ASSUME FileInv, NEW Size \in Size_t, Std!Read(Size)
  PROVE  FileInv'
<1>1. /\ UNCHANGED <<File, mode>> /\ transfer' = "read"
      /\ filePosition' = filePosition + Std!Fread(Size)
      /\ mCurrentPosition' = mCurrentPosition + Std!Fread(Size)
      /\ fileReturned'.asked = Size /\ fileReturned'.count = Std!Fread(Size)
  BY DEF Std!Read, Std!Advanced, Std!Answer
<1>2. /\ Std!Fread(Size) \in 0 .. Size /\ Size \in Nat
      /\ filePosition + Std!Fread(Size) \in 0 .. FileMax
  BY ParameterFacts DEF FileInv, Std!TypeOK, Std!Fread
<1>3. fileReturned'.octets \in Seq(Octet)
  BY <1>2, FileGives DEF FileInv
<1>. QED
  BY <1>1, <1>2, <1>3, ParameterFacts DEF FileInv, Std!TypeOK

(* A seek keeps the two positions of the file equal.                       *)
LEMMA FileSeekInv ==
  ASSUME FileInv, NEW Offset \in Int,
         NEW Mode \in {"SEEK_SET", "SEEK_CUR", "SEEK_END"},
         Std!SetFilePointer(Offset, Mode)
  PROVE  FileInv'
<1>1. /\ UNCHANGED <<File, mode>> /\ transfer' = "none"
      /\ fileReturned' = [asked |-> 0, octets |-> << >>, count |-> 0]
      /\ filePosition' \in 0 .. FileMax
  BY DEF Std!SetFilePointer, Std!NothingReturned, Std!Answer
<1>2. mCurrentPosition' = filePosition'
  <2>1. CASE Mode = "SEEK_SET"
    BY <2>1 DEF Std!SetFilePointer, Std!Target
  <2>2. CASE Mode = "SEEK_CUR"
    BY <2>2, ParameterFacts DEF Std!SetFilePointer, Std!Target, FileInv, Std!TypeOK
  <2>3. CASE Mode = "SEEK_END"
    BY <2>3 DEF Std!SetFilePointer
  <2>. QED
    BY <2>1, <2>2, <2>3
<1>. QED
  BY <1>1, <1>2, ParameterFacts DEF FileInv, Std!TypeOK

(* A write keeps the two positions of the file equal, also a short one.    *)
LEMMA FileWriteInv ==
  ASSUME FileInv, NEW data \in Data, Std!Write(data)
  PROVE  FileInv'
<1>1. /\ data \in Seq(Octet) /\ Len(data) \in 0 .. SizeMax
      /\ Len(data) \in Nat
  <2>1. PICK n \in 0 .. SizeMax : data \in [1 .. n -> Octet]
    BY DEF Data
  <2>. QED
    BY <2>1, ParameterFacts
<1>2. PICK Result \in 0 .. Len(data) :
        /\ filePosition + Result <= FileMax
        /\ File' = IF Result = 0 THEN File
                   ELSE Std!Fwritten(SubSeq(data, 1, Result))
        /\ filePosition' = filePosition + Result
        /\ mCurrentPosition' = mCurrentPosition + Result
        /\ fileReturned' = [asked |-> Len(data), octets |-> << >>,
                            count |-> Result]
        /\ UNCHANGED mode /\ transfer' = "write"
  BY DEF Std!Write, Std!Advanced, Std!Answer
<1>3. /\ SubSeq(data, 1, Result) \in Seq(Octet)
      /\ Len(SubSeq(data, 1, Result)) = Result
  <2>1. \A i \in 1 .. Result : data[i] \in Octet
    BY <1>1
  <2>2. 1 \in Int /\ Result \in Int /\ (1 <= Result <=> Result # 0)
        /\ Result - 1 + 1 = Result
    BY <1>1
  <2>. QED
    BY <2>1, <2>2, SubSeqProperties
<1>4. File' \in Seq(Octet) /\ Len(File') <= FileMax
  <2>1. CASE Result = 0
    BY <1>2, <2>1 DEF FileInv, Std!TypeOK
  <2>2. CASE Result # 0
    BY <1>2, <1>3, <2>2, FwrittenType DEF FileInv
  <2>. QED
    BY <2>1, <2>2
<1>. QED
  BY <1>1, <1>2, <1>4, ParameterFacts DEF FileInv, Std!TypeOK

(* A seek that fails changes nothing.                                      *)
LEMMA FailsUnchanged ==
  ASSUME NEW Offset, NEW Mode, Std!SeekFails(Offset, Mode)
  PROVE  UNCHANGED stdVars
BY DEF Std!SeekFails, Std!stdVars, stdVars

(* Every call keeps the file what it is.                                   *)
LEMMA FileStepInv ==
  ASSUME FileInv, [Next]_vars
  PROVE  FileInv'
<1>1. CASE \E Size \in Size_t : Std!Read(Size)
  BY <1>1, FileReadInv
<1>2. CASE \E Offset \in Offsets, Mode \in {"SEEK_SET", "SEEK_CUR", "SEEK_END"} :
             Std!SetFilePointer(Offset, Mode)
  BY <1>2, FileSeekInv, ParameterFacts DEF Offsets
<1>3. CASE \E data \in Data : Std!Write(data)
  BY <1>3, FileWriteInv
<1>4. CASE Std!Close
  BY <1>4, ParameterFacts DEF Std!Close, FileInv, Std!TypeOK
<1>5. CASE UNCHANGED stdVars
  BY <1>5 DEF stdVars, FileInv, Std!TypeOK
<1>6. CASE \E Size \in 0 .. SizeMax : Copy(Size)
  BY <1>1, <1>5, <1>6, ParameterFacts DEF Copy, ReadFully
<1>. QED
  BY <1>1, <1>2, <1>3, <1>4, <1>5, <1>6, FailsUnchanged
     DEF Next, OnFile, OnMemory, vars

-----------------------------------------------------------------------------
(* Each call of the file is one of the calls IOCallback promises.          *)
LEMMA FileReadStreams ==
  ASSUME FileInv, NEW Size \in Size_t, Std!Read(Size)
  PROVE  Std!Stream!Read(Size)
<1>1. /\ filePosition \in Nat /\ mCurrentPosition = filePosition
      /\ Len(File) \in Nat /\ Size \in Nat
  BY ParameterFacts DEF FileInv, Std!TypeOK
<1>2. Std!Fread(Size) \in {0, Std!Stream!Available(Size)}
  BY <1>1 DEF Std!Fread, Std!Stream!Available
<1>. QED
  BY <1>1, <1>2 DEF Std!Read, Std!Advanced, Std!Answer,
                    Std!Stream!Read, Std!Stream!Answer

(* A seek of the file is that of the stream.                               *)
LEMMA FileSeekStreams ==
  ASSUME FileInv, FileInv', NEW Offset \in Int,
         NEW Mode \in {"SEEK_SET", "SEEK_CUR", "SEEK_END"},
         Std!SetFilePointer(Offset, Mode)
  PROVE  Std!Stream!Seek
<1>1. mCurrentPosition' \in Nat
  BY DEF FileInv, Std!TypeOK
<1>. QED
  BY <1>1 DEF Std!SetFilePointer, Std!NothingReturned, Std!Answer,
              Std!Stream!Seek, Std!Stream!Answer

(* fwrite puts the octets it says it wrote where the position was, and     *)
(* leaves the others.                                                      *)
LEMMA FwrittenHolds ==
  ASSUME FileInv, NEW data \in Seq(Octet), Len(data) > 0,
         File' = Std!Fwritten(data)
  PROVE  Std!Stream!Holds(data)
<1>. DEFINE n == IF filePosition + Len(data) > Len(File)
                 THEN filePosition + Len(data) ELSE Len(File)
<1>1. /\ filePosition \in Nat /\ mCurrentPosition = filePosition
      /\ Len(File) \in Nat /\ Len(data) \in Nat
  BY DEF FileInv, Std!TypeOK
<1>2. File' = [i \in 1 .. n |->
                 IF i - filePosition \in 1 .. Len(data)
                 THEN data[i - filePosition]
                 ELSE IF i <= Len(File) THEN File[i] ELSE 0]
  BY DEF Std!Fwritten
<1>3. /\ n \in Nat /\ n >= filePosition + Len(data) /\ n >= Len(File)
      /\ n = IF mCurrentPosition + Len(data) > Len(File)
             THEN mCurrentPosition + Len(data) ELSE Len(File)
  BY <1>1
<1>. HIDE DEF n
<1>4. DOMAIN File' = 1 .. n
  BY <1>2
<1>5. ASSUME NEW i \in 1 .. Len(data)
      PROVE  File'[mCurrentPosition + i] = data[i]
  <2>1. /\ filePosition + i \in 1 .. n
        /\ filePosition + i - filePosition = i
    BY <1>1, <1>3
  <2>. QED
    BY <1>1, <1>2, <2>1
<1>6. ASSUME NEW i \in 1 .. Len(File),
             i <= mCurrentPosition \/ i > mCurrentPosition + Len(data)
      PROVE  File'[i] = File[i]
  <2>1. /\ i \in 1 .. n /\ i <= Len(File)
        /\ i - filePosition \notin 1 .. Len(data)
    BY <1>1, <1>3, <1>6
  <2>. QED
    BY <1>2, <2>1
<1>. QED
  BY <1>3, <1>4, <1>5, <1>6 DEF Std!Stream!Holds

(* A write of the file, also a short one, is that of the stream.           *)
LEMMA FileWriteStreams ==
  ASSUME FileInv, NEW data \in Data, Std!Write(data)
  PROVE  Std!Stream!Write(data)
<1>1. /\ data \in Seq(Octet) /\ Len(data) \in Nat
      /\ mCurrentPosition = filePosition
  <2>1. PICK n \in 0 .. SizeMax : data \in [1 .. n -> Octet]
    BY DEF Data
  <2>. QED
    BY <2>1, ParameterFacts DEF FileInv
<1>2. PICK Result \in 0 .. Len(data) :
        /\ File' = IF Result = 0 THEN File
                   ELSE Std!Fwritten(SubSeq(data, 1, Result))
        /\ mCurrentPosition' = mCurrentPosition + Result
        /\ fileReturned' = [asked |-> Len(data), octets |-> << >>,
                            count |-> Result]
  BY DEF Std!Write, Std!Advanced, Std!Answer
<1>3. Result # 0 => Std!Stream!Holds(SubSeq(data, 1, Result))
  <2>1. SUFFICES ASSUME Result # 0
                 PROVE  Std!Stream!Holds(SubSeq(data, 1, Result))
    OBVIOUS
  <2>2. /\ \A i \in 1 .. Result : data[i] \in Octet
        /\ 1 \in Int /\ Result \in Int /\ 1 <= Result
        /\ Result - 1 + 1 = Result
    BY <1>1, <2>1
  <2>3. /\ SubSeq(data, 1, Result) \in Seq(Octet)
        /\ Len(SubSeq(data, 1, Result)) = Result
    BY <2>2, SubSeqProperties
  <2>4. Len(SubSeq(data, 1, Result)) > 0
    BY <2>2, <2>3
  <2>. QED
    BY <1>2, <2>1, <2>3, <2>4, FwrittenHolds
<1>. QED
  BY <1>2, <1>3 DEF Std!Stream!Write, Std!Stream!Answer

(* Every call of the file is one of those IOCallback promises.             *)
LEMMA FileStreams ==
  ASSUME FileInv, FileInv', [Next]_vars
  PROVE  [Std!Stream!Next]_(Std!Stream!vars)
<1>1. CASE \E Size \in Size_t : Std!Read(Size)
  BY <1>1, FileReadStreams, ParameterFacts DEF Std!Stream!Next
<1>2. CASE \E Offset \in Offsets, Mode \in {"SEEK_SET", "SEEK_CUR", "SEEK_END"} :
             Std!SetFilePointer(Offset, Mode)
  BY <1>2, FileSeekStreams, ParameterFacts DEF Std!Stream!Next, Offsets
<1>3. CASE \E data \in Data : Std!Write(data)
  <2>1. PICK data \in Data : Std!Write(data)
    BY <1>3
  <2>2. Std!Stream!Write(data) /\ data \in Std!Stream!Data
    BY <2>1, FileWriteStreams DEF Data, Std!Stream!Data
  <2>. QED
    BY <2>2 DEF Std!Stream!Next
<1>4. CASE UNCHANGED <<File, mCurrentPosition, fileReturned>>
  BY <1>4 DEF Std!Stream!vars
<1>5. CASE UNCHANGED stdVars
  BY <1>4, <1>5 DEF stdVars
<1>6. CASE \E Size \in 0 .. SizeMax : Copy(Size)
  BY <1>1, <1>5, <1>6, ParameterFacts DEF Copy, ReadFully
<1>. QED
  BY <1>1, <1>2, <1>3, <1>4, <1>5, <1>6, FailsUnchanged
     DEF Next, OnFile, OnMemory, Std!Close, vars

(* The position the class keeps is the file's, so what it reads and writes *)
(* is where IOCallback promises, for every file and every size of a call.  *)
THEOREM FileIsAStream == Spec => FileIsStream
<1>1. Init => Std!Stream!Init
  <2>1. SUFFICES ASSUME Init PROVE Std!Stream!Init
    OBVIOUS
  <2>2. File \in Seq(Octet) /\ mCurrentPosition = 0
    BY <2>1, FileInitInv DEF FileInv, Std!TypeOK, Init, Std!Init
  <2>. QED
    BY <2>1, <2>2 DEF Init, Std!Init, Std!NothingReturned, Std!Answer,
                      Std!Stream!Init, Std!Stream!Answer
<1>2. FileInv /\ FileInv' /\ [Next]_vars => [Std!Stream!Next]_(Std!Stream!vars)
  BY FileStreams
<1>3. Init => FileInv
  BY FileInitInv
<1>4. FileInv /\ [Next]_vars => FileInv'
  BY FileStepInv
<1>. QED
  BY <1>1, <1>2, <1>3, <1>4, PTL
     DEF Spec, FileIsStream, Std!IsStream, Std!Stream!Spec

-----------------------------------------------------------------------------
(* The buffer's part of a step is a step of the buffer's own.              *)
LEMMA BufferStep ==
  ASSUME FileInv, [Next]_vars
  PROVE  [Mem!Next]_(Mem!memVars)
<1>1. SUFFICES Mem!Next \/ UNCHANGED memVars
  BY DEF memVars, Mem!memVars, Mem!buffer
<1>2. CASE UNCHANGED vars
  BY <1>2 DEF vars
<1>3. CASE OnFile
  BY <1>3 DEF OnFile
<1>4. CASE ~ undefined /\ OnMemory
  BY <1>4, WordFacts
     DEF OnMemory, Mem!Next, Mem!Data, Mem!Offsets, Data, Offsets
<1>5. ASSUME ~ undefined, NEW Size \in 0 .. SizeMax, Copy(Size) PROVE Mem!Next
  <2>1. SizeMax \in Nat
    BY WordAssumption
  <2>2. << >> \in Mem!Data /\ Size \in Len(<< >>) .. SizeMax
    BY <2>1 DEF Mem!Data
  <2>3. CASE Mem!Refuse(Size)
    BY <1>5, <2>2, <2>3 DEF Mem!Next
  <2>4. CASE Size = 0 /\ Mem!WriteFrom(<< >>, Size)
    BY <1>5, <2>2, <2>4 DEF Mem!Next
  <2>5. CASE Std!Read(Size) /\ Mem!WriteFrom(fileReturned'.octets, Size)
    <3>. DEFINE octets == fileReturned'.octets
    <3>1. octets \in Mem!Data /\ Size \in Len(octets) .. SizeMax
      BY <2>5, FileGivesData DEF FileInv
    <3>. QED
      BY <1>5, <2>5, <3>1 DEF Mem!Next
  <2>. QED
    BY <1>5, <2>3, <2>4, <2>5 DEF Copy, ReadFully
<1>. QED
  BY <1>1, <1>2, <1>3, <1>4, <1>5 DEF Next

(* So the buffer keeps its invariant while it is filled from the file.     *)
LEMMA BufferInitInv == Init => Mem!TypeOK
BY BufferAloneInit DEF Init

(* Every step of the program keeps the type of the buffer.                 *)
LEMMA BufferStepInv ==
  ASSUME FileInv, Mem!TypeOK, [Next]_vars
  PROVE  Mem!TypeOK'
BY BufferStep, BufferNextInv

(* The buffer's indices stay words and its memory as long as it says, for  *)
(* every width of a word, sums that wrap and memory that does not grow     *)
(* included; and the file's position stays in its bound.                   *)
THEOREM BufferTypeCorrect == Spec => []TypeOK
<1>1. Init => FileInv /\ Mem!TypeOK
  BY FileInitInv, BufferInitInv
<1>2. FileInv /\ Mem!TypeOK /\ [Next]_vars => (FileInv /\ Mem!TypeOK)'
  BY FileStepInv, BufferStepInv
<1>3. FileInv /\ Mem!TypeOK => TypeOK
  BY DEF FileInv, TypeOK
<1>. QED
  BY <1>1, <1>2, <1>3, PTL DEF Spec

(* The buffer's part of a behaviour is one of the buffer alone.            *)
LEMMA BufferAlone == Spec => Mem!Spec
<1>1. Init => Mem!Init /\ FileInv
  BY FileInitInv DEF Init
<1>2. FileInv /\ [Next]_vars => [Mem!Next]_(Mem!memVars)
  BY BufferStep
<1>3. FileInv /\ [Next]_vars => FileInv'
  BY FileStepInv
<1>. QED
  BY <1>1, <1>2, <1>3, PTL DEF Spec, Mem!Spec

(* Filled from a file or written to, a buffer within its data copies       *)
(* nothing from or to outside of it, whatever the size it is asked for,    *)
(* and leaves its data by nothing but a seek, a size that is set, or a     *)
(* filling that ends before its position.                                  *)
THEOREM NothingLeavesTheBuffer == Spec => BufferStaysInside
BY BufferAlone, StaysInside, PTL DEF BufferStaysInside

(* The buffer keeps the promise of IOCallback also when it is filled from  *)
(* the file, for every size of both and wherever its position is.          *)
THEOREM BufferIsStream == Spec => MemoryIsStream
BY BufferAlone, MemoryIsAStream, PTL DEF MemoryIsStream

-----------------------------------------------------------------------------
(* What the view shows are octets of the buffer, and its position is       *)
(* within them.                                                            *)
ViewInv == view \in Seq(Octet) /\ mPtr \in 0 .. Len(view)

(* Until a reader is made nobody has asked anything.                       *)
ReaderInv ==
  /\ ViewInv /\ Len(view) < Half /\ Mem!TypeOK /\ FileInv
  /\ over \in {"none", "open", "view", "file"}
  /\ over \in {"none", "open"} => outcome = NoOutcome
  /\ over = "none" => view = << >>
  /\ over = "view" => mSize = Len(view)

-----------------------------------------------------------------------------
(* What a view gives is octets, as many as it says.                        *)
LEMMA ViewReadGives ==
  ASSUME ViewInv, NEW Size \in Nat, View!Read(Size)
  PROVE  /\ ViewInv' /\ UNCHANGED view
         /\ View!ReadSize(Size) \in 0 .. Size
         /\ mPtr' = mPtr + View!ReadSize(Size)
         /\ viewReturned'.count = View!ReadSize(Size)
         /\ viewReturned'.octets = SubSeq(view, mPtr + 1, mPtr')
         /\ Len(viewReturned'.octets) = View!ReadSize(Size)
<1>. DEFINE n == View!ReadSize(Size)
<1>1. /\ view \in Seq(Octet) /\ Len(view) \in Nat
      /\ mPtr \in Nat /\ mPtr <= Len(view) /\ Size \in Nat
  BY DEF ViewInv
<1>2. n \in 0 .. Size /\ mPtr + n <= Len(view) /\ n \in Nat
  BY <1>1 DEF View!ReadSize, View!RemainingBytes
<1>3. /\ view' = view /\ mPtr' = mPtr + n
      /\ viewReturned' = [asked |-> Size, count |-> n,
                          octets |-> SubSeq(view, mPtr + 1, mPtr + n)]
  BY DEF View!Read, View!Answer
<1>. HIDE DEF n
<1>4. Len(SubSeq(view, mPtr + 1, mPtr + n)) = n
  BY <1>1, <1>2, SubSeqProperties
<1>5. mPtr' \in 0 .. Len(view')
  BY <1>1, <1>2, <1>3
<1>. QED
  BY <1>1, <1>2, <1>3, <1>4, <1>5 DEF ViewInv, n

(* A seek ends at the nearest position inside, or where the sum wraps to. *)
LEMMA ViewSeekGives ==
  ASSUME ViewInv, NEW Offset \in Offsets,
         NEW Mode \in {"seek_beginning", "seek_current", "seek_end"},
         View!SetFilePointer(Offset, Mode)
  PROVE  /\ ViewInv' /\ UNCHANGED view
         /\ viewReturned' = [asked |-> 0, octets |-> << >>, count |-> 0]
         /\ Mode = "seek_beginning" => mPtr' = View!Clamped(Offset)
         /\ Mode = "seek_current" =>
              \/ mPtr' = View!Clamped(mPtr + Offset)
              \/ /\ mPtr + Offset >= Half
                 /\ mPtr' = View!Clamped(mPtr + Offset - Word)
<1>1. /\ view \in Seq(Octet) /\ Len(view) \in Nat /\ mPtr \in Nat
      /\ Half \in Nat /\ Word \in Nat /\ View!Word = Word
      /\ Offset \in Int /\ Offset < Half
  BY WordFacts DEF ViewInv, Offsets, View!Word, Word
<1>2. PICK base \in {0, Len(view), mPtr} :
        /\ \/ mPtr' = View!Clamped(base + Offset)
           \/ /\ base + Offset >= Half
              /\ mPtr' = View!Clamped(base + Offset - Word)
        /\ Mode = "seek_beginning" => base = 0
        /\ Mode = "seek_current" => base = mPtr
  <2>1. ASSUME NEW base \in {0, Len(view), mPtr},
               \E NewPosition \in View!SignedSum(base, Offset) :
                 mPtr' = View!Clamped(NewPosition)
        PROVE  \/ mPtr' = View!Clamped(base + Offset)
               \/ /\ base + Offset >= Half
                  /\ mPtr' = View!Clamped(base + Offset - Word)
    BY <1>1, <2>1 DEF View!SignedSum
  <2>2. CASE Mode = "seek_beginning"
    BY <2>1, <2>2 DEF View!SetFilePointer
  <2>3. CASE Mode = "seek_current"
    BY <2>1, <2>3 DEF View!SetFilePointer
  <2>4. CASE Mode = "seek_end"
    BY <2>1, <2>4 DEF View!SetFilePointer
  <2>. QED
    BY <2>2, <2>3, <2>4
<1>3. mPtr' \in 0 .. Len(view)
  BY <1>1, <1>2 DEF View!Clamped
<1>4. view' = view /\ viewReturned' = [asked |-> 0, octets |-> << >>, count |-> 0]
  BY DEF View!SetFilePointer, View!NothingReturned, View!Answer
<1>5. Mode = "seek_beginning" => mPtr' = View!Clamped(Offset)
  BY <1>1, <1>2
<1>. QED
  BY <1>1, <1>2, <1>3, <1>4, <1>5 DEF ViewInv

(* A view made of the buffer's data is octets, as few as a vector has.     *)
LEMMA MadeViewInv ==
  ASSUME Mem!TypeOK, NEW from \in Nat, MakeView(from)
  PROVE  ViewInv' /\ Len(view') < Half
<1>. DEFINE n == dataBufferTotalSize
            rest == SubSeq(Mem!Content, from + 1, Len(Mem!Content))
<1>1. /\ n \in Nat /\ n < Half /\ from <= n /\ Half \in Nat
      /\ Mem!Content \in Seq(Octet) /\ Len(Mem!Content) = n
      /\ DOMAIN Mem!Content = 1 .. n
  BY BufferFacts, ContentFacts, WordFacts DEF MakeView
<1>2. view' = rest /\ mPtr' = 0
  BY DEF MakeView, View!Open
<1>3. rest \in Seq(Octet) /\ Len(rest) = n - from
  <2>1. \A i \in from + 1 .. n : Mem!Content[i] \in Octet
    BY <1>1
  <2>. QED
    BY <1>1, <2>1, SubSeqProperties
<1>. HIDE DEF rest
<1>4. Len(view') = n - from /\ n - from \in Nat /\ n - from < Half
  BY <1>1, <1>2, <1>3
<1>5. view' \in Seq(Octet) /\ mPtr' \in 0 .. Len(view')
  BY <1>2, <1>3, <1>4
<1>. QED
  BY <1>4, <1>5 DEF ViewInv

-----------------------------------------------------------------------------
(* The reader's calls keep the view and the file what they are.            *)
LEMMA ReadStreamInv ==
  ASSUME ReaderInv, NEW Size \in Size_t, ReadStream(Size)
  PROVE  /\ ViewInv' /\ FileInv' /\ Mem!TypeOK'
         /\ UNCHANGED <<view, over, mSize>>
<1>1. Size \in Nat /\ ViewInv /\ FileInv /\ Mem!TypeOK
  BY ParameterFacts DEF ReaderInv
<1>2. UNCHANGED <<memVars, over, mSize>>
  BY DEF ReadStream
<1>3. Mem!TypeOK'
  BY <1>1, <1>2 DEF memVars, Mem!TypeOK
<1>4. CASE over = "view"
  <2>1. View!Read(Size) /\ UNCHANGED stdVars
    BY <1>4 DEF ReadStream
  <2>2. FileInv'
    BY <1>1, <2>1 DEF stdVars, FileInv, Std!TypeOK
  <2>. QED
    BY <1>1, <1>2, <1>3, <2>1, <2>2, ViewReadGives
<1>5. CASE over # "view"
  <2>1. Std!Read(Size) /\ UNCHANGED viewVars
    BY <1>5 DEF ReadStream
  <2>2. ViewInv' /\ UNCHANGED view
    BY <1>1, <2>1 DEF viewVars, ViewInv
  <2>. QED
    BY <1>1, <1>2, <1>3, <2>1, <2>2, FileReadInv
<1>. QED
  BY <1>4, <1>5

(* A seek by the reader keeps the view and the file what they are.         *)
LEMMA SeekStreamInv ==
  ASSUME ReaderInv, NEW Offset \in Offsets,
         NEW viewMode \in {"seek_beginning", "seek_current", "seek_end"},
         NEW fileMode \in {"SEEK_SET", "SEEK_CUR", "SEEK_END"},
         SeekStream(Offset, viewMode, fileMode)
  PROVE  /\ ViewInv' /\ FileInv' /\ Mem!TypeOK'
         /\ UNCHANGED <<view, over, mSize>>
<1>1. ViewInv /\ FileInv /\ Mem!TypeOK
  BY DEF ReaderInv
<1>2. UNCHANGED <<memVars, over, mSize>>
  BY DEF SeekStream
<1>3. Mem!TypeOK'
  BY <1>1, <1>2 DEF memVars, Mem!TypeOK
<1>4. CASE over = "view"
  <2>1. View!SetFilePointer(Offset, viewMode) /\ UNCHANGED stdVars
    BY <1>4 DEF SeekStream
  <2>2. FileInv'
    BY <1>1, <2>1 DEF stdVars, FileInv, Std!TypeOK
  <2>. QED
    BY <1>1, <1>2, <1>3, <2>1, <2>2, ViewSeekGives
<1>5. CASE over # "view"
  <2>1. /\ Std!SetFilePointer(Offset, fileMode) \/ Std!SeekFails(Offset, fileMode)
        /\ UNCHANGED viewVars
    BY <1>5 DEF SeekStream
  <2>2. ViewInv' /\ UNCHANGED view
    BY <1>1, <2>1 DEF viewVars, ViewInv
  <2>3. ASSUME Std!SetFilePointer(Offset, fileMode) PROVE FileInv'
    BY <1>1, <2>3, FileSeekInv, ParameterFacts DEF Offsets
  <2>4. ASSUME Std!SeekFails(Offset, fileMode) PROVE FileInv'
    BY <1>1, <2>4, FailsUnchanged DEF stdVars, FileInv, Std!TypeOK
  <2>. QED
    BY <1>2, <1>3, <2>1, <2>2, <2>3, <2>4
<1>. QED
  BY <1>4, <1>5

(* The octets GetUIntBE asks for are a size.                               *)
LEMMA ClampedCount ==
  ASSUME NEW n \in Size_t
  PROVE  Clamp(n) \in Size_t
BY ParameterFacts, ReaderAssumption DEF Clamp

(* What a size is read as is an offset.                                    *)
LEMMA SignedIsOffset ==
  ASSUME NEW n \in Size_t
  PROVE  Signed(n) \in Offsets
BY ParameterFacts DEF Signed, Offsets

(* A call of the reader reads or seeks, in the stream it has.              *)
Call ==
  \E n \in Size_t : Read(n) \/ GetUIntBE(n) \/ Skip(n) \/ Seek(n)

(* A call of the reader keeps its invariant.                               *)
LEMMA CallInv ==
  ASSUME ReaderInv, Call
  PROVE  /\ ReaderInv' /\ over \in {"view", "file"}
         /\ UNCHANGED <<view, over, mSize>>
<1>1. PICK n \in Size_t : Read(n) \/ GetUIntBE(n) \/ Skip(n) \/ Seek(n)
  BY DEF Call
<1>2. Signed(n) \in Offsets /\ Clamp(n) \in Size_t
  BY SignedIsOffset, ClampedCount
<1>3. /\ ViewInv' /\ FileInv' /\ Mem!TypeOK' /\ UNCHANGED <<view, over, mSize>>
      /\ over \in {"view", "file"}
  <2>1. CASE Read(n)
    BY <2>1, ReadStreamInv DEF Read, ReadStream
  <2>2. CASE GetUIntBE(n)
    BY <1>2, <2>2, ReadStreamInv DEF GetUIntBE, Read, ReadStream
  <2>3. CASE Skip(n)
    BY <1>2, <2>3, SeekStreamInv DEF Skip, SeekStream
  <2>4. CASE Seek(n)
    BY <1>2, <2>4, SeekStreamInv DEF Seek, SeekStream
  <2>. QED
    BY <1>1, <2>1, <2>2, <2>3, <2>4
<1>. QED
  BY <1>3 DEF ReaderInv

(* What becomes of a view before a reader gets it.                         *)
LEMMA UseViewInv ==
  ASSUME ReaderInv, UseView
  PROVE  ReaderInv'
<1>1. ViewInv' /\ UNCHANGED view
  <2>1. CASE \E Size \in Size_t : View!Read(Size)
    BY <2>1, ParameterFacts, ViewReadGives DEF ReaderInv
  <2>2. CASE \E Offset \in Offsets,
                Mode \in {"seek_beginning", "seek_current", "seek_end"} :
               View!SetFilePointer(Offset, Mode)
    BY <2>2, ParameterFacts, ViewSeekGives DEF ReaderInv, Offsets
  <2>. QED
    BY <2>1, <2>2 DEF UseView
<1>2. UNCHANGED <<vars, over, mSize, outcome>> /\ over = "open"
  BY DEF UseView
<1>3. Mem!TypeOK' /\ FileInv'
  BY <1>2 DEF ReaderInv, vars, memVars, stdVars, Mem!TypeOK, FileInv, Std!TypeOK
<1>. QED
  BY <1>1, <1>2, <1>3 DEF ReaderInv

(* The invariant holds before there is a reader.                           *)
LEMMA ReaderInitInv == ReaderInit => ReaderInv
<1>1. SUFFICES ASSUME ReaderInit PROVE ReaderInv
  OBVIOUS
<1>2. Mem!TypeOK /\ FileInv
  BY <1>1, BufferInitInv, FileInitInv DEF ReaderInit
<1>3. view = << >> /\ mPtr = 0 /\ over = "none" /\ outcome = NoOutcome
  BY <1>1 DEF ReaderInit, View!Init
<1>4. view \in Seq(Octet) /\ Len(view) = 0 /\ mPtr \in 0 .. Len(view)
  BY <1>3
<1>. QED
  BY <1>2, <1>3, <1>4, WordAssumption DEF ReaderInv, ViewInv

(* Every step keeps the invariant of the reader.                           *)
LEMMA ReaderStepInv ==
  ASSUME ReaderInv, [ReaderNext]_<<vars, readerVars>>
  PROVE  ReaderInv'
<1>1. ASSUME UNCHANGED vars PROVE Mem!TypeOK' /\ FileInv'
  BY <1>1 DEF ReaderInv, vars, memVars, stdVars, Mem!TypeOK, FileInv, Std!TypeOK
<1>2. CASE Next /\ UNCHANGED readerVars
  <2>1. Mem!TypeOK' /\ FileInv'
    BY <1>2, BufferStepInv, FileStepInv DEF ReaderInv
  <2>. QED
    BY <1>2, <2>1 DEF ReaderInv, ViewInv, readerVars, viewVars
<1>3. ASSUME NEW from \in 0 .. SizeMax, MakeView(from) PROVE ReaderInv'
  <2>1. ViewInv' /\ Len(view') < Half
    BY <1>3, ParameterFacts, MadeViewInv DEF ReaderInv
  <2>2. over = "none" /\ over' = "open" /\ UNCHANGED <<vars, mSize, outcome>>
    BY <1>3 DEF MakeView
  <2>. QED
    BY <1>1, <2>1, <2>2 DEF ReaderInv
<1>4. CASE UseView
  BY <1>4, UseViewInv
<1>5. CASE MakeOverView
  BY <1>1, <1>5 DEF MakeOverView, ReaderInv, ViewInv, viewVars
<1>6. CASE MakeOverFile
  <2>1. mCurrentPosition \in Int
    BY DEF ReaderInv, FileInv, Std!TypeOK
  <2>2. FileInv'
    BY <1>6, <2>1, FileSeekInv DEF MakeOverFile, ReaderInv
  <2>3. Mem!TypeOK'
    BY <1>6 DEF MakeOverFile, memVars, ReaderInv, Mem!TypeOK
  <2>. QED
    BY <1>6, <2>2, <2>3 DEF MakeOverFile, ReaderInv, ViewInv, viewVars
<1>7. CASE Call
  BY <1>7, CallInv
<1>8. CASE UNCHANGED <<vars, readerVars>>
  BY <1>1, <1>8 DEF ReaderInv, ViewInv, readerVars, viewVars
<1>. QED
  BY <1>2, <1>3, <1>4, <1>5, <1>6, <1>7, <1>8 DEF ReaderNext, UseReader, Call

-----------------------------------------------------------------------------
(* Each call of a view is one of the calls IOCallback promises.            *)
LEMMA ViewReadStreams ==
  ASSUME ViewInv, NEW Size \in Size_t, View!Read(Size)
  PROVE  View!Stream!Next
<1>1. Size \in Nat /\ mPtr \in Nat /\ Len(view) \in Nat /\ mPtr <= Len(view)
  BY ParameterFacts DEF ViewInv
<1>2. View!ReadSize(Size) = View!Stream!Available(Size)
  BY <1>1 DEF View!ReadSize, View!RemainingBytes, View!Stream!Available
<1>3. View!Stream!Read(Size)
  BY <1>2 DEF View!Read, View!Answer, View!Stream!Read, View!Stream!Answer
<1>4. Size \in View!Size_t
  BY DEF View!Size_t, View!Word, Size_t, Word
<1>. QED
  BY <1>3, <1>4 DEF View!Stream!Next

(* A seek of the view is that of the stream.                               *)
LEMMA ViewSeekStreams ==
  ASSUME ViewInv, NEW Offset \in Offsets,
         NEW Mode \in {"seek_beginning", "seek_current", "seek_end"},
         View!SetFilePointer(Offset, Mode)
  PROVE  View!Stream!Next
<1>1. mPtr' \in Nat /\ UNCHANGED view
      /\ viewReturned' = [asked |-> 0, octets |-> << >>, count |-> 0]
  BY ViewSeekGives DEF ViewInv
<1>. QED
  BY <1>1 DEF View!Stream!Next, View!Stream!Seek, View!Stream!Answer

(* What the reader reads from a view is a read of the stream.              *)
LEMMA ReadStreamStreams ==
  ASSUME ReaderInv, NEW Size \in Size_t, ReadStream(Size)
  PROVE  [View!Stream!Next]_(View!Stream!vars)
BY ViewReadStreams DEF ReaderInv, ReadStream, viewVars, View!Stream!vars

(* Where the reader seeks in a view is a seek of the stream.               *)
LEMMA SeekStreamStreams ==
  ASSUME ReaderInv, NEW Offset \in Offsets,
         NEW viewMode \in {"seek_beginning", "seek_current", "seek_end"},
         NEW fileMode, SeekStream(Offset, viewMode, fileMode)
  PROVE  [View!Stream!Next]_(View!Stream!vars)
BY ViewSeekStreams DEF ReaderInv, SeekStream, viewVars, View!Stream!vars

(* Every step that concerns the view is one of those IOCallback promises.  *)
LEMMA ViewStreams ==
  ASSUME ReaderInv, [ReaderNext]_<<vars, readerVars>>
  PROVE  [View!Stream!Next]_(View!Stream!vars)
<1>1. CASE UNCHANGED viewVars
  BY <1>1 DEF viewVars, View!Stream!vars
<1>2. ASSUME NEW from \in 0 .. SizeMax, MakeView(from) PROVE View!Stream!Next
  <2>1. view = << >> /\ mPtr = 0
    BY <1>2 DEF MakeView, ReaderInv, ViewInv
  <2>2. mPtr' = mPtr /\ viewReturned' = [asked |-> 0, octets |-> << >>, count |-> 0]
    BY <1>2, <2>1 DEF MakeView, View!Open, View!NothingReturned, View!Answer
  <2>3. DOMAIN view = {}
    BY <2>1
  <2>. QED
    BY <2>2, <2>3 DEF View!Stream!Next, View!Stream!SetSize, View!Stream!Answer
<1>3. CASE UseView
  <2>1. CASE \E Size \in Size_t : View!Read(Size)
    BY <2>1, ViewReadStreams DEF ReaderInv
  <2>2. CASE \E Offset \in Offsets,
                Mode \in {"seek_beginning", "seek_current", "seek_end"} :
               View!SetFilePointer(Offset, Mode)
    BY <2>2, ParameterFacts, ViewSeekStreams DEF ReaderInv, Offsets
  <2>. QED
    BY <1>3, <2>1, <2>2 DEF UseView
<1>4. ASSUME NEW n \in Size_t, Read(n) \/ GetUIntBE(n) \/ Skip(n) \/ Seek(n)
      PROVE  [View!Stream!Next]_(View!Stream!vars)
  <2>1. Signed(n) \in Offsets /\ Clamp(n) \in Size_t
    BY SignedIsOffset, ClampedCount
  <2>2. CASE Read(n)
    BY <2>2, ReadStreamStreams DEF Read
  <2>3. CASE GetUIntBE(n)
    BY <2>1, <2>3, ReadStreamStreams DEF GetUIntBE, Read
  <2>4. CASE Skip(n)
    BY <2>1, <2>4, SeekStreamStreams DEF Skip
  <2>5. CASE Seek(n)
    BY <2>1, <2>5, SeekStreamStreams DEF Seek
  <2>. QED
    BY <1>4, <2>2, <2>3, <2>4, <2>5
<1>. QED
  BY <1>1, <1>2, <1>3, <1>4
     DEF ReaderNext, UseReader, MakeOverView, MakeOverFile, readerVars

(* A view clamps every position, so that whatever it is asked, by itself   *)
(* or by a reader, it reads what IOCallback promises, for every buffer.    *)
THEOREM ViewIsAStream == ReaderSpec => ViewIsStream
<1>1. ReaderInit => View!Stream!Init
  BY DEF ReaderInit, View!Init, View!NothingReturned, View!Answer,
         View!Stream!Init, View!Stream!Answer
<1>2. ReaderInit => ReaderInv
  BY ReaderInitInv
<1>3. ReaderInv /\ [ReaderNext]_<<vars, readerVars>> => ReaderInv'
  BY ReaderStepInv
<1>4. ReaderInv /\ [ReaderNext]_<<vars, readerVars>>
        => [View!Stream!Next]_(View!Stream!vars)
  BY ViewStreams
<1>. QED
  BY <1>1, <1>2, <1>3, <1>4, PTL
     DEF ReaderSpec, ViewIsStream, View!IsStream, View!Stream!Spec

-----------------------------------------------------------------------------
(* The difference of a size and a target, read as an unsigned word.        *)
LEMMA WordDifference ==
  ASSUME NEW n \in Int, - Word <= n, n < Word
  PROVE  Wrapped(n) = IF n < 0 THEN n + Word ELSE n
BY WordFacts DEF Wrapped

(* In a view, what is not read yet is what follows the position.           *)
ViewLeft ==
  over = "view" =>
    /\ Position = mPtr /\ mSize = Len(view) /\ mPtr \in 0 .. mSize
    /\ mSize \in Nat /\ mSize < Half
    /\ Position + GetRemainingBytes = mSize

(* The reader knows what is left of a view.                                *)
LEMMA ViewRemains == ReaderInv => ViewLeft
<1>. SUFFICES ASSUME ReaderInv, over = "view" PROVE ViewLeft
  BY DEF ViewLeft
<1>1. /\ Position = mPtr /\ mSize = Len(view) /\ mPtr \in 0 .. mSize
      /\ mSize \in Nat /\ mSize < Half
  BY DEF ReaderInv, ViewInv, Position
<1>2. /\ mSize - mPtr \in Int /\ 0 <= mSize - mPtr
      /\ - Word <= mSize - mPtr /\ mSize - mPtr < Word
  BY <1>1, WordFacts
<1>3. Wrapped(mSize - mPtr) = mSize - mPtr
  BY <1>2, WordDifference
<1>. QED
  BY <1>1, <1>3 DEF GetRemainingBytes, ViewLeft

(* What the file gives is what lies before the position it leaves.         *)
LEMMA FileReadGives ==
  ASSUME FileInv, NEW Size \in Size_t, Std!Read(Size)
  PROVE  \E n \in Nat :
           /\ fileReturned'.count = n /\ Len(fileReturned'.octets) = n
           /\ fileReturned'.octets = SubSeq(File, mCurrentPosition + 1,
                                            mCurrentPosition + n)
           /\ mCurrentPosition' = mCurrentPosition + n
           /\ UNCHANGED File
<1>. DEFINE n == Std!Fread(Size)
            part == SubSeq(File, filePosition + 1, filePosition + n)
<1>1. /\ Size \in Nat /\ filePosition \in Nat /\ mCurrentPosition = filePosition
      /\ File \in Seq(Octet) /\ Len(File) \in Nat
  BY ParameterFacts DEF FileInv, Std!TypeOK
<1>2. n \in Nat /\ (n > 0 => filePosition + n <= Len(File))
  BY <1>1 DEF Std!Fread
<1>3. /\ fileReturned'.octets = part /\ fileReturned'.count = n
      /\ mCurrentPosition' = mCurrentPosition + n /\ UNCHANGED File
  BY DEF Std!Read, Std!Answer, Std!Advanced
<1>. HIDE DEF n
<1>4. /\ \A i \in filePosition + 1 .. filePosition + n : File[i] \in Octet
      /\ filePosition + 1 \in Int /\ filePosition + n \in Int
      /\ (filePosition + 1 <= filePosition + n <=> n > 0)
      /\ filePosition + n - (filePosition + 1) + 1 = n
  BY <1>1, <1>2
<1>5. Len(part) = n
  BY <1>1, <1>2, <1>4, SubSeqProperties
<1>. QED
  BY <1>1, <1>2, <1>3, <1>5

(* Read, and GetUIntBE with it, does as it was asked or throws.            *)
LEMMA ReadAsAsked ==
  ASSUME ReaderInv, ReaderInv', NEW Count \in Size_t, Read(Count)
  PROVE  AsAsked'
<1>1. Count \in Nat /\ Count < Word /\ Half \in Nat /\ Word = 2 * Half
  BY WordFacts
<1>2. /\ ReadStream(Count) /\ UNCHANGED <<over, mSize>>
      /\ outcome' = [call |-> "Read", target |-> Position + Count,
                     octets |-> Given'.octets,
                     thrown |-> Given'.count # Count,
                     missing |-> Count - Given'.count]
  BY DEF Read, ReadStream, Outcome, TooFew
<1>3. CASE over = "view"
  <2>. DEFINE n == View!ReadSize(Count)
  <2>1. /\ View!Read(Count) /\ over' = "view"
    BY <1>2, <1>3 DEF ReadStream
  <2>2. /\ UNCHANGED view /\ n \in 0 .. Count /\ mPtr' = mPtr + n
        /\ viewReturned'.count = n
        /\ viewReturned'.octets = SubSeq(view, mPtr + 1, mPtr')
        /\ Len(viewReturned'.octets) = n
    BY <1>1, <2>1, ViewReadGives DEF ReaderInv
  <2>3. n = IF Len(view) - mPtr < Count THEN Len(view) - mPtr ELSE Count
    BY DEF View!ReadSize, View!RemainingBytes
  <2>4. ViewLeft /\ ViewLeft'
    BY ViewRemains, PTL
  <2>5. /\ Position = mPtr /\ Position' = mPtr' /\ Source' = view
        /\ mSize' = Len(view) /\ Len(view) \in Nat /\ Len(view) < Half
        /\ mPtr \in 0 .. Len(view)
        /\ Position' + GetRemainingBytes' = mSize'
    BY <1>2, <1>3, <2>1, <2>2, <2>4 DEF ViewLeft, Source
  <2>6. /\ outcome'.call = "Read" /\ outcome'.target = mPtr + Count
        /\ outcome'.octets = SubSeq(view, mPtr + 1, mPtr')
        /\ Len(outcome'.octets) = n
        /\ outcome'.thrown <=> n # Count
        /\ outcome'.missing = Count - n
    BY <1>2, <2>1, <2>2, <2>5 DEF Given
  <2>. HIDE DEF n
  <2>7. /\ n # Count <=> mPtr + n # mPtr + Count
        /\ n # Count <=> mPtr + Count > Len(view)
        /\ n # Count => mPtr + n = Len(view)
        /\ Count - n = mPtr + Count - (mPtr + n)
        /\ mPtr + n - n + 1 = mPtr + 1
    BY <1>1, <2>2, <2>3, <2>5
  <2>8. Wrapped(mPtr + Count - (mPtr + n)) = Count - n
    BY <1>1, <2>2, <2>7, WordDifference
  <2>9. mPtr + Count \notin 0 .. Len(view) <=> mPtr + Count > Len(view)
    BY <1>1, <2>5
  <2>10. outcome'.missing = Wrapped(outcome'.target - Position')
    <3>1. outcome'.target - Position' = mPtr + Count - (mPtr + n)
      BY <1>1, <2>2, <2>5, <2>6
    <3>. QED
      BY <2>6, <2>8, <3>1
  <2>11. /\ outcome'.thrown <=> Position' # outcome'.target
         /\ outcome'.thrown <=> outcome'.target \notin 0 .. mSize'
         /\ outcome'.thrown => Position' = mSize' /\ outcome'.target > mSize'
    BY <2>2, <2>5, <2>6, <2>7, <2>9
  <2>12. outcome'.octets = SubSeq(Source', Position' - Len(outcome'.octets) + 1,
                                  Position')
    <3>1. Position' - Len(outcome'.octets) + 1 = mPtr + 1
      BY <1>1, <2>2, <2>5, <2>6
    <3>. QED
      BY <2>5, <2>6, <3>1
  <2>. QED
    BY <2>1, <2>5, <2>6, <2>10, <2>11, <2>12 DEF AsAsked
<1>4. CASE over # "view"
  <2>1. Std!Read(Count) /\ over' = "file" /\ Position = mCurrentPosition
        /\ Position' = mCurrentPosition'
    BY <1>2, <1>4 DEF ReadStream, Position
  <2>2. PICK n \in Nat :
          /\ fileReturned'.count = n /\ Len(fileReturned'.octets) = n
          /\ fileReturned'.octets = SubSeq(File, mCurrentPosition + 1,
                                           mCurrentPosition + n)
          /\ mCurrentPosition' = mCurrentPosition + n
          /\ UNCHANGED File
    BY <2>1, FileReadGives DEF ReaderInv
  <2>3. /\ outcome'.call = "Read" /\ outcome'.target = mCurrentPosition + Count
        /\ outcome'.octets = SubSeq(File, mCurrentPosition + 1,
                                    mCurrentPosition + n)
        /\ Len(outcome'.octets) = n
        /\ outcome'.thrown <=> n # Count
        /\ Source' = File
    BY <1>2, <2>1, <2>2 DEF Given, Source
  <2>4. /\ mCurrentPosition \in Nat
        /\ n # Count <=> mCurrentPosition + n # mCurrentPosition + Count
        /\ mCurrentPosition + n - n + 1 = mCurrentPosition + 1
    BY <1>1 DEF ReaderInv, FileInv, Std!TypeOK
  <2>. QED
    BY <2>1, <2>2, <2>3, <2>4 DEF AsAsked
<1>. QED
  BY <1>3, <1>4

(* Positions of the streams are not behind what a signed word can tell.    *)
PositionOK == Position \in 0 .. Half - 1

(* As the position of the stream that is read.                             *)
LEMMA PositionIsSigned == ReaderInv => PositionOK
<1>. SUFFICES ASSUME ReaderInv PROVE PositionOK
  OBVIOUS
<1>1. mPtr \in 0 .. Half - 1
  BY WordFacts DEF ReaderInv, ViewInv
<1>2. mCurrentPosition \in 0 .. Half - 1
  BY WordFacts, FileAssumption DEF ReaderInv, FileInv, Std!TypeOK
<1>. QED
  BY <1>1, <1>2 DEF Position, PositionOK

(* What a sum with a size is, when the size is read as a signed word.      *)
LEMMA SkipTarget ==
  ASSUME NEW p \in 0 .. Half - 1, NEW Count \in Size_t
  PROVE  LET target == p + Signed(Count)
             expected == Signed(Wrapped(p + Count))
         IN  /\ target \in Int /\ - Half <= target /\ target < Word
             /\ target < Half => expected = target
             /\ target >= Half => expected = target - Word
<1>1. /\ p \in Nat /\ p < Half /\ Half \in Nat /\ Word = 2 * Half
      /\ Count \in Nat /\ Count < Word
  BY WordFacts
<1>2. CASE Count < Half
  <2>1. Signed(Count) = Count /\ Wrapped(p + Count) = p + Count
    BY <1>1, <1>2 DEF Signed, Wrapped
  <2>2. Signed(p + Count) = IF p + Count >= Half THEN p + Count - Word ELSE p + Count
    BY <1>1 DEF Signed
  <2>. QED
    BY <1>1, <1>2, <2>1, <2>2
<1>3. CASE Count >= Half /\ p + Count < Word
  <2>1. Signed(Count) = Count - Word /\ Wrapped(p + Count) = p + Count
    BY <1>1, <1>3 DEF Signed, Wrapped
  <2>2. Signed(p + Count) = p + Count - Word
    BY <1>1, <1>3 DEF Signed
  <2>. QED
    BY <1>1, <1>3, <2>1, <2>2
<1>4. CASE p + Count >= Word
  <2>1. Signed(Count) = Count - Word /\ Wrapped(p + Count) = p + Count - Word
    BY <1>1, <1>4 DEF Signed, Wrapped
  <2>2. Signed(p + Count - Word) = p + Count - Word
    BY <1>1, <1>4 DEF Signed
  <2>. QED
    BY <1>1, <1>4, <2>1, <2>2
<1>. QED
  BY <1>1, <1>2, <1>3, <1>4

(* The position is told to be at the target, and how far it is from there, *)
(* by the signed word the target is read as.                               *)
LEMMA TargetAsWord ==
  ASSUME NEW q \in 0 .. Half - 1, NEW target \in Int, NEW expected,
         - Half <= target, target < Word,
         target < Half => expected = target,
         target >= Half => expected = target - Word
  PROVE  /\ q # expected <=> q # target
         /\ Wrapped(expected - q) = Wrapped(target - q)
<1>1. Half \in Nat /\ Word = 2 * Half /\ q \in Nat /\ q < Half
  BY WordFacts
<1>2. CASE target < Half
  BY <1>2
<1>3. CASE target >= Half
  <2>1. expected = target - Word /\ q # expected /\ q # target
    BY <1>1, <1>3
  <2>2. Wrapped(target - q) = target - q
    BY <1>1, <1>3 DEF Wrapped
  <2>3. Wrapped(expected - q) = expected - q + Word
    BY <1>1, <1>3, <2>1 DEF Wrapped
  <2>4. expected - q + Word = target - q
    BY <1>1, <2>1
  <2>. QED
    BY <2>1, <2>2, <2>3, <2>4
<1>. QED
  BY <1>1, <1>2, <1>3

(* A seek of a file throws, or gets to where it was asked to.              *)
TargetOf(Offset, fileMode) ==
  IF fileMode = "SEEK_SET" THEN Offset ELSE Position + Offset

(* The position a seek of a file leaves, unless it threw.                  *)
LEMMA FileSeekGives ==
  ASSUME ReaderInv, ReaderInv', NEW Offset \in Offsets, over = "file",
         NEW viewMode, NEW fileMode \in {"SEEK_SET", "SEEK_CUR"},
         SeekStream(Offset, viewMode, fileMode)
  PROVE  IF FileThrew(Offset, fileMode)
         THEN Position' # TargetOf(Offset, fileMode)
         ELSE /\ Position' = TargetOf(Offset, fileMode)
              /\ Position' \in 0 .. Half - 1
<1>. DEFINE target == TargetOf(Offset, fileMode)
<1>1. /\ over' = "file" /\ Position = mCurrentPosition
      /\ Position' = mCurrentPosition' /\ mCurrentPosition = filePosition
      /\ Std!SetFilePointer(Offset, fileMode) \/ Std!SeekFails(Offset, fileMode)
      /\ Offset \in Int /\ mCurrentPosition \in Nat
  BY WordFacts, FileAssumption
     DEF SeekStream, Position, ReaderInv, FileInv, Std!TypeOK, Offsets
<1>2. target = Std!Target(Offset, fileMode)
  BY <1>1 DEF Std!Target, TargetOf
<1>3. Position' \in 0 .. Half - 1
  <2>1. PositionOK'
    BY PositionIsSigned, PTL
  <2>. QED
    BY <2>1 DEF PositionOK
<1>4. ASSUME FileThrew(Offset, fileMode) PROVE Position' # target
  <2>1. target \notin 0 .. Half - 1
    BY <1>2, <1>4 DEF FileThrew, Std!SeekFails
  <2>. QED
    BY <1>3, <2>1
<1>5. ASSUME ~ FileThrew(Offset, fileMode) PROVE Position' = target
  <2>1. Std!SetFilePointer(Offset, fileMode)
    BY <1>1, <1>5 DEF FileThrew
  <2>2. CASE fileMode = "SEEK_SET"
    BY <1>1, <2>1, <2>2 DEF Std!SetFilePointer, TargetOf
  <2>3. CASE fileMode = "SEEK_CUR"
    BY <1>1, <2>1, <2>3 DEF Std!SetFilePointer, TargetOf
  <2>. QED
    BY <2>2, <2>3
<1>. QED
  BY <1>3, <1>4, <1>5

(* A view is left at the nearest end by a target outside of it.            *)
LEMMA ViewTarget ==
  ASSUME ReaderInv, NEW target \in Int, NEW p,
         \/ p = View!Clamped(target)
         \/ target >= Half /\ target < Word /\ p = View!Clamped(target - Word)
  PROVE  /\ p # target <=> target \notin 0 .. Len(view)
         /\ p # target =>
              \/ p = Len(view) /\ target > Len(view)
              \/ p = 0 /\ target \notin 0 .. Half - 1
<1>1. Half \in Nat /\ Word = 2 * Half /\ Len(view) \in Nat /\ Len(view) < Half
  BY WordFacts DEF ReaderInv, ViewInv
<1>2. CASE p = View!Clamped(target)
  BY <1>1, <1>2 DEF View!Clamped
<1>3. CASE target >= Half /\ target < Word /\ p = View!Clamped(target - Word)
  <2>1. p = 0
    BY <1>1, <1>3 DEF View!Clamped
  <2>. QED
    BY <1>1, <1>3, <2>1
<1>. QED
  BY <1>2, <1>3

(* Skip does as it was asked or throws, also when it goes back.            *)
LEMMA SkipAsAsked ==
  ASSUME ReaderInv, ReaderInv', NEW Count \in Size_t, Skip(Count)
  PROVE  AsAsked'
<1>. DEFINE target == Position + Signed(Count)
            expected == Signed(Wrapped(Position + Count))
            threw == FileThrew(Signed(Count), "SEEK_CUR")
<1>0. PositionOK /\ PositionOK'
  BY PositionIsSigned, PTL
<1>1. /\ Position \in 0 .. Half - 1 /\ Position' \in 0 .. Half - 1
      /\ Half \in Nat /\ Word = 2 * Half
  BY <1>0, WordFacts DEF PositionOK
<1>2. /\ target \in Int /\ - Half <= target /\ target < Word
      /\ target < Half => expected = target
      /\ target >= Half => expected = target - Word
  BY <1>1, SkipTarget
<1>3. /\ SeekStream(Signed(Count), "seek_current", "SEEK_CUR")
      /\ UNCHANGED <<over, mSize>> /\ over \in {"view", "file"}
      /\ Signed(Count) \in Offsets
  BY SignedIsOffset DEF Skip, SeekStream
<1>4. /\ outcome'.call = "Skip" /\ outcome'.target = target
      /\ outcome'.thrown = IF threw THEN TRUE ELSE Position' # expected
      /\ ~ threw => outcome'.missing = Wrapped(expected - Position')
  BY DEF Skip, Outcome
<1>. HIDE DEF target, expected, threw
<1>5. CASE over = "view"
  <2>1. ViewLeft /\ ViewLeft'
    BY ViewRemains, PTL
  <2>2. /\ UNCHANGED view
        /\ \/ mPtr' = View!Clamped(target)
           \/ target >= Half /\ mPtr' = View!Clamped(target - Word)
    <3>1. View!SetFilePointer(Signed(Count), "seek_current") /\ ViewInv
      BY <1>3, <1>5 DEF SeekStream, ReaderInv
    <3>2. target = mPtr + Signed(Count)
      BY <1>5, <2>1 DEF ViewLeft, target
    <3>. QED
      <4>1. /\ UNCHANGED view
            /\ \/ mPtr' = View!Clamped(mPtr + Signed(Count))
               \/ /\ mPtr + Signed(Count) >= Half
                  /\ mPtr' = View!Clamped(mPtr + Signed(Count) - Word)
        BY <1>3, <3>1, ViewSeekGives
      <4>2. /\ mPtr + Signed(Count) - Word = target - Word
            /\ mPtr + Signed(Count) >= Half <=> target >= Half
        <5>1. mPtr \in Int /\ Signed(Count) \in Int /\ Word \in Int /\ Half \in Int
          BY <1>1, <1>3, <2>1, <1>5 DEF ViewLeft, Offsets
        <5>. QED
          BY <3>2, <5>1
      <4>. QED
        BY <3>2, <4>1, <4>2
  <2>3. /\ Position' = mPtr' /\ mSize' = Len(view) /\ Len(view) \in Nat
        /\ Len(view) < Half /\ Position' + GetRemainingBytes' = mSize'
    BY <1>3, <1>5, <2>1, <2>2 DEF ViewLeft
  <2>4. /\ Position' # target <=> target \notin 0 .. mSize'
        /\ Position' # target =>
             \/ Position' = mSize' /\ target > mSize'
             \/ Position' = 0 /\ target \notin 0 .. Half - 1
    <3>1. /\ mPtr' # target <=> target \notin 0 .. Len(view)
          /\ mPtr' # target =>
               \/ mPtr' = Len(view) /\ target > Len(view)
               \/ mPtr' = 0 /\ target \notin 0 .. Half - 1
      BY <1>2, <2>2, ViewTarget
    <3>. QED
      BY <2>3, <3>1
  <2>5. ~ threw
    BY <1>5 DEF threw, FileThrew
  <2>6. /\ Position' # expected <=> Position' # target
        /\ Wrapped(expected - Position') = Wrapped(target - Position')
    BY <1>1, <1>2, TargetAsWord
  <2>. QED
    BY <1>4, <2>3, <2>4, <2>5, <2>6 DEF AsAsked
<1>6. CASE over = "file"
  <2>1. IF threw THEN Position' # target
        ELSE Position' = target /\ target \in 0 .. Half - 1
    <3>1. target = TargetOf(Signed(Count), "SEEK_CUR")
      BY DEF target, TargetOf
    <3>. QED
      BY <1>3, <1>6, <3>1, FileSeekGives DEF threw
  <2>2. outcome'.thrown <=> Position' # target
    <3>1. Position' # expected <=> Position' # target
      BY <1>1, <1>2, TargetAsWord
    <3>. QED
      BY <1>4, <2>1, <3>1
  <2>. QED
    BY <1>3, <1>4, <1>6, <2>2 DEF AsAsked
<1>. QED
  BY <1>3, <1>5, <1>6

(* Seek does as it was asked or throws.                                    *)
LEMMA SeekAsAsked ==
  ASSUME ReaderInv, ReaderInv', NEW Where \in Size_t, Seek(Where)
  PROVE  AsAsked'
<1>. DEFINE target == Signed(Where)
            threw == FileThrew(Signed(Where), "SEEK_SET")
<1>0. PositionOK'
  BY PositionIsSigned, PTL
<1>1. /\ Position' \in 0 .. Half - 1 /\ Half \in Nat /\ Word = 2 * Half
      /\ Where \in Nat /\ Where < Word
  BY <1>0, WordFacts DEF PositionOK
<1>2. target = IF Where < Half THEN Where ELSE Where - Word
  BY <1>1 DEF Signed
<1>3. /\ SeekStream(target, "seek_beginning", "SEEK_SET")
      /\ UNCHANGED <<over, mSize>> /\ over \in {"view", "file"}
      /\ target \in Offsets /\ target \in Int
  BY SignedIsOffset, WordFacts DEF Seek, SeekStream, Offsets
<1>4. /\ outcome'.call = "Seek" /\ outcome'.target = Where
      /\ outcome'.thrown = IF threw THEN TRUE ELSE Position' # Where
      /\ ~ threw => outcome'.missing = Wrapped(Position' - Where)
  BY DEF Seek, Outcome
<1>. HIDE DEF target, threw
<1>5. CASE over = "view"
  <2>1. ViewLeft /\ ViewLeft'
    BY ViewRemains, PTL
  <2>2. UNCHANGED view /\ mPtr' = View!Clamped(target)
    BY <1>3, <1>5, ViewSeekGives DEF SeekStream, ReaderInv
  <2>3. /\ Position' = mPtr' /\ mSize' = Len(view) /\ Len(view) \in Nat
        /\ Len(view) < Half /\ Position' + GetRemainingBytes' = mSize'
    BY <1>3, <1>5, <2>1, <2>2 DEF ViewLeft
  <2>4. /\ Position' # target <=> target \notin 0 .. mSize'
        /\ Position' # target =>
             \/ Position' = mSize' /\ target > mSize'
             \/ Position' = 0 /\ target \notin 0 .. Half - 1
    <3>1. /\ mPtr' # target <=> target \notin 0 .. Len(view)
          /\ mPtr' # target =>
               \/ mPtr' = Len(view) /\ target > Len(view)
               \/ mPtr' = 0 /\ target \notin 0 .. Half - 1
      BY <1>3, <2>2, ViewTarget
    <3>. QED
      BY <2>3, <3>1
  <2>5. Position' # Where <=> Position' # target
    BY <1>1, <1>2
  <2>6. /\ Where \notin 0 .. mSize' <=> target \notin 0 .. mSize'
        /\ Where \notin 0 .. Half - 1 <=> target \notin 0 .. Half - 1
        /\ target > mSize' => Where > mSize'
    BY <1>1, <1>2, <2>3
  <2>7. ~ threw
    BY <1>5 DEF threw, FileThrew
  <2>. QED
    BY <1>4, <2>3, <2>4, <2>5, <2>6, <2>7 DEF AsAsked
<1>6. CASE over = "file"
  <2>1. IF threw THEN Position' # target
        ELSE Position' = target /\ target \in 0 .. Half - 1
    <3>1. target = TargetOf(target, "SEEK_SET")
      BY DEF TargetOf
    <3>. QED
      BY <1>3, <1>6, <3>1, FileSeekGives DEF threw, target
  <2>2. CASE threw
    <3>1. Position' # Where
      BY <1>1, <1>2, <2>1, <2>2
    <3>. QED
      BY <1>3, <1>4, <1>6, <2>2, <3>1 DEF AsAsked
  <2>3. CASE ~ threw
    BY <1>3, <1>4, <1>6, <2>3 DEF AsAsked
  <2>. QED
    BY <2>2, <2>3
<1>. QED
  BY <1>3, <1>5, <1>6

(* Every call of the reader does as it was asked or throws.                *)
LEMMA CallAsAsked ==
  ASSUME ReaderInv, ReaderInv', Call
  PROVE  AsAsked'
<1>1. PICK n \in Size_t : Read(n) \/ GetUIntBE(n) \/ Skip(n) \/ Seek(n)
  BY DEF Call
<1>. QED
  BY <1>1, ClampedCount, ReadAsAsked, SkipAsAsked, SeekAsAsked DEF GetUIntBE

(* A call of the reader throws exactly when it does not get to where it    *)
(* was asked to, over every view of a buffer and every file.               *)
THEOREM ReaderThrowsAsAsked == ReaderSpec => ReaderDoesAsAsked
<1>1. ReaderInit => ReaderInv
  BY ReaderInitInv
<1>2. ReaderInv /\ [ReaderNext]_<<vars, readerVars>> => ReaderInv'
  BY ReaderStepInv
<1>3. ASSUME ReaderInv, ReaderInv', [ReaderNext]_<<vars, readerVars>>
      PROVE  [AsAsked']_<<vars, readerVars>>
  <2>1. CASE Call
    BY <1>3, <2>1, CallAsAsked
  <2>2. CASE outcome' = NoOutcome
    BY <2>2 DEF AsAsked, NoOutcome, Outcome
  <2>3. CASE UNCHANGED <<vars, readerVars>>
    BY <2>3
  <2>. QED
    BY <1>3, <2>1, <2>2, <2>3
       DEF ReaderNext, UseReader, MakeView, UseView, MakeOverView,
           MakeOverFile, Call, readerVars, ReaderInv
<1>. QED
  BY <1>1, <1>2, <1>3, PTL DEF ReaderSpec, ReaderDoesAsAsked
=============================================================================
