----------------------------- MODULE ByteStream -----------------------------
(***************************************************************************)
(* What IOCallback promises of every stream: octets, a position among or   *)
(* after them, and calls that read or write at the position and move it by *)
(* what they return.  A call may fail and return 0; writing after the end  *)
(* leaves octets of any value in between.                                  *)
(***************************************************************************)
EXTENDS Integers, Sequences

CONSTANTS
  Octet,
  Size_t,       (* the sizes a reading may ask for                          *)
  Narrow,       (* the number of values of uint32_t                         *)
  SizeMax       (* Bound: the octets of one write.                          *)

VARIABLES
  content, position,
  returned      (* what the last call was asked for, gave and returned *)

vars == <<content, position, returned>>

Data == UNION {[1 .. n -> Octet] : n \in 0 .. SizeMax}

Answer(asked, octets, count) ==
  [asked |-> asked, octets |-> octets, count |-> count]

(* The stream holds data at the position, and elsewhere what it held.      *)
Holds(data) ==
  /\ DOMAIN content' = 1 .. (IF position + Len(data) > Len(content)
                             THEN position + Len(data) ELSE Len(content))
  /\ \A i \in 1 .. Len(data) : content'[position + i] = data[i]
  /\ \A i \in 1 .. Len(content) :
       i <= position \/ i > position + Len(data) => content'[i] = content[i]

Init ==
  /\ content \in Seq(Octet)
  /\ position = 0
  /\ returned = Answer(0, << >>, 0)

(* The bytes read: fewer than asked for only at the end, 0 on an error.    *)
Available(Size) ==
  IF position + Size <= Len(content) THEN Size
  ELSE IF position <= Len(content) THEN Len(content) - position ELSE 0

Read(Size) ==
  /\ \E n \in {0, Available(Size)} :
       /\ returned' = Answer(Size, SubSeq(content, position + 1, position + n), n)
       /\ position' = position + n
  /\ UNCHANGED content

(* Writing no octet changes nothing, or makes the octets up to the         *)
(* position part of the stream.                                            *)
Write(data) ==
  /\ \E n \in 0 .. Len(data) :
       /\ returned' = Answer(Len(data), << >>, n)
       /\ position' = position + n
       /\ \/ n = 0 /\ UNCHANGED content
          \/ Holds(SubSeq(data, 1, n))

Seek ==
  /\ returned' = Answer(0, << >>, 0)
  /\ position' \in Nat
  /\ UNCHANGED content

(* Two calls of MemIOCallback alone.  Octets of another stream are put at  *)
(* the position, which stays, and the stream then has as many octets as    *)
(* were put there; the answer is that number in 32 bits.  When the other   *)
(* stream ends too early, what it gave is there, and no octet more.  What  *)
(* lies before the position is kept.                                       *)
Fill(data) ==
  /\ \/ /\ DOMAIN content' = 1 .. Len(data)
        /\ \A i \in position + 1 .. Len(data) : content'[i] = data[i - position]
        /\ returned' = Answer(Len(data), << >>, Len(data) % Narrow)
     \/ /\ DOMAIN content' = DOMAIN content
        /\ \A i \in DOMAIN content :
             i > position + Len(data) => content'[i] = content[i]
        /\ returned' = Answer(Len(data), << >>, 0)
  /\ \A i \in DOMAIN content \cap DOMAIN content' :
       i <= position => content'[i] = content[i]
  /\ UNCHANGED position

(* The size is set: what both have stays.                                  *)
SetSize ==
  /\ returned' = Answer(0, << >>, 0)
  /\ UNCHANGED position
  /\ \A i \in DOMAIN content \cap DOMAIN content' : content'[i] = content[i]

Next ==
  \/ Seek \/ SetSize
  \/ \E Size \in Size_t : Read(Size)
  \/ \E data \in Data : Write(data) \/ Fill(data)

Spec == Init /\ [][Next]_vars
=============================================================================
