---------------------------- MODULE ElementEdit ----------------------------
(***************************************************************************)
(* Writing elements and editing them in place: Render, VoidMe and          *)
(* EbmlVoid::Overwrite, EbmlVoid::ReplaceWith, OverwriteData, and a master *)
(* whose head is written first (WriteHead) and rewritten with its size     *)
(* once its children are there (ForceSize, OverwriteHead).                 *)
(*                                                                         *)
(* The file is a sequence of octets that say what they were written as:    *)
(* the n-th octet of an ID, of a coded size or of an element's data.       *)
(* Leaves hold binary data, whose size is that of the buffer they were     *)
(* given.  The elements pass the write filter: an operation on one that    *)
(* does not returns before it does anything.  The file pointer is not      *)
(* kept: every operation seeks first, and Render appends at the end.       *)
(*                                                                         *)
(* slots is a history variable: what the calls were asked to put where.    *)
(***************************************************************************)
EXTENDS EbmlCoding

CONSTANTS
  Leaves, Voids, Master,  (* The element objects of the application.        *)
  Filler,                 (* The class of void elements, and one of them    *)
                          (* that no object stands for.                     *)
  ID_LENGTH,              (* The length of each object's ID.                *)
  Sizes,                  (* The data sizes given to leaves.                *)
  SizeLengths,            (* The size lengths asked for leaves.             *)
  MasterSizeLengths,      (* Those asked of WriteHead.                      *)
  FileMax                 (* Bound: the longest file.                       *)

Object == Leaves \cup Voids \cup {Master}

ASSUME ObjectAssumption ==
  /\ Leaves \cap Voids = {} /\ Master \notin Leaves \cup Voids
  /\ Filler \notin Object
  /\ ID_LENGTH \in [Object \cup {Filler} -> 1 .. IdMax]
  /\ \A v \in Voids \cup {Filler} : ID_LENGTH[v] = 1

ASSUME SizesAssumption ==
  /\ Sizes \subseteq Nat /\ FileMax \in Nat
  /\ SizeLengths \subseteq 0 .. SizeMax
  /\ MasterSizeLengths \subseteq 0 .. SizeMax

(* An octet holds the size 1, and CodedSizeLength the size of any file.    *)
ASSUME CodingAssumption ==
  /\ AllOnes[1] > 1
  /\ FileMax < AllOnes[IF SizeMax < 5 THEN SizeMax ELSE 5]

VARIABLES
  file,    (* the octets of the file                                       *)
  obj,     (* the state of each object                                     *)
  slots,   (* history: the elements the file should hold                   *)
  closed   (* history: where the master ended when its size was forced     *)

vars == <<file, obj, slots, closed>>

NotClosed == 0

-----------------------------------------------------------------------------
(* EbmlElement's own state.                                                *)
NewObject(finite) ==
  [Size |-> 0, SizeLength |-> 0, bSizeIsFinite |-> finite,
   ElementPosition |-> 0, SizePosition |-> 0, value |-> 0]

SizeOctets(o) == CodedSizeLength(o.Size, o.SizeLength, o.bSizeIsFinite)
HeadSize(e, o) == ID_LENGTH[e] + SizeOctets(o)
ElementSize(e, o) == o.Size + HeadSize(e, o)

(* The octets MakeRenderHead writes, and those of the data.                *)
Octets(kind, e, n, value) ==
  [i \in 1 .. n |->
     [kind |-> kind, of |-> e, index |-> i, length |-> n, value |-> value]]

ClassId(e) == IF e \in Voids THEN Filler ELSE e

Head_(e, o) ==
  Octets("id", ClassId(e), ID_LENGTH[e], 0)
    \o Octets("size", ClassId(e), SizeOctets(o), o.Size)
Data(e, o) == Octets("data", e, o.Size, o.value)

(* Octets written over those of f, from a position on.                     *)
Overlay(f, position, octets) ==
  LET end == position + Len(octets)
  IN  [i \in 1 .. (IF Len(f) < end THEN end ELSE Len(f)) |->
         IF i > position /\ i <= end THEN octets[i - position] ELSE f[i]]

(* Fault: the positions are kept by default.                               *)
PlacedBefore(e, o, position) == o

(* The positions MakeRenderHead leaves when it does not keep them.         *)
Placed(e, o, position) ==
  [o EXCEPT !.ElementPosition = position,
            !.SizePosition = position + HeadSize(e, o)]

(* Fault: the size length is not expanded to fill the element.             *)
SetVoidSizeShortest(o, FullSize) ==
  LET NewDataLength == FullSize - CodedSizeLength(FullSize - 2, 0, TRUE) - 1
  IN  [o EXCEPT !.SizeLength = CodedSizeLength(NewDataLength, 0, TRUE),
                !.Size = NewDataLength]

(* SetVoidSize: the void element that fills FullSize octets.               *)
SetVoidSize(o, FullSize) ==
  LET InitialSizeLength == CodedSizeLength(FullSize - 2, 0, TRUE)
      NewDataLength == FullSize - InitialSizeLength - 1
      NewSizeLength == CodedSizeLength(NewDataLength, 0, TRUE)
      full == 1 + NewSizeLength + NewDataLength
  IN  CASE full < FullSize ->
             [o EXCEPT !.SizeLength = FullSize - (NewDataLength + 1),
                       !.Size = NewDataLength]
        [] full > FullSize ->
             [o EXCEPT !.SizeLength = NewSizeLength,
                       !.Size = FullSize - (NewSizeLength + 1)]
        [] OTHER ->
             [o EXCEPT !.SizeLength = NewSizeLength, !.Size = NewDataLength]

-----------------------------------------------------------------------------
(* A reader finds at a position the head of e, for an element of `full`    *)
(* octets, and a leaf's data behind it.                                    *)
HoldsHead(f, position, e, full) ==
  /\ position + ID_LENGTH[e] < Len(f)
  /\ SubSeq(f, position + 1, position + ID_LENGTH[e])
       = Octets("id", ClassId(e), ID_LENGTH[e], 0)
  /\ LET size == f[position + ID_LENGTH[e] + 1]
         start == position + ID_LENGTH[e]
     IN  /\ size.kind = "size" /\ start + size.length <= Len(f)
         /\ SubSeq(f, start + 1, start + size.length)
              = Octets("size", size.of, size.length, size.value)
         /\ size.value # AllOnes[size.length]
         /\ ID_LENGTH[e] + size.length + size.value = full

HoldsData(f, slot) ==
  slot.holder \in Leaves =>
    LET o == obj[slot.holder]
        end == slot.at + slot.full
    IN  SubSeq(f, end - o.Size + 1, end) = Data(slot.holder, o)

Slot(at, full, e) == [at |-> at, full |-> full, holder |-> e]

InFile(e) == \E s \in slots : s.holder = e
SlotOf(e) == CHOOSE s \in slots : s.holder = e

-----------------------------------------------------------------------------
Init ==
  /\ file = << >>
  /\ obj = [e \in Object |-> NewObject(e # Master)]
  /\ slots = {}
  /\ closed = NotClosed

(* An element that is not in the file is given a buffer, a size length and *)
(* rendered at the end of the file.                                        *)
Render(e, size, length) ==
  /\ ~ InFile(e)
  /\ LET o == [obj[e] EXCEPT !.Size = size, !.SizeLength = length]
     IN  /\ file' = Overlay(file, Len(file), Head_(e, o) \o Data(e, o))
         /\ obj' = [obj EXCEPT ![e] = Placed(e, o, Len(file))]
         /\ slots' = slots \cup {Slot(Len(file), ElementSize(e, o), e)}
  /\ Len(file') <= FileMax
  /\ UNCHANGED closed

(* Overwrite: the void element takes the place of a written leaf, whose    *)
(* octets are left where they are behind the head of the void element.  A  *)
(* void element without data gets no head.  An element at position 0 is    *)
(* taken for one that was not written.                                     *)
Voided(e, v, o) ==
  LET EltSize == ElementSize(e, obj[e])
      sized == SetVoidSize(o, EltSize)
      at == obj[e].ElementPosition
  IN  IF sized.Size # 0
      THEN [o |-> Placed(v, sized, at),
            file |-> Overlay(file, at, Head_(v, sized))]
      ELSE [o |-> sized, file |-> file]

IsVoidable(e) ==
  InFile(e) /\ obj[e].ElementPosition # 0 /\ ElementSize(e, obj[e]) >= 2

Overwrite(v, e) ==
  /\ IsVoidable(e)
  /\ LET done == Voided(e, v, obj[v])
     IN  file' = done.file /\ obj' = [obj EXCEPT ![v] = done.o]
  /\ slots' = {IF s.holder = e THEN [s EXCEPT !.holder = v]
               ELSE IF s.holder = v THEN [s EXCEPT !.holder = Filler]
               ELSE s : s \in slots}
  /\ UNCHANGED closed

(* VoidMe: the same with a void element that is then forgotten.            *)
VoidMe(e) ==
  /\ IsVoidable(e)
  /\ file' = Voided(e, Filler, NewObject(TRUE)).file
  /\ slots' = (slots \ {SlotOf(e)}) \cup {[SlotOf(e) EXCEPT !.holder = Filler]}
  /\ UNCHANGED <<obj, closed>>

(* Fault: one octet is thought to be enough for the rest.                  *)
LeavesAnyRoom(NewVoidSize) == NewVoidSize >= 0

(* There is enough space for the element, and for a filling element.       *)
LeavesRoom(NewVoidSize) == NewVoidSize >= 0 /\ NewVoidSize # ID_LENGTH[Filler]

(* ReplaceWith: the element is rendered over the void element when it fits *)
(* and leaves no room or enough for another head, which is written behind  *)
(* it.  The void element's object is of no use then.                       *)
ReplaceWith(v, e, size, length) ==
  /\ InFile(v) /\ ~ InFile(e)
  /\ LET o == [obj[e] EXCEPT !.Size = size, !.SizeLength = length]
         EltSize == ElementSize(e, o)
         NewVoidSize == ElementSize(v, obj[v]) - EltSize
         at == obj[v].ElementPosition
         rest == Head_(Filler, SetVoidSize(NewObject(TRUE), NewVoidSize))
     IN  /\ LeavesRoom(NewVoidSize)
         /\ file' = Overlay(file, at,
                      Head_(e, o) \o Data(e, o)
                        \o (IF NewVoidSize # 0 THEN rest ELSE << >>))
         /\ obj' = [obj EXCEPT ![e] = Placed(e, o, at)]
         /\ slots' = (slots \ {SlotOf(v)}) \cup {Slot(at, EltSize, e)}
                       \cup (IF NewVoidSize # 0
                             THEN {Slot(at + EltSize, NewVoidSize, Filler)}
                             ELSE {})
  /\ UNCHANGED closed

(* OverwriteData, of a leaf that was given another buffer of its size.     *)
OverwriteData(e) ==
  /\ InFile(e) /\ obj[e].ElementPosition # 0
  /\ LET o == [obj[e] EXCEPT !.value = 1 - @]
     IN  /\ obj' = [obj EXCEPT ![e] = o]
         /\ file' = Overlay(file, o.ElementPosition + HeadSize(e, o), Data(e, o))
  /\ UNCHANGED <<slots, closed>>

(* The master's head is written with the size still unknown: UpdateSize    *)
(* leaves 0 for it.  The elements appended from then on are its children.  *)
WriteHead(length) ==
  /\ ~ InFile(Master)
  /\ LET o == [obj[Master] EXCEPT !.Size = 0, !.SizeLength = length]
     IN  /\ file' = Overlay(file, Len(file), Head_(Master, o))
         /\ obj' = [obj EXCEPT ![Master] = Placed(Master, o, Len(file))]
         /\ slots' = slots \cup {Slot(Len(file), HeadSize(Master, o), Master)}
  /\ Len(file') <= FileMax
  /\ UNCHANGED closed

(* ForceSize: the size is accepted when its code has the length of the one *)
(* that was written.                                                       *)
(* Fault: the size's own octets are counted in it.                         *)
ForcedWithHead(o, NewSize) ==
  [o EXCEPT !.Size = NewSize + SizeOctets(o), !.bSizeIsFinite = TRUE]

Forced(o, NewSize) == [o EXCEPT !.Size = NewSize, !.bSizeIsFinite = TRUE]

CanForce(o, NewSize) ==
  ~ o.bSizeIsFinite /\ SizeOctets([o EXCEPT !.Size = NewSize]) = SizeOctets(o)

(* The master ends where the file ends: its size is forced and its head    *)
(* written again.                                                          *)
ForceSize ==
  LET o == obj[Master]
      NewSize == Len(file) - (o.ElementPosition + HeadSize(Master, o))
      forced == Forced(o, NewSize)
      at == o.ElementPosition
  IN  /\ InFile(Master) /\ at # 0 /\ CanForce(o, NewSize)
      /\ file' = Overlay(file, at, Head_(Master, forced))
      /\ obj' = [obj EXCEPT ![Master] = Placed(Master, forced, at)]
      /\ slots' = {IF s.holder = Master THEN [s EXCEPT !.full = Len(file) - at]
                   ELSE s : s \in slots}
      /\ closed' = Len(file)

Next ==
  \/ \E e \in Leaves, size \in Sizes, length \in SizeLengths :
       \/ Render(e, size, length)
       \/ \E v \in Voids : ReplaceWith(v, e, size, length)
  \/ \E e \in Leaves :
       \/ VoidMe(e)
       \/ \E v \in Voids : Overwrite(v, e)
       \/ OverwriteData(e)
  \/ \E length \in MasterSizeLengths : WriteHead(length)
  \/ ForceSize

Spec == Init /\ [][Next]_vars

-----------------------------------------------------------------------------
(* What an octet of the file may have been written as.                     *)
FileOctet == [kind : {"id", "size", "data"}, of : Object \cup {Filler},
              index : Nat \ {0}, length : Nat \ {0}, value : Nat]

(* Every variable holds a value of its type.                               *)
TypeOK ==
  /\ file \in Seq(FileOctet) /\ Len(file) <= FileMax
  /\ obj \in [Object ->
              [Size : 0 .. FileMax, SizeLength : 0 .. SizeMax,
               bSizeIsFinite : BOOLEAN, ElementPosition : 0 .. FileMax,
               SizePosition : 0 .. FileMax, value : 0 .. 1]]
  /\ slots \subseteq [at : 0 .. FileMax, full : 1 .. FileMax,
                      holder : Object \cup {Filler}]
  /\ closed \in 0 .. FileMax

(* The places cover the file, none overlaps another; a master's is its     *)
(* head.                                                                   *)
Extent(s) == s.at + 1 .. s.at + (IF s.holder = Master
                                 THEN HeadSize(Master, obj[Master]) ELSE s.full)
SlotsTileFile ==
  /\ UNION {Extent(s) : s \in slots} = DOMAIN file
  /\ \A s, t \in slots : s # t => Extent(s) \cap Extent(t) = {}

(* Whatever was rendered, voided and replaced, a reader finds in each      *)
(* place the element it was asked for, ending where the next one starts,   *)
(* with the data of its buffer: no head that was written has grown over    *)
(* its data, nor a void element left a gap or reached its neighbour.       *)
FileReads ==
  /\ TypeOK
  /\ SlotsTileFile
  /\ \A s \in slots : HoldsHead(file, s.at, s.holder, s.full) /\ HoldsData(file, s)

(* What an object says of itself is what it occupies in the file, so that  *)
(* the next edit of it, or of the void element that took its place, finds  *)
(* it: after Overwrite the EbmlVoid stands for the old element.            *)
ObjectsMatchFile ==
  \A s \in slots : s.holder \in Leaves \cup Voids =>
    LET o == obj[s.holder]
    IN  o.ElementPosition = s.at /\ ElementSize(s.holder, o) = s.full

(* A master whose size was forced ends where its last child ended then,    *)
(* however its children were edited since: each element is inside of it or *)
(* outside.                                                                *)
MasterEncloses ==
  closed # NotClosed =>
    /\ \E s \in slots : /\ s.holder = Master /\ s.at + s.full = closed
                        /\ HoldsHead(file, s.at, Master, s.full)
    /\ \A t \in slots : t.at + t.full <= closed \/ t.at >= closed

(* The program does not force the size that the master's head has no code  *)
(* for: all ones in the octets it was given.                               *)
ForcesNoReserved ==
  obj'[Master].bSizeIsFinite => obj'[Master].Size # AllOnes[SizeOctets(obj[Master])]

(* The executions of such a program.                                       *)
CarefulSpec == Init /\ [][Next /\ ForcesNoReserved]_vars

(* An operation changes no octet of an element that it was not asked to    *)
(* replace, nor of its master's head, and only Render makes the file grow. *)
InPlace ==
  /\ \A s \in slots \cap slots' :
       (s.holder \in Leaves => obj'[s.holder] = obj[s.holder]) =>
         \A i \in Extent(s) : file'[i] = file[i]
  /\ Len(file') # Len(file) => \E s \in slots' : s.at = Len(file)

(* Every step of the program edits in place.                               *)
EditsInPlace == [][InPlace]_vars

(* VoidMe and Overwrite replace the element by a void element.             *)
VoidedIsVoid ==
  \A s \in slots : s.holder \in Voids \cup {Filler} =>
    HoldsHead(file, s.at, s.holder, s.full)
=============================================================================
