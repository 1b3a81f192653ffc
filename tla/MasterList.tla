----------------------------- MODULE MasterList -----------------------------
(***************************************************************************)
(* The children of an EbmlMaster of known size: the list the program edits *)
(* through the class, what RenderData leaves out and covers by a checksum, *)
(* and what a reader of the file makes of it.                              *)
(*                                                                         *)
(* The children are integers of one octet, or of DefaultSize octets when   *)
(* the program asked for that.  Reading is that of MasterRead: it gives    *)
(* the children in the order they were written.  A checksum is represented *)
(* by the data it was computed from: no two contents of this size share a  *)
(* CRC-32.                                                                 *)
(***************************************************************************)
EXTENDS Integers, FiniteSets, SequencesExt

CONSTANTS
  Semantic,     (* the context: the classes of children, in order           *)
  Mandatory, Unique,
  HasDefault,   (* the classes with a default value, which is 0             *)
  Deprecated,   (* the classes no version writes any more                   *)
  Value,        (* Bound: the values of each class                          *)
  DefaultSize,  (* Bound: the sizes the program asks for, 0 for the least   *)
  Object,       (* Bound: the elements alive at a time                      *)
  ChildrenMax   (* Bound: the elements written to a file                    *)

ASSUME SemanticAssumption ==
  /\ Semantic \in Seq(STRING) /\ Semantic # << >>
  /\ Mandatory \cup Unique \cup HasDefault \cup Deprecated \subseteq ToSet(Semantic)
  /\ Mandatory \cap Deprecated \subseteq HasDefault
ASSUME ValueAssumption ==
  \A c \in ToSet(Semantic) : 0 \in Value[c] /\ Value[c] \subseteq 0 .. 255
ASSUME DefaultSizeAssumption ==
  \A c \in ToSet(Semantic) : 0 \in DefaultSize[c] /\ DefaultSize[c] \subseteq 0 .. 8
ASSUME ObjectAssumption == IsFiniteSet(Object) /\ ChildrenMax \in Nat

VARIABLES
  ElementList,
  caller,         (* the elements the program has to delete                 *)
  element,        (* what the objects are                                   *)
  bChecksumUsed, Checksum,
  file,           (* the file last written, and what became of it           *)
  asRead          (* History: the list is what was read from that file.     *)

list == <<ElementList, caller, element>>
vars == <<list, bChecksumUsed, Checksum, file, asRead>>

Class == ToSet(Semantic)
Filter == {"WriteAll", "WriteSkipDefault"}
Free == Object \ (ToSet(ElementList) \cup caller)
Nowhere == [written |-> FALSE, size |-> 0, crc |-> << >>, children |-> << >>,
            complete |-> FALSE, changed |-> FALSE]

(* EbmlUInteger: a value of a class without default is not initialised.    *)
Made(c) ==
  [class : {c}, value : IF c \in HasDefault THEN {0} ELSE Value[c], size : {0}]

(* Memory that holds no element.                                           *)
Freed == [class |-> Semantic[1], value |-> 0, size |-> 0]

(* Fault: an element that holds the default value needs not have one.      *)
IsDefaultUnasked(e) == e.value = 0

IsDefaultValue(e) == e.class \in HasDefault /\ e.value = 0

CanWrite(e, writeFilter) ==
  /\ e.class \notin Deprecated
  /\ writeFilter = "WriteSkipDefault" => ~ IsDefaultValue(e)

-----------------------------------------------------------------------------
(* The terms of a sequence that are in a set, in their order.              *)
Those(s, set) ==
  LET those[n \in 0 .. Len(s)] ==
        IF n = 0 THEN << >>
        ELSE IF s[n] \in set THEN Append(those[n - 1], s[n]) ELSE those[n - 1]
  IN  those[Len(s)]

(* What a sequence of numbers amounts to.                                  *)
Total(s) ==
  LET total[n \in 0 .. Len(s)] == IF n = 0 THEN 0 ELSE total[n - 1] + s[n]
  IN  total[Len(s)]

(* What is written of an element.                                          *)
Rendered(e) ==
  [class |-> e.class, value |-> e.value, octets |-> IF e.size > 1 THEN e.size ELSE 1]

(* The class A identifier and the size, before the data.                   *)
HeadSize == 2
ChecksumSize == HeadSize + 4

Contents == [i \in DOMAIN ElementList |-> element[ElementList[i]]]

Written(contents, writeFilter) ==
  LET kept == Those(contents, {e \in ToSet(contents) : CanWrite(e, writeFilter)})
  IN  [i \in DOMAIN kept |-> Rendered(kept[i])]

RenderedList(writeFilter) == Written(Contents, writeFilter)

Octets(children) ==
  Total([i \in DOMAIN children |-> HeadSize + children[i].octets])

(* Fault: the elements the filter leaves out are counted.                  *)
UpdateSizeOfAll(writeFilter) ==
  Total([i \in DOMAIN ElementList |-> HeadSize + Rendered(Contents[i]).octets])
    + IF bChecksumUsed THEN ChecksumSize ELSE 0

UpdateSize(writeFilter) ==
  Total([i \in DOMAIN ElementList |->
           IF CanWrite(Contents[i], writeFilter)
           THEN HeadSize + Rendered(Contents[i]).octets ELSE 0])
    + IF bChecksumUsed THEN ChecksumSize ELSE 0

(* The places of a class in the list; 0 stands for a null pointer.         *)
FindFirstElt(c) == SelectInSeq(ElementList, LAMBDA o : element[o].class = c)

FindNextElt(past) ==
  LET after == {i \in past + 1 .. Len(ElementList) :
                  element[ElementList[i]].class = element[ElementList[past]].class}
  IN  IF after = {} THEN 0 ELSE Min(after)

CheckMandatory == \A c \in Mandatory : FindFirstElt(c) # 0 \/ c \in HasDefault

VerifyChecksum == bChecksumUsed => Checksum = RenderedList("WriteAll")

-----------------------------------------------------------------------------
(* The elements new gives when n are made.                                 *)
New(n, free) == {objects \in [1 .. n -> free] : IsInjective(objects)}

(* ProcessMandatory: an element for each mandatory class that is unique,   *)
(* or none when the list cannot be extended.                               *)
Init ==
  /\ LET classes == Those(Semantic, Mandatory \cap Unique)
     IN  /\ ElementList \in New(Len(classes), Object) \cup {<< >>}
         /\ element \in [Object -> {Freed} \cup UNION {Made(c) : c \in Class}]
         /\ \A o \in Object \ ToSet(ElementList) : element[o] = Freed
         /\ \A i \in DOMAIN ElementList : element[ElementList[i]] \in Made(classes[i])
  /\ caller = {}
  /\ bChecksumUsed = FALSE /\ Checksum = << >>
  /\ file = Nowhere
  /\ asRead = FALSE

Edited == asRead' = FALSE /\ UNCHANGED <<bChecksumUsed, Checksum, file>>

(* AddNewElt, and the searches that call it when they find nothing.        *)
AddNewElt(c) ==
  /\ \E o \in Free, e \in Made(c) :
       /\ ElementList' = Append(ElementList, o)
       /\ element' = [element EXCEPT ![o] = e]
  /\ UNCHANGED caller /\ Edited

FindFirstOrCreate(c) == FindFirstElt(c) = 0 /\ AddNewElt(c)

FindNextOrCreate(past) ==
  FindNextElt(past) = 0 /\ AddNewElt(element[ElementList[past]].class)

(* PushElement and InsertElement, of elements the program holds.           *)
InsertElement(o, position) ==
  /\ ElementList' = InsertAt(ElementList, position, o)
  /\ caller' = caller \ {o}
  /\ UNCHANGED element /\ Edited

(* The program holds what is erased from the list.                         *)
Erase(position) ==
  /\ ElementList' = RemoveAt(ElementList, position)
  /\ caller' = caller \cup {ElementList[position]}
  /\ UNCHANGED element /\ Edited

RemoveAtIndex(position) == Erase(position)

(* Remove of a reverse iterator erases the iterator's base, which is the   *)
(* element after the one that was named and that the program takes for its *)
(* own.  At the last one that is end(), and undefined: the vector loses    *)
(* its last element, or the program ends there.                            *)
RemoveReverse(position) ==
  /\ ElementList' = RemoveAt(ElementList, IF position < Len(ElementList)
                                          THEN position + 1 ELSE position)
  /\ caller' = caller \cup {ElementList[position]}
  /\ UNCHANGED element /\ Edited

RemoveAll ==
  /\ ElementList # << >>
  /\ ElementList' = << >>
  /\ caller' = caller \cup ToSet(ElementList)
  /\ UNCHANGED element /\ Edited

Delete(o) ==
  /\ caller' = caller \ {o}
  /\ element' = [element EXCEPT ![o] = Freed]
  /\ UNCHANGED <<ElementList, bChecksumUsed, Checksum, file, asRead>>

(* Sort: the comparison is no strict weak order, so that std::sort leaves  *)
(* any order.                                                              *)
Sort ==
  /\ ElementList' \in SetToSeqs(ToSet(ElementList))
  /\ UNCHANGED <<caller, element>> /\ Edited

SetValue(o, v) ==
  /\ element' = [element EXCEPT ![o].value = v]
  /\ UNCHANGED <<ElementList, caller>> /\ Edited

SetDefaultSize(o, n) ==
  /\ element' = [element EXCEPT ![o].size = n]
  /\ UNCHANGED <<ElementList, caller>> /\ Edited

(* A checksum that is of no list.                                          *)
Forced == <<[class |-> Semantic[1], value |-> 256, octets |-> 1]>>

ForceChecksum ==
  /\ Checksum' = Forced
  /\ bChecksumUsed' = TRUE
  /\ asRead' = FALSE
  /\ UNCHANGED <<list, file>>

EnableChecksum(b) ==
  /\ bChecksumUsed' = b
  /\ asRead' = FALSE
  /\ UNCHANGED <<list, Checksum, file>>

-----------------------------------------------------------------------------
(* What is sent to the output, and the data the checksum is computed from. *)
RenderData(writeFilter) == RenderedList(writeFilter)

(* Fault: the checksum covers the whole list.                              *)
CoversAll(writeFilter) == RenderedList("WriteAll")

Covers(writeFilter) == RenderedList(writeFilter)

(* Render, which does nothing when the filter leaves out the master: an    *)
(* empty list is its default value.  Without bForceRender the mandatory    *)
(* elements are asserted.  When no child is written the checksum is the    *)
(* last one, or that of no data when there was none.                       *)
Render(writeFilter, bForceRender) ==
  /\ writeFilter = "WriteSkipDefault" => ElementList # << >>
  /\ bForceRender \/ CheckMandatory
  /\ Len(RenderData(writeFilter)) <= ChildrenMax
  /\ Checksum' = IF bChecksumUsed /\ RenderData(writeFilter) # << >>
                 THEN Covers(writeFilter) ELSE Checksum
  /\ file' = [written |-> TRUE, size |-> UpdateSize(writeFilter),
              crc |-> IF bChecksumUsed THEN <<Checksum'>> ELSE << >>,
              children |-> RenderData(writeFilter),
              complete |-> ~ bForceRender, changed |-> FALSE]
  /\ asRead' = FALSE
  /\ UNCHANGED <<list, bChecksumUsed>>

(* Another program changes a value in the file, and not the checksum.      *)
Change ==
  /\ file.written /\ ~ file.changed
  /\ \E i \in DOMAIN file.children : \E v \in Value[file.children[i].class] \ {file.children[i].value} :
        file' = [file EXCEPT !.children[i].value = v, !.changed = TRUE]
  /\ asRead' = FALSE
  /\ UNCHANGED <<list, bChecksumUsed, Checksum>>

(* Fault: the destructor deletes what was taken out of the list as well.   *)
EverythingDeleted == Object

(* What is free once the master's destructor deleted its children.         *)
Deleted == Object \ caller

(* The master's destructor was called, and what contents holds are the     *)
(* children, objects[1] and so on, of another.                             *)
Replaced(objects, contents) ==
  /\ ElementList' = objects
  /\ element' = [o \in Object |->
       CASE o \in ToSet(objects) -> contents[SelectInSeq(objects, LAMBDA p : p = o)]
         [] o \in Deleted \ ToSet(objects) -> Freed
         [] OTHER -> element[o]]
  /\ UNCHANGED caller

(* The copy constructor, with a clone of each child; the original is       *)
(* deleted.                                                                *)
Clone ==
  /\ \E clones \in New(Len(ElementList), Free) :
       Replaced(clones, Contents)
  /\ UNCHANGED <<bChecksumUsed, Checksum, file, asRead>>

(* The master and its children are deleted, and a new one reads the file:  *)
(* the elements made by its constructor are deleted, the checksum is taken *)
(* from the list.                                                          *)
Read ==
  /\ file.written
  /\ \E made \in New(Len(file.children), Deleted) :
       Replaced(made, [i \in DOMAIN made |->
                         [class |-> file.children[i].class,
                          value |-> file.children[i].value, size |-> 0]])
  /\ bChecksumUsed' = (file.crc # << >>)
  /\ Checksum' = IF file.crc # << >> THEN file.crc[1] ELSE << >>
  /\ asRead' = TRUE
  /\ UNCHANGED file

Next ==
  \/ \E c \in Class : AddNewElt(c) \/ FindFirstOrCreate(c)
  \/ \E i \in DOMAIN ElementList :
        FindNextOrCreate(i) \/ RemoveAtIndex(i)
  \/ \E o \in caller : Delete(o) \/ \E i \in 1 .. Len(ElementList) + 1 :
                                        InsertElement(o, i)
  \/ \E o \in ToSet(ElementList) :
        \/ \E v \in Value[element[o].class] : SetValue(o, v)
        \/ \E n \in DefaultSize[element[o].class] : SetDefaultSize(o, n)
  \/ \E b \in BOOLEAN, f \in Filter : EnableChecksum(b) \/ Render(f, b)
  \/ ForceChecksum
  \/ RemoveAll \/ Sort \/ Change \/ Clone \/ Read

Spec == Init /\ [][Next]_vars

(* A program that calls Remove of a reverse iterator as well.              *)
ReverseNext == Next \/ \E i \in DOMAIN ElementList : RemoveReverse(i)

ReverseSpec == Init /\ [][ReverseNext]_vars

-----------------------------------------------------------------------------
(* The lists hold objects, each of its class; memory nobody can delete any *)
(* more is not an element's.                                               *)
TypeOK ==
  /\ ElementList \in Seq(Object) /\ caller \subseteq Object
  /\ \A o \in Object : /\ element[o].class \in Class
                       /\ element[o].value \in Value[element[o].class]
                       /\ element[o].size \in DefaultSize[element[o].class]
  /\ bChecksumUsed \in BOOLEAN /\ asRead \in BOOLEAN
  /\ \A o \in Free : element[o] = Freed
  /\ \A i \in DOMAIN file.children : file.children[i].class \in Class

(* Every element is deleted by one owner: it is in the list once, or with  *)
(* the program, whatever is searched, inserted, removed by its index or    *)
(* its iterator, sorted and read.                                          *)
OwnedOnce ==
  /\ TypeOK
  /\ IsInjective(ElementList) /\ caller \cap ToSet(ElementList) = {}

(* Remove an element from the list of the master: what the program took    *)
(* from the list, for it to delete, is not in there.  No step but those of *)
(* ReverseSpec breaks this, which is a part of OwnedOnce.                  *)
RemovedIsGone == caller \cap ToSet(ElementList) = {}

(* The size in the head, which UpdateSize computes, is that of the data    *)
(* RenderData writes: the assertion of Render.                             *)
SizeIsWritten ==
  file.written =>
    file.size = Octets(file.children) + IF file.crc = << >> THEN 0 ELSE ChecksumSize

(* An integer was given no more octets than it needs.                      *)
IsShortest == \A i \in DOMAIN file.children : file.children[i].octets = 1

(* Nothing was written behind the checksum of something else.              *)
IsStale == file.children = << >> /\ file.crc # << << >> >>

(* The checksum of what was read holds just when nobody changed the file,  *)
(* for any filter, unless it was written in a longer form, for the reader  *)
(* computes the checksum of the shortest one, or over an empty list.       *)
ChecksumTells ==
  asRead /\ file.crc # << >> =>
    (VerifyChecksum <=> ~ file.changed /\ IsShortest /\ ~ IsStale)

(* What this library wrote under a checksum of its own, and nobody         *)
(* changed, passes VerifyChecksum.                                         *)
WrittenVerifies ==
  asRead /\ ~ file.changed /\ IsShortest /\ file.crc # <<Forced>>
    => VerifyChecksum

(* What was rendered after CheckMandatory still passes it when read: the   *)
(* filter leaves out no mandatory element a reader cannot do without.      *)
CompleteWhenRead == asRead /\ file.complete => CheckMandatory

=============================================================================
