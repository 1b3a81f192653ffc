----------------------------- MODULE MasterRead -----------------------------
(***************************************************************************)
(* EbmlMaster::Read: a master reads its children, masters among them       *)
(* recursively, and an element that belongs to an upper level travels up   *)
(* the calls through the references UpperEltFound and FoundElt, which all  *)
(* the calls share.  The heap is explicit: an element is created by the    *)
(* scan, then owned by a list or deleted.                                  *)
(*                                                                         *)
(* The stream is what FindNextElement returns of it, constrained by what   *)
(* the module FindElement establishes: the element starts at or after the  *)
(* file pointer, has the level of its class in the context, and ends       *)
(* within the limit unless it is of an upper level or of unknown size.  A  *)
(* head takes one position of the stream.  An unknown element is never     *)
(* returned when dummies are not allowed, so the branch of Read for one    *)
(* (line 321) cannot be taken; elements of unknown ID are left out.        *)
(***************************************************************************)
EXTENDS Integers, SequencesExt

CONSTANTS
  Masters, Leaves,      (* The classes.                                     *)
  Globals,              (* Those of the global context, all of them leaves. *)
  EbmlCrc32,            (* The one of the checksum.                         *)
  Children,             (* The semantic table of each master.               *)
  Contexts,             (* A master's context, its parent, and so on up.    *)
  CanHaveInfiniteSize,  (* The masters that may have the unknown size.      *)
  Root,                 (* The class of the master that is read.            *)
  StreamEnd,            (* Bound: the length of the stream.                 *)
  SizeBound,            (* Bound: the largest known size.                   *)
  ElementMax,           (* Bound: the elements created by one reading.      *)
  Null

ASSUME ClassAssumption ==
  /\ Masters \cap Leaves = {} /\ Globals \subseteq Leaves
  /\ EbmlCrc32 \in Globals
  /\ Children \in [Masters -> SUBSET (Masters \cup Leaves)]
  /\ \A m \in Masters : Children[m] \cap Globals = {}
  /\ CanHaveInfiniteSize \subseteq Masters /\ Root \in Masters

(* A child's parent context is its master's context, up to the root; above *)
(* a master a context is that of this master.                              *)
ASSUME ContextAssumption ==
  /\ Contexts \in [Masters -> Seq(Masters)]
  /\ Contexts[Root] = <<Root>>
  /\ \A m \in Masters : Len(Contexts[m]) > 0 /\ Contexts[m][1] = m
  /\ \A m \in Masters : \A i \in DOMAIN Contexts[m] :
       Contexts[Contexts[m][i]] = SubSeq(Contexts[m], i, Len(Contexts[m]))
  /\ \A m \in Masters : \A c \in Children[m] \cap Masters :
       Contexts[c] = <<c>> \o Contexts[m]

(* There is room for the root's head, and for a child of a first reading.  *)
ASSUME BoundAssumption ==
  StreamEnd \in Nat \ {0} /\ SizeBound \in Nat /\ ElementMax \in Nat \ {0, 1}

ASSUME NullAssumption == Null \notin 1 .. ElementMax

VARIABLES
  ReadFully,      (* the scope asked for                                   *)
  pos,            (* the file pointer                                      *)
  heap,           (* the live elements                                     *)
  created,        (* how many were created                                 *)
  stack,          (* the calls of Read that have not returned              *)
  UpperEltFound, FoundElt,
  strayed,        (* history: an element of an upper level was found       *)
  pc

vars == <<ReadFully, pos, heap, created, stack, UpperEltFound, FoundElt,
          strayed, pc>>

Element == 1 .. ElementMax
Class == Masters \cup Leaves
Level == {-1} \cup UNION {0 .. Len(Contexts[m]) : m \in Masters}

(* What a master of unknown size may read: 0x7FFFFFFF in the code, more    *)
(* than there is here.                                                     *)
NoLimit == 2 * (StreamEnd + SizeBound) + 1

-----------------------------------------------------------------------------
(* The call on top of the stack.                                           *)
call == Last(stack)
this == call.this
A == call.ElementLevelA

SetCall(e, budget) ==
  [stack EXCEPT ![Len(stack)] =
     [this |-> this, MaxSizeToRead |-> budget, ElementLevelA |-> e]]
SetElementLevelA(e) == SetCall(e, call.MaxSizeToRead)
SetMaxSizeToRead(budget) == SetCall(A, budget)

IsFiniteSize(e) == heap[e].bSizeIsFinite
DataStart(e) == heap[e].ElementPosition + 1
GetEndPosition(e) == DataStart(e) + heap[e].Size

(* Fault: the head of the child is not counted.                            *)
BudgetWithoutHead(e) ==
  IF IsFiniteSize(this) /\ IsFiniteSize(e)
  THEN call.MaxSizeToRead - heap[e].Size
  ELSE call.MaxSizeToRead

(* What ElementLevelA leaves of the bytes that can still be read.          *)
Budget(e) ==
  IF IsFiniteSize(this) /\ IsFiniteSize(e)
  THEN GetEndPosition(this) - GetEndPosition(e)
  ELSE call.MaxSizeToRead

(* The destructor of a master deletes the elements of its list, and so on  *)
(* down: the least set that has e and what is listed in it.                *)
Subtree(h, e) ==
  LET IsClosed(S) ==
        /\ {e} \cap DOMAIN h \subseteq S
        /\ \A x \in S : Range(h[x].ElementList) \cap DOMAIN h \subseteq S
  IN  {x \in DOMAIN h : \A S \in SUBSET DOMAIN h : IsClosed(S) => x \in S}

(* Fault: the destructor does not delete the children.                     *)
DeleteOfMasterOnly(h, elements) == Restrict(h, DOMAIN h \ elements)

Delete(h, elements) ==
  Restrict(h, DOMAIN h \ UNION {Subtree(h, e) : e \in elements})

-----------------------------------------------------------------------------
(* The level of a class in a master's context: -1 a global element, 0 a    *)
(* child, 1 the master itself or a child of its parent, and so on up.      *)
IsKnown(m, class) == class \in Children[m] \/ class = m

(* Fault: the master's own ID counts as one of its children.               *)
LevelOfOwnIdIsChild(m, class) ==
  LET knows == {i \in DOMAIN Contexts[m] : IsKnown(Contexts[m][i], class)}
  IN  IF class \in Globals THEN {-1}
      ELSE IF knows = {} THEN {} ELSE {Min(knows) - 1}

LevelOf(m, class) ==
  LET knows == {i \in DOMAIN Contexts[m] : IsKnown(Contexts[m][i], class)}
      i == Min(knows)
  IN  IF class \in Globals THEN {-1}
      ELSE IF knows = {} THEN {}
      ELSE {IF class \in Children[Contexts[m][i]] THEN i - 1 ELSE i}

NewElement(class, finite, position, size) ==
  [class |-> class, bSizeIsFinite |-> finite, ElementPosition |-> position,
   Size |-> size, bValueIsSet |-> class \in Masters,
   bChecksumUsed |-> FALSE, ElementList |-> << >>]

Call(e) == [this |-> e, MaxSizeToRead |-> 0, ElementLevelA |-> Null]

(* The root's head was read.  It may have been read before, from data with *)
(* two checksums, of which a reading takes the first out of the list.      *)
RootBefore(finite, again, size, list) ==
  [NewElement(Root, finite, 0, size) EXCEPT
     !.bChecksumUsed = again, !.ElementList = list]

HeapBefore(finite, again, size) ==
  IF again THEN <<RootBefore(finite, TRUE, size, <<2>>),
                  NewElement(EbmlCrc32, TRUE, 1, 0)>>
           ELSE <<RootBefore(finite, FALSE, size, << >>)>>

Init ==
  /\ ReadFully \in {"SCOPE_ALL_DATA", "SCOPE_PARTIAL_DATA"}
  /\ pos = 1
  /\ \E finite, again \in BOOLEAN, size \in 0 .. StreamEnd :
       /\ ~ finite => size = 0 /\ Root \in CanHaveInfiniteSize
       /\ heap = HeapBefore(finite, again, size)
  /\ created = 2
  /\ stack = <<Call(1)>>
  /\ UpperEltFound = 0
  /\ FoundElt = Null
  /\ strayed = FALSE
  /\ pc = "enter"

-----------------------------------------------------------------------------
(* Read: the children of a previous reading go, the data is read from its  *)
(* first octet.                                                            *)
Enter ==
  /\ pc = "enter"
  /\ heap' = Delete([heap EXCEPT ![this].ElementList = << >>],
                    Range(heap[this].ElementList))
  /\ LET budget == IF IsFiniteSize(this) THEN heap[this].Size ELSE NoLimit
     IN  /\ stack' = SetMaxSizeToRead(budget)
         /\ IF budget > 0
            THEN pos' = DataStart(this) /\ pc' = "find"
            ELSE UNCHANGED pos /\ pc' = "processCrc"
  /\ UNCHANGED <<ReadFully, created, UpperEltFound, FoundElt, strayed>>

(* FindNextElement gave up, at its limit or at the end of the stream.      *)
FindNothing ==
  /\ pc = "find"
  /\ stack' = SetElementLevelA(Null)
  /\ pos' = Max({pos, Min({StreamEnd, pos + call.MaxSizeToRead})})
  /\ pc' = "processCrc"
  /\ UNCHANGED <<ReadFully, heap, created, UpperEltFound, FoundElt, strayed>>

(* FindNextElement returned an element and left the pointer at its data.   *)
FindElementAt(class, finite, position, size) ==
  /\ pc = "find"
  /\ created < ElementMax
  /\ ~ finite => class \in CanHaveInfiniteSize /\ size = 0
  /\ position >= pos /\ position < StreamEnd
  /\ position < pos + call.MaxSizeToRead
  /\ \E level \in LevelOf(heap[this].class, class) :
       /\ level > 0 \/ ~ finite
            \/ position + 1 + size <= pos + call.MaxSizeToRead
       /\ UpperEltFound' = UpperEltFound + level
       /\ strayed' = (strayed \/ level > 0)
  /\ created' = created + 1
  /\ heap' = [e \in DOMAIN heap \cup {created'} |->
               IF e = created' THEN NewElement(class, finite, position, size)
                               ELSE heap[e]]
  /\ stack' = SetElementLevelA(created')
  /\ pos' = position + 1
  /\ pc' = "loop"
  /\ UNCHANGED <<ReadFully, FoundElt>>

(* The condition of the loop is false: an upper element goes to the caller.*)
LoopEnds ==
  /\ pc = "loop"
  /\ UpperEltFound > 0 \/ call.MaxSizeToRead = 0
  /\ FoundElt' = IF UpperEltFound > 0 THEN A ELSE FoundElt
  /\ pc' = "processCrc"
  /\ UNCHANGED <<ReadFully, pos, heap, created, stack, UpperEltFound, strayed>>

InLoop == pc = "loop" /\ UpperEltFound <= 0 /\ call.MaxSizeToRead > 0

(* ReadData of a leaf, from wherever the pointer is: complete, with a      *)
(* value that is set or not; short at the end of the stream, where it      *)
(* throws unless its class tolerates it.                                   *)
LeafEnd == pos + heap[A].Size

ReadLeaf ==
  /\ InLoop /\ heap[A].class \in Leaves
  /\ stack' = SetMaxSizeToRead(Budget(A))
  /\ pos' = Max({pos, Min({StreamEnd, LeafEnd})})
  /\ \E set \in BOOLEAN : heap' = [heap EXCEPT ![A].bValueIsSet = set]
  /\ pc' = "after"
  /\ UNCHANGED <<ReadFully, created, UpperEltFound, FoundElt, strayed>>

LeafThrows ==
  /\ InLoop /\ heap[A].class \in Leaves
  /\ heap[A].Size > 0 /\ LeafEnd > StreamEnd
  /\ stack' = SetMaxSizeToRead(Budget(A))
  /\ pos' = Max({pos, StreamEnd})
  /\ pc' = "throw"
  /\ UNCHANGED <<ReadFully, heap, created, UpperEltFound, FoundElt, strayed>>

ReadMaster ==
  /\ InLoop /\ heap[A].class \in Masters
  /\ stack' = Append(SetMaxSizeToRead(Budget(A)), Call(A))
  /\ pc' = "enter"
  /\ UNCHANGED <<ReadFully, pos, heap, created, UpperEltFound, FoundElt,
                 strayed>>

-----------------------------------------------------------------------------
(* The child was read: it is kept in the list unless its value is not set  *)
(* where all the data was asked for, and SkipData places the pointer after *)
(* it when its size is known.  What follows depends on UpperEltFound.      *)
IsKept == heap[A].bValueIsSet \/ ReadFully # "SCOPE_ALL_DATA"

(* Fault: a child is listed before its value is looked at.                 *)
SettledTooEarly ==
  LET listed == [heap EXCEPT ![this].ElementList = Append(@, A)]
  IN  IF IsKept THEN listed ELSE Delete(listed, {A})

Settled ==
  IF IsKept THEN [heap EXCEPT ![this].ElementList = Append(@, A)]
            ELSE Delete(heap, {A})

(* Fault: the child's size is counted from the beginning of the stream.    *)
SkipDataFromBeginning == IF IsFiniteSize(A) THEN heap[A].Size ELSE pos

(* Fault: the pointer is left where reading the child left it.             *)
SkipDataForgotten == pos

SkipData == IF IsFiniteSize(A) THEN GetEndPosition(A) ELSE pos

(* The element found is of a further level up.                             *)
PassUp ==
  /\ pc = "after" /\ UpperEltFound > 1
  /\ heap' = Settled
  /\ pos' = SkipData
  /\ UpperEltFound' = UpperEltFound - 1
  /\ pc' = "processCrc"
  /\ UNCHANGED <<ReadFully, created, stack, FoundElt, strayed>>

(* It is a child of this master, which has been read entirely.             *)
DropFoundElt ==
  /\ pc = "after" /\ UpperEltFound = 1 /\ call.MaxSizeToRead = 0
  /\ heap' = Delete(Settled, {FoundElt})
  /\ pos' = SkipData
  /\ UpperEltFound' = 0
  /\ FoundElt' = Null
  /\ pc' = "processCrc"
  /\ UNCHANGED <<ReadFully, created, stack, strayed>>

EndsOutside ==
  /\ IsFiniteSize(this) /\ IsFiniteSize(FoundElt)
  /\ GetEndPosition(FoundElt) > GetEndPosition(this)

(* It becomes the next child, unless it ends after this master; after a    *)
(* child of unknown size the loop is left in any case.                     *)
AdoptFoundElt ==
  /\ pc = "after" /\ UpperEltFound = 1 /\ call.MaxSizeToRead > 0
  /\ heap' = Settled
  /\ pos' = SkipData
  /\ UpperEltFound' = 0
  /\ IF IsFiniteSize(A) /\ ~ EndsOutside
     THEN /\ stack' = SetCall(FoundElt, Budget(FoundElt))
          /\ pc' = "loop"
     ELSE /\ stack' = SetElementLevelA(FoundElt)
          /\ pc' = "processCrc"
  /\ UNCHANGED <<ReadFully, created, FoundElt, strayed>>

(* No upper element: the next child is looked for.                         *)
NextChild ==
  /\ pc = "after" /\ UpperEltFound <= 0
  /\ heap' = Settled
  /\ pos' = SkipData
  /\ UpperEltFound' = 0
  /\ pc' = IF IsFiniteSize(A) /\ call.MaxSizeToRead > 0
           THEN "find" ELSE "processCrc"
  /\ UNCHANGED <<ReadFully, created, stack, FoundElt, strayed>>

-----------------------------------------------------------------------------
(* The first checksum of the list leaves it, then Read returns.            *)
Checksums ==
  {i \in DOMAIN heap[this].ElementList :
     heap[heap[this].ElementList[i]].class = EbmlCrc32}

Returned ==
  /\ stack' = Front(stack)
  /\ pc' = IF Len(stack) = 1 THEN "returned" ELSE "after"

TakeChecksum ==
  /\ pc = "processCrc" /\ Checksums # {}
  /\ LET i == Min(Checksums)
         list == heap[this].ElementList
     IN  heap' = Delete([heap EXCEPT ![this].bChecksumUsed = TRUE,
                                     ![this].ElementList = RemoveAt(list, i)],
                        {list[i]})
  /\ Returned
  /\ UNCHANGED <<ReadFully, pos, created, UpperEltFound, FoundElt, strayed>>

NoChecksum ==
  /\ pc = "processCrc" /\ Checksums = {} /\ ~ heap[this].bChecksumUsed
  /\ Returned
  /\ UNCHANGED <<ReadFully, pos, heap, created, UpperEltFound, FoundElt,
                 strayed>>

(* A checksum was used before and there is none now: what is deleted and   *)
(* erased is at the end of the list, which is undefined.                   *)
DeleteEndOfList ==
  /\ pc = "processCrc" /\ Checksums = {} /\ heap[this].bChecksumUsed
  /\ pc' = "undefined"
  /\ UNCHANGED <<ReadFully, pos, heap, created, stack, UpperEltFound, FoundElt,
                 strayed>>

(* The exception leaves one call after the other: the element being read   *)
(* is deleted, and not given to the caller.                                *)
Unwind ==
  /\ pc = "throw"
  /\ IF A = FoundElt
     THEN UpperEltFound' = 0 /\ FoundElt' = Null
     ELSE UNCHANGED <<UpperEltFound, FoundElt>>
  /\ heap' = Delete(heap, {A})
  /\ stack' = Front(stack)
  /\ pc' = IF Len(stack) = 1 THEN "thrown" ELSE "throw"
  /\ UNCHANGED <<ReadFully, pos, created, strayed>>

Next ==
  \/ Enter
  \/ FindNothing
  \/ \E class \in Class, finite \in BOOLEAN,
        position \in 0 .. StreamEnd, size \in 0 .. SizeBound :
        FindElementAt(class, finite, position, size)
  \/ LoopEnds \/ ReadLeaf \/ LeafThrows \/ ReadMaster
  \/ PassUp \/ DropFoundElt \/ AdoptFoundElt \/ NextChild
  \/ TakeChecksum \/ NoChecksum \/ DeleteEndOfList
  \/ Unwind

Spec == Init /\ [][Next]_vars

-----------------------------------------------------------------------------
(* Every variable holds a value of its type; a call that is neither the    *)
(* last nor entered reads a master.                                        *)
ElementRecord ==
  [class : Class, bSizeIsFinite : BOOLEAN, ElementPosition : 0 .. StreamEnd,
   Size : 0 .. Max({StreamEnd, SizeBound}), bValueIsSet : BOOLEAN,
   bChecksumUsed : BOOLEAN, ElementList : Seq(Element)]

TypeOK ==
  /\ ReadFully \in {"SCOPE_ALL_DATA", "SCOPE_PARTIAL_DATA"}
  /\ pos \in Nat
  /\ DOMAIN heap \subseteq 1 .. created /\ created \in Element
  /\ \A e \in DOMAIN heap : heap[e] \in ElementRecord
  /\ stack \in Seq([this : Element, MaxSizeToRead : 0 .. NoLimit,
                    ElementLevelA : Element \cup {Null}])
  /\ UpperEltFound \in Level
  /\ FoundElt \in Element \cup {Null}
  /\ strayed \in BOOLEAN
  /\ pc \in {"enter", "find", "loop", "after", "processCrc", "throw",
             "returned", "thrown", "undefined"}

List(e) == Range(heap[e].ElementList)

Listed == UNION {List(e) : e \in DOMAIN heap}

(* The elements being read: each is in the hands of one call.              *)
InHand == {stack[i].this : i \in 1 .. Len(stack)} \ {1}

(* What UpperEltFound announces, while it travels.                         *)
Travelling ==
  IF UpperEltFound <= 0 THEN {}
  ELSE IF pc = "loop" THEN {A}
  ELSE IF pc \in {"after", "processCrc", "returned"} THEN {FoundElt} ELSE {}

(* No element is freed twice: every live list holds live elements, no      *)
(* element is in two places, and neither the elements being read nor the   *)
(* one that travels up is in a list.  Each delete of Read and of the       *)
(* destructor relies on it.  FoundElt, when it does not travel, may be an  *)
(* element that was freed: the callers' reference is not looked at then.   *)
OwnedOnce ==
  /\ TypeOK
  /\ Listed \cup InHand \cup Travelling \subseteq DOMAIN heap \ {1}
  /\ \A e \in DOMAIN heap : IsInjective(heap[e].ElementList)
  /\ \A e, f \in DOMAIN heap : e # f => List(e) \cap List(f) = {}
  /\ (InHand \cup Travelling) \cap Listed = {}
  /\ InHand \cap Travelling = {}
  /\ \A i, j \in 1 .. Len(stack) : i # j => stack[i].this # stack[j].this

(* The unsigned subtractions that give MaxSizeToRead never wrap: when the  *)
(* next child is looked for, what may be read is what is left of a master  *)
(* of known size, whatever its last child was.                             *)
BudgetIsExact ==
  pc = "find" /\ IsFiniteSize(this)
    => pos + call.MaxSizeToRead = GetEndPosition(this)

(* The elements whose list is of this reading.                             *)
Entered == DOMAIN heap \ (IF pc = "enter" THEN {this} ELSE {})

(* A child of known size ends inside its master of known size.             *)
ChildrenInside ==
  \A e \in Entered : IsFiniteSize(e) =>
    \A c \in List(e) :
      IsFiniteSize(c) => GetEndPosition(c) <= GetEndPosition(e)

(* The children of a master are in the order of the stream, none is read   *)
(* twice, and all start after their master does, also when a child of a    *)
(* child became a child.                                                   *)
ReadInOrder ==
  \A e \in Entered :
    LET list == heap[e].ElementList
    IN  \A i \in DOMAIN list :
          heap[list[i]].ElementPosition >
            heap[IF i = 1 THEN e ELSE list[i - 1]].ElementPosition

(* Whatever the level it was found from, an element ends up in a master    *)
(* whose context has it, or is global there; one that is still travelling  *)
(* is on its way to such a master.                                         *)
InContext ==
  /\ \A e \in DOMAIN heap : \A c \in List(e) :
       heap[c].class \in Children[heap[e].class] \cup Globals
  /\ pc = "after" /\ UpperEltFound \in 1 .. Len(stack) =>
       heap[FoundElt].class \in
         Children[heap[stack[Len(stack) + 1 - UpperEltFound].this].class]

(* When no element of an upper level was met, the reading loses nothing:   *)
(* what is alive is in the tree, nothing is handed to the caller, and      *)
(* every leaf was read from its own data.                                  *)
NothingLost ==
  ~ strayed =>
    /\ pc \in {"returned", "thrown"} =>
         /\ DOMAIN heap = Subtree(heap, 1)
         /\ UpperEltFound <= 0 /\ FoundElt = Null
    /\ InLoop /\ heap[A].class \in Leaves => pos = DataStart(A)

(* ReadData's assert(Parent == nullptr), next to assert(upper == 0): there *)
(* is an element in FoundElt only when UpperEltFound says for which level. *)
ParentIsNull == pc = "returned" /\ UpperEltFound = 0 => FoundElt = Null
=============================================================================
