----------------------------- MODULE ElementSkip -----------------------------
(***************************************************************************)
(* What a program does with a master it has found: it reads it (the module *)
(* MasterRead), or it skips it with EbmlElement::SkipData.  Of a master of *)
(* unknown size the end is not known: elements are found in its context    *)
(* and skipped, an element the context does not have is handed to a        *)
(* further call of SkipData in the parent context, and so on up to the     *)
(* global context.                                                         *)
(*                                                                         *)
(* Dummy elements are not allowed, the default of the parameter.           *)
(***************************************************************************)
EXTENDS MasterRead

VARIABLES
  skips,     (* the calls of SkipData that have not returned               *)
  Skipped,   (* the Result of the one on top                               *)
  step       (* where it is, "none" when the program reads                 *)

skipVars == <<skips, Skipped, step>>

(* A context is the chain from it up to the root's; the global context,    *)
(* which has no parent, is the empty one.                                  *)
Global == << >>

InTable(class, Context) ==
  class \in (IF Context = Global THEN Globals ELSE Children[Context[1]])

SkipCall(Context, TestReadElt) ==
  [Context |-> Context, TestReadElt |-> TestReadElt]

top == Last(skips)

(* The program reads the root, or skips a master of unknown size, of which *)
(* the head was read.                                                      *)
SkipInit ==
  /\ ReadFully = "SCOPE_ALL_DATA"
  /\ pos = 1
  /\ \E m \in CanHaveInfiniteSize :
       /\ heap = [e \in {1} |-> NewElement(m, FALSE, 0, 0)]
       /\ skips = <<SkipCall(Contexts[m], Null)>>
  /\ created = 1
  /\ stack = <<Call(1)>>
  /\ UpperEltFound = 0 /\ FoundElt = Null
  /\ strayed = FALSE
  /\ pc = "enter" /\ step = "loop"

ProgramInit ==
  /\ Skipped = Null
  /\ SkipInit \/ (Init /\ skips = << >> /\ step = "none")

UNCHANGED_Read ==
  UNCHANGED <<ReadFully, stack, UpperEltFound, FoundElt, strayed, pc>>

-----------------------------------------------------------------------------
(* The loop: the element given to this call, if any, then those found.     *)
SkipTest ==
  /\ step = "loop" /\ top.TestReadElt # Null
  /\ Skipped' = top.TestReadElt
  /\ skips' = [skips EXCEPT ![Len(skips)].TestReadElt = Null]
  /\ step' = "found"
  /\ UNCHANGED <<pos, heap, created>>
  /\ UNCHANGED_Read

SkipFind(class, finite, position, size) ==
  /\ step = "loop" /\ top.TestReadElt = Null
  /\ created < ElementMax
  /\ ~ finite => class \in CanHaveInfiniteSize /\ size = 0
  /\ position >= pos /\ position < StreamEnd
  /\ IF top.Context = Global THEN class \in Globals
     ELSE LevelOf(top.Context[1], class) # {}
  /\ created' = created + 1
  /\ heap' = [e \in DOMAIN heap \cup {created'} |->
               IF e = created' THEN NewElement(class, finite, position, size)
                               ELSE heap[e]]
  /\ Skipped' = created'
  /\ pos' = position + 1
  /\ step' = "found"
  /\ UNCHANGED skips
  /\ UNCHANGED_Read

(* Fault: the end of the stream does not end the loop.                     *)
AfterNothingFindsAgain == "loop"

AfterNothing == "return"

(* The end of the stream.                                                  *)
SkipFindNothing ==
  /\ step = "loop" /\ top.TestReadElt = Null
  /\ Skipped' = Null
  /\ pos' = Max({pos, StreamEnd})
  /\ step' = AfterNothing
  /\ UNCHANGED <<skips, heap, created>>
  /\ UNCHANGED_Read

(* Fault: the element is left at its data.                                 *)
SkippedTooLittle(e) == DataStart(e)

(* The branch of SkipData for a known size.                                *)
SkippedTo(e) == GetEndPosition(e)

(* An element of the context is skipped, at once when its size is known.   *)
(* It is not deleted.                                                      *)
SkipKnown ==
  /\ step = "found" /\ InTable(heap[Skipped].class, top.Context)
  /\ IF IsFiniteSize(Skipped)
     THEN /\ pos' = SkippedTo(Skipped)
          /\ UNCHANGED skips
     ELSE /\ skips' = Append(skips, SkipCall(Contexts[heap[Skipped].class], Null))
          /\ UNCHANGED pos
  /\ Skipped' = Null
  /\ step' = "loop"
  /\ UNCHANGED <<heap, created>>
  /\ UNCHANGED_Read

(* Fault: the parent contexts are passed over.                             *)
StraightToGlobal(Context) == Global

(* The parent context, at last the global one.                             *)
Parent(Context) == Tail(Context)

(* One of another context is handed to a call in the parent context.       *)
SkipInParent ==
  /\ step = "found" /\ ~ InTable(heap[Skipped].class, top.Context)
  /\ top.Context # Global
  /\ skips' = Append(skips, SkipCall(Parent(top.Context), Skipped))
  /\ step' = "loop"
  /\ UNCHANGED <<pos, heap, created, Skipped>>
  /\ UNCHANGED_Read

(* Not even the global context has it: it is what is returned.             *)
SkipEndFound ==
  /\ step = "found" /\ ~ InTable(heap[Skipped].class, top.Context)
  /\ top.Context = Global
  /\ step' = "return"
  /\ UNCHANGED <<skips, Skipped, pos, heap, created>>
  /\ UNCHANGED_Read

(* To the caller's loop, which only goes on when nothing is returned.      *)
SkipReturns ==
  /\ step = "return"
  /\ IF Len(skips) = 1
     THEN step' = "done" /\ UNCHANGED skips
     ELSE /\ step' = IF Skipped = Null THEN "loop" ELSE "return"
          /\ skips' = Front(skips)
  /\ UNCHANGED <<Skipped, pos, heap, created>>
  /\ UNCHANGED_Read

SkipData_unknown ==
  \/ \E class \in Class, finite \in BOOLEAN,
        position \in 0 .. StreamEnd, size \in 0 .. SizeBound :
        SkipFind(class, finite, position, size)
  \/ SkipTest \/ SkipFindNothing \/ SkipKnown \/ SkipInParent \/ SkipEndFound
  \/ SkipReturns

ProgramNext ==
  \/ step = "none" /\ Next /\ UNCHANGED skipVars
  \/ SkipData_unknown

ProgramSpec ==
  /\ ProgramInit /\ [][ProgramNext]_<<vars, skipVars>>
  /\ WF_<<vars, skipVars>>(ProgramNext)

-----------------------------------------------------------------------------
SkipFound == {e \in DOMAIN heap : step # "none" /\ e > 1}

(* Nothing is looked for inside an element whose size is known: what is    *)
(* found next lies behind it, from whatever context each was found, and    *)
(* the file pointer never goes back.                                       *)
SkipsWholeElements ==
  \A e, f \in SkipFound :
    e < f => heap[f].ElementPosition >=
               (IF IsFiniteSize(e) THEN GetEndPosition(e) ELSE DataStart(e))

(* What ends the skipping is an element no context of the chain has in its *)
(* table, nor the global one: siblings of the master and elements of its   *)
(* parents are skipped with it.                                            *)
StopsAtOutsider ==
  step = "done" /\ Skipped # Null =>
    ~ \E i \in 0 .. Len(skips[1].Context) :
        InTable(heap[Skipped].class,
                SubSeq(skips[1].Context, i + 1, Len(skips[1].Context)))

(* Reading and skipping return, whatever the stream holds.                 *)
Returns == <>(step = "done" \/ pc \in {"returned", "thrown", "undefined"})
=============================================================================
