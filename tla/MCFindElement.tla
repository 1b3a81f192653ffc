--------------------------- MODULE MCFindElement ---------------------------
(***************************************************************************)
(* Octets of three bits: markers 4, 2, 1, so an ID takes one or two octets *)
(* and a size up to three.  The context is a master <<5>> with one child   *)
(* <<4>>, inside a parent that knows <<5>> (which may have the unknown     *)
(* size) and <<2, 5>>; <<2, 4>> is global.  Every other ID is unknown.     *)
(* FindNextID asks for the child, the master or the global element.        *)
(***************************************************************************)
EXTENDS EbmlStream

MCMask == <<4, 2, 1>>
MCAllOnes == <<3, 15, 63, 255, 1023>>

MCPath ==
  <<[children |-> {<<4>>}, master |-> <<5>>, isGlobal |-> FALSE],
    [children |-> {<<5>>, <<2, 5>>}, master |-> << >>, isGlobal |-> FALSE]>>

MCGlobalIds == {<<2, 4>>}

MCCanHaveInfiniteSize == {<<5>>}
MCClassIds == {<<2, 4>>, <<4>>, <<5>>}

(* The leaf <<4>> holds at most five octets of data.                        *)
MCSizeIsValid(id, size) == id = <<4>> => size <= 5
=============================================================================
