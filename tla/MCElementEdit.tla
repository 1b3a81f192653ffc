--------------------------- MODULE MCElementEdit ---------------------------
(***************************************************************************)
(* Octets of three bits: one octet holds sizes up to 2, two up to 14.  Two *)
(* leaves, one of them with a long ID, a void element and a master.        *)
(***************************************************************************)
EXTENDS ElementEdit

MCMask == <<4, 2, 1>>
MCAllOnes == <<3, 15, 63, 255, 1023>>
MCLength == [x \in {"e", "f", "v", "M", "filler"} |-> IF x = "f" THEN 2 ELSE 1]
=============================================================================
