---------------------------- MODULE MCMasterList ----------------------------
(***************************************************************************)
(* Two mandatory classes, one with a default, and a deprecated one.  Three *)
(* elements at a time let a class occur twice with another between.        *)
(* Of a checksum the view has only whether it is that of no data, except   *)
(* in a file with children: everything else that is written or read sets   *)
(* it, and after reading it is the file's.                                 *)
(***************************************************************************)
EXTENDS MasterList

Objects == Permutations(Object)

MCView ==
  <<list, bChecksumUsed, Checksum = << >>, asRead,
    IF file.children = << >> /\ file.crc # << >>
    THEN [file EXCEPT !.crc = <<file.crc[1] = << >> >>] ELSE file>>

MCSemantic == <<"EDocType", "EVersion", "EOld">>
MCValue == [EDocType |-> {0}, EVersion |-> {0, 1}, EOld |-> {0}]
MCDefaultSize == [EDocType |-> {0}, EVersion |-> {0, 2}, EOld |-> {0}]
=============================================================================
