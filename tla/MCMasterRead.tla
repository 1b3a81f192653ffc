---------------------------- MODULE MCMasterRead ----------------------------
(***************************************************************************)
(* Three levels of masters, a leaf at the top one and, everywhere, the     *)
(* checksum; the two lower masters may have the unknown size.              *)
(***************************************************************************)
EXTENDS ElementSkip

MCMasters == {"R", "A", "B"}
MCLeaves == {"r", "Crc"}
MCChildren == [R |-> {"r", "A"}, A |-> {"B"}, B |-> {}]
MCContexts == [R |-> <<"R">>, A |-> <<"A", "R">>, B |-> <<"B", "A", "R">>]
=============================================================================
