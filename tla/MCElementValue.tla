--------------------------- MODULE MCElementValue ---------------------------
(***************************************************************************)
(* Octets of two bits and words of three octets: every value of a word,    *)
(* every data of up to four octets, one more than an integer may have, cut *)
(* off anywhere.  Most dates do not fit in nanoseconds, as in the code.    *)
(* A float has two octets, one less than a double: that a word of the code *)
(* is twice a float is not used.  A big-endian and a little-endian build   *)
(* exchange files.                                                         *)
(***************************************************************************)
EXTENDS ElementValue
=============================================================================
