------------------------------ MODULE MCCrc32 ------------------------------
(***************************************************************************)
(* Octets of two bits, so a register of eight, and the polynomial          *)
(* x^8 + x^2 + x + 1.  One element has no default values, one has, and one *)
(* is longer than a length can be.                                         *)
(***************************************************************************)
EXTENDS Crc32

MCPolynomial == {5, 6, 7}

MCTable ==
  LET step(c) == IF 0 \in c
                 THEN Xor({b \in 0 .. 7 : b + 1 \in c}, MCPolynomial)
                 ELSE {b \in 0 .. 7 : b + 1 \in c}
  IN  [o \in SUBSET (0 .. 1) |-> step(step(o))]

MCData ==
  LET a == {0}  b == {1}  c == {0, 1}
  IN  {<<a>>, <<b, c, a, b>>, <<a, b, c, a, b, c>>}

MCElements ==
  {[WriteAll |-> <<{0}>>, WriteSkipDefault |-> <<{0}>>],
   [WriteAll |-> <<{1}, {0, 1}, {0}, {}>>, WriteSkipDefault |-> <<{1}, {0, 1}>>],
   [WriteAll |-> [i \in 1 .. 7 |-> {1}], WriteSkipDefault |-> [i \in 1 .. 7 |-> {1}]]}
=============================================================================
