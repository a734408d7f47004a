---------------------------- MODULE MCDafnyEuclid ----------------------------
(* Operands for the DafnyEuclid runs: every sign combination and, for the *)
(* 4-bit instance, both ends of the type.                                 *)
EXTENDS DafnyEuclid

BigIntOperands == -6..6

NibbleOperands == -8..7

=============================================================================
