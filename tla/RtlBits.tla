------------------------------ MODULE RtlBits ------------------------------
(* Verilog's one-bit values.  A register or wire of one bit is 0 or 1; a
   condition becomes a bit with Bit(P), a bit is tested with "= 1".         *)
EXTENDS Integers

Bits == {0, 1}

Bit(P) == IF P THEN 1 ELSE 0
=============================================================================
