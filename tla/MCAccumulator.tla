---------------------------- MODULE MCAccumulator ----------------------------
(* Accumulator over words of 6 bits.                                       *)
EXTENDS Accumulator, MCBits
=============================================================================
