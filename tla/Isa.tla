--------------------------------- MODULE Isa ---------------------------------
(***************************************************************************)
(* The instructions of the EX3 (isa.rs): five formats, each with its own   *)
(* operations and operand.  LDA and LDSP are both "LD" here, STA and STSP  *)
(* both "ST": the format tells them apart.                                 *)
(***************************************************************************)
EXTENDS Alu

CONSTANTS
  Illegal,         \* DecodeError, what an illegal word decodes to
  ResetAddress     \* 0x10, where execution starts

MemoryOps    == AluOps \cup {"ST", "ISZ"}
ImmediateOps == AluOps \cup {"LDHI", "LDLO", "ADJSP"}
SpOps        == AluOps \cup {"ST"}
SystemOps    == {"CLA", "CMA", "RET", "IRET", "HLT", "INP", "OUT", "SKI",
                 "SKO", "ION", "IOF", "SIO", "PIO", "IMK"}

Instruction ==
  [fmt : {"memory"}, op : MemoryOps, address : Address, indirect : BOOLEAN]
  \cup [fmt : {"immediate"}, op : ImmediateOps, value : Address]
  \cup [fmt : {"sp"}, op : SpOps, offset : Address]
  \cup [fmt : {"branch"}, op : BranchOps, target : Address]
  \cup [fmt : {"system"}, op : SystemOps]
=============================================================================
