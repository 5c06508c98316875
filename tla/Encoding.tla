------------------------------ MODULE Encoding -------------------------------
(***************************************************************************)
(* How isa.rs packs an instruction into a word: format, opcode, modifier   *)
(* and operand, from the highest bits to the lowest.                       *)
(*                                                                         *)
(* The machine has 3 bits of format, 5 of opcode, 8 of modifier and 16 of  *)
(* operand.  Opcode and modifier widths are constants here; format, opcode *)
(* and modifier together fill the upper half of a word.                    *)
(***************************************************************************)
EXTENDS Isa

CONSTANTS OpcodeSize, ModifierSize     \* 2^5 and 2^8

FormatSize == 8

ASSUME EncodingAssumption ==
  /\ OpcodeSize \in Nat /\ OpcodeSize >= 14
  /\ ModifierSize \in Nat /\ ModifierSize >= 2
  /\ HalfSize = FormatSize * (OpcodeSize * ModifierSize)
  /\ Illegal \notin Instruction

FormatNumber(fmt) ==
  CASE fmt = "memory" -> 0 [] fmt = "immediate" -> 1 [] fmt = "sp" -> 2
    [] fmt = "branch" -> 3 [] fmt = "system" -> 4

(* Memory, immediate and SP-relative operations share one numbering.       *)
AccumulatorOpcode(op) ==
  CASE op = "ADD" -> 0 [] op = "SUB" -> 1 [] op = "AND" -> 2 [] op = "OR" -> 3
    [] op = "XOR" -> 4 [] op = "LD" -> 5 [] op = "ST" -> 6 [] op = "CMP" -> 7
    [] op = "ISZ" -> 8 [] op = "LDHI" -> 9 [] op = "LDLO" -> 10
    [] op = "ADJSP" -> 11

BranchOpcode(op) ==
  CASE op = "JMP" -> 0 [] op = "CALL" -> 1 [] op = "BEQ" -> 2 [] op = "BNE" -> 3
    [] op = "BLT" -> 4 [] op = "BGE" -> 5 [] op = "BGT" -> 6 [] op = "BLE" -> 7
    [] op = "BULT" -> 8 [] op = "BUGE" -> 9 [] op = "BUGT" -> 10
    [] op = "BULE" -> 11

SystemOpcode(op) ==
  CASE op = "CLA" -> 0 [] op = "CMA" -> 1 [] op = "RET" -> 2 [] op = "IRET" -> 3
    [] op = "HLT" -> 4 [] op = "INP" -> 5 [] op = "OUT" -> 6 [] op = "SKI" -> 7
    [] op = "SKO" -> 8 [] op = "ION" -> 9 [] op = "IOF" -> 10 [] op = "SIO" -> 11
    [] op = "PIO" -> 12 [] op = "IMK" -> 13

Opcode(i) ==
  CASE i.fmt = "branch" -> BranchOpcode(i.op)
    [] i.fmt = "system" -> SystemOpcode(i.op)
    [] OTHER            -> AccumulatorOpcode(i.op)

(* Mutant: the indirect bit is dropped.                                    *)
ModifierDropped(i) == 0

Modifier(i) == IF i.fmt = "memory" /\ i.indirect THEN 1 ELSE 0

Operand(i) ==
  CASE i.fmt = "memory" -> i.address [] i.fmt = "immediate" -> i.value
    [] i.fmt = "sp" -> i.offset [] i.fmt = "branch" -> i.target
    [] i.fmt = "system" -> 0

Control(f, opcode, modifier) == (f * OpcodeSize + opcode) * ModifierSize + modifier

Encode(i) ==
  Control(FormatNumber(i.fmt), Opcode(i), Modifier(i)) * HalfSize + Operand(i)

-----------------------------------------------------------------------------
(* decode.                                                                 *)

FormatOf(w)   == High(w) \div (OpcodeSize * ModifierSize)
OpcodeOf(w)   == (High(w) \div ModifierSize) % OpcodeSize
ModifierOf(w) == High(w) % ModifierSize

(* The instructions a word may stand for: those of its format with its     *)
(* opcode, if its other fields are what the format allows.                 *)
Readings(w) ==
  CASE FormatOf(w) = 0 /\ ModifierOf(w) \in {0, 1} ->
         [fmt : {"memory"}, address : {Low(w)}, indirect : {ModifierOf(w) = 1},
          op : {o \in MemoryOps : AccumulatorOpcode(o) = OpcodeOf(w)}]
    [] FormatOf(w) = 1 /\ ModifierOf(w) = 0 ->
         [fmt : {"immediate"}, value : {Low(w)},
          op : {o \in ImmediateOps : AccumulatorOpcode(o) = OpcodeOf(w)}]
    [] FormatOf(w) = 2 /\ ModifierOf(w) = 0 ->
         [fmt : {"sp"}, offset : {Low(w)},
          op : {o \in SpOps : AccumulatorOpcode(o) = OpcodeOf(w)}]
    [] FormatOf(w) = 3 /\ ModifierOf(w) = 0 ->
         [fmt : {"branch"}, target : {Low(w)},
          op : {o \in BranchOps : BranchOpcode(o) = OpcodeOf(w)}]
    [] FormatOf(w) = 4 /\ ModifierOf(w) = 0 /\ Low(w) = 0 ->
         [fmt : {"system"}, op : {o \in SystemOps : SystemOpcode(o) = OpcodeOf(w)}]
    [] OTHER -> {}

DecodeWord(w) ==
  IF Readings(w) = {} THEN Illegal ELSE CHOOSE i \in Readings(w) : TRUE

DecodeTable == [w \in Word |-> DecodeWord(w)]
=============================================================================
