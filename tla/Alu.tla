--------------------------------- MODULE Alu ---------------------------------
(***************************************************************************)
(* The arithmetic of the EX3 accumulator (emulator.rs, isa.rs): words that *)
(* wrap, the four condition flags, and the operand conversions of the      *)
(* instruction formats.                                                    *)
(*                                                                         *)
(* The machine has 16-bit addresses and immediates and 32-bit words.  Here *)
(* both widths are constants: a half word (address, immediate) has         *)
(* HalfSize values and a word HalfSize * HalfSize of them.                 *)
(***************************************************************************)
EXTENDS Integers

CONSTANTS
  HalfSize,      \* 2^16: the number of addresses, and of immediates
  WordSize,      \* 2^32: the number of words
  ByteSize,      \* 2^8: the number of bytes a peripheral transfers
  HalfAnd(_, _), \* the bitwise operations of a half word
  HalfOr(_, _),
  HalfXor(_, _)

Address == 0 .. HalfSize - 1
Word    == 0 .. WordSize - 1

ASSUME SizeAssumption ==
  /\ HalfSize \in Nat /\ HalfSize > 4 /\ HalfSize % 2 = 0
  /\ WordSize = HalfSize * HalfSize
  /\ ByteSize \in Nat /\ ByteSize > 0 /\ WordSize % ByteSize = 0

ASSUME BitwiseAssumption ==
  \A a, b \in Address : /\ HalfAnd(a, b) \in Address
                        /\ HalfOr(a, b)  \in Address
                        /\ HalfXor(a, b) \in Address

-----------------------------------------------------------------------------
(* Words and addresses.                                                    *)

HalfWord == WordSize \div 2

Negative(w) == w >= HalfWord                         \* bit 31 of the word
Signed(w)   == IF Negative(w) THEN w - WordSize ELSE w

SignedHalf(h)   == IF h >= HalfSize \div 2 THEN h - HalfSize ELSE h
SignExtended(h) == SignedHalf(h) % WordSize

(* Mutant: a sum that does not wrap.                                       *)
AddWordUnwrapped(a, b) == a + b

AddWord(a, b)    == (a + b) % WordSize
SubWord(a, b)    == (a - b) % WordSize
Complement(a)    == WordSize - 1 - a
Low(w)           == w % HalfSize                     \* Address::from_low16

(* Mutant: an address that does not wrap.                                  *)
WrapAddrUnwrapped(a, off) == a + off

WrapAddr(a, off) == (a + off) % HalfSize             \* wrapping_add(_signed)

WithHigh(w, h)  == h * HalfSize + Low(w)             \* LDHI
WithLow(w, h)   == w - Low(w) + h                    \* LDLO
High(w)         == w \div HalfSize
LowByte(w)      == w % ByteSize
WithByte(w, v)  == w - LowByte(w) + v                \* INP keeps the high bits

BitAnd(a, b) == WithHigh(HalfAnd(Low(a), Low(b)), HalfAnd(High(a), High(b)))
BitOr(a, b)  == WithHigh(HalfOr(Low(a), Low(b)), HalfOr(High(a), High(b)))
BitXor(a, b) == WithHigh(HalfXor(Low(a), Low(b)), HalfXor(High(a), High(b)))

-----------------------------------------------------------------------------
(* The program status register.                                            *)

Psr == [v : BOOLEAN, c : BOOLEAN, z : BOOLEAN, n : BOOLEAN, ien : BOOLEAN]

ClearPsr == [v |-> FALSE, c |-> FALSE, z |-> FALSE, n |-> FALSE, ien |-> FALSE]

Bit(b, weight) == IF b THEN weight ELSE 0
HasBit(w, weight) == (w \div weight) % 2 = 1

PackPsr(p) ==
  Bit(p.v, 1) + Bit(p.c, 2) + Bit(p.z, 4) + Bit(p.n, 8) + Bit(p.ien, 16)

UnpackPsr(w) ==                                      \* w & PSR_MASK
  [v |-> HasBit(w, 1), c |-> HasBit(w, 2), z |-> HasBit(w, 4),
   n |-> HasBit(w, 8), ien |-> HasBit(w, 16)]

-----------------------------------------------------------------------------
(* The operations every operand format shares.                             *)

AluOps == {"ADD", "SUB", "AND", "OR", "XOR", "LD", "CMP"}

AluResult(op, a, b) ==
  CASE op = "ADD" -> AddWord(a, b)
    [] op \in {"SUB", "CMP"} -> SubWord(a, b)
    [] op = "AND" -> BitAnd(a, b)
    [] op = "OR"  -> BitOr(a, b)
    [] op = "XOR" -> BitXor(a, b)
    [] op = "LD"  -> b

UpdateNZ(p, r) == [p EXCEPT !.n = Negative(r), !.z = (r = 0)]

(* Mutant: the overflow rule of subtraction.                               *)
AddFlagsOfSubtraction(p, a, b) ==
  LET r == AddWord(a, b)
  IN  [UpdateNZ(p, r) EXCEPT
         !.c = (a + b >= WordSize),
         !.v = (Negative(a) # Negative(b) /\ Negative(a) # Negative(r))]

AddFlags(p, a, b) ==
  LET r == AddWord(a, b)
  IN  [UpdateNZ(p, r) EXCEPT
         !.c = (a + b >= WordSize),
         !.v = (Negative(a) = Negative(b) /\ Negative(a) # Negative(r))]

(* Mutant: carry as borrow.                                                *)
SubtractionFlagsBorrow(p, a, b) ==
  LET r == SubWord(a, b)
  IN  [UpdateNZ(p, r) EXCEPT
         !.c = (a < b),
         !.v = (Negative(a) # Negative(b) /\ Negative(a) # Negative(r))]

SubtractionFlags(p, a, b) ==
  LET r == SubWord(a, b)
  IN  [UpdateNZ(p, r) EXCEPT
         !.c = (a >= b),
         !.v = (Negative(a) # Negative(b) /\ Negative(a) # Negative(r))]

AluFlags(op, p, a, b) ==
  CASE op = "ADD" -> AddFlags(p, a, b)
    [] op \in {"SUB", "CMP"} -> SubtractionFlags(p, a, b)
    [] OTHER -> UpdateNZ(p, AluResult(op, a, b))

-----------------------------------------------------------------------------
(* The condition under which each branch is taken.                         *)

BranchOps ==
  {"JMP", "CALL", "BEQ", "BNE", "BLT", "BGE", "BGT", "BLE",
   "BULT", "BUGE", "BUGT", "BULE"}

Taken(op, p) ==
  CASE op \in {"JMP", "CALL"} -> TRUE
    [] op = "BEQ"  -> p.z
    [] op = "BNE"  -> ~ p.z
    [] op = "BLT"  -> p.n # p.v
    [] op = "BGE"  -> p.n = p.v
    [] op = "BGT"  -> ~ p.z /\ p.n = p.v
    [] op = "BLE"  -> p.z \/ p.n # p.v
    [] op = "BULT" -> ~ p.c
    [] op = "BUGE" -> p.c
    [] op = "BUGT" -> p.c /\ ~ p.z
    [] op = "BULE" -> ~ p.c \/ p.z
=============================================================================
