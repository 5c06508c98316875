----------------------------- MODULE RuntimeCall ------------------------------
(***************************************************************************)
(* A call of an unsigned routine of the runtime library (cc/runtime.asm)   *)
(* as the processor executes it: from its first instruction, with the      *)
(* arguments and the return address on the stack, until it has returned.   *)
(* Word size, place, stack and arguments are any.                          *)
(***************************************************************************)
EXTENDS Ex3Cpu, Sequences

CONSTANTS
  Entry,         \* the address of the routine
  Stack,         \* SP at its first instruction, where the return address is
  Back,          \* the return address
  Left, Right    \* the arguments, above it

(* The instructions, jumps by their distance from Entry.                   *)
OnStack(op, n)   == [fmt |-> "sp", op |-> op, offset |-> n]
Immediate(op, n) == [fmt |-> "immediate", op |-> op, value |-> n % HalfSize]
Jump(op, k)      == [fmt |-> "branch", op |-> op, target |-> Entry + k]
Plain(op)        == [fmt |-> "system", op |-> op]

MultiplyCode ==
  <<Immediate("ADJSP", -4), Plain("CLA"), OnStack("ST", 0), OnStack("LD", 6),
    OnStack("ST", 1),
    OnStack("LD", 1), Immediate("CMP", 0), Jump("BEQ", 29),              \* loop
    Immediate("LD", 1), OnStack("ST", 2), OnStack("LD", 5), OnStack("ST", 3),
    OnStack("LD", 2), OnStack("ADD", 2), Jump("BUGE", 22),               \* inner
    OnStack("CMP", 1), Jump("BUGT", 22), OnStack("ST", 2),
    OnStack("LD", 3), OnStack("ADD", 3), OnStack("ST", 3), Jump("JMP", 12),
    OnStack("LD", 1), OnStack("SUB", 2), OnStack("ST", 1),               \* take
    OnStack("LD", 0), OnStack("ADD", 3), OnStack("ST", 0), Jump("JMP", 5),
    OnStack("LD", 0), Immediate("ADJSP", 4), Plain("RET")>>              \* end

DivideCode ==
  <<Immediate("ADJSP", -4), Plain("CLA"), OnStack("ST", 1), OnStack("LD", 5),
    OnStack("ST", 0),
    OnStack("LD", 0), OnStack("CMP", 6), Jump("BULT", 30),               \* loop
    OnStack("LD", 6), OnStack("ST", 2), Immediate("LD", 1), OnStack("ST", 3),
    OnStack("LD", 2), OnStack("ADD", 2), Jump("BUGE", 22),               \* inner
    OnStack("CMP", 0), Jump("BUGT", 22), OnStack("ST", 2),
    OnStack("LD", 3), OnStack("ADD", 3), OnStack("ST", 3), Jump("JMP", 12),
    OnStack("LD", 0), OnStack("SUB", 2), OnStack("ST", 0),               \* take
    OnStack("LD", 0), OnStack("LD", 1), OnStack("ADD", 3), OnStack("ST", 1),
    Jump("JMP", 5),
    OnStack("LD", 1), Immediate("ADJSP", 4), Plain("RET")>>              \* end

RemainderCode ==
  <<Immediate("ADJSP", -2), OnStack("LD", 3), OnStack("ST", 0),
    OnStack("LD", 0), OnStack("CMP", 4), Jump("BULT", 19),               \* loop
    OnStack("LD", 4), OnStack("ST", 1),
    OnStack("LD", 1), OnStack("ADD", 1), Jump("BUGE", 15),               \* inner
    OnStack("CMP", 0), Jump("BUGT", 15), OnStack("ST", 1), Jump("JMP", 8),
    OnStack("LD", 0), OnStack("SUB", 1), OnStack("ST", 0),               \* take
    Jump("JMP", 3),
    OnStack("LD", 0), Immediate("ADJSP", 2), Plain("RET")>>              \* end

Inside(code) == Entry .. Entry + Len(code) - 1

(* The word n above the return address.                                    *)
Cell(n) == mem[WrapAddr(Stack, n)]

Held(code) == \A k \in DOMAIN code : Decode[mem[Entry + k - 1]] = code[k]

(* The routine lies in memory apart from the four words below the stack,   *)
(* and is called from elsewhere with interrupts off, as compiled programs  *)
(* run (they execute no ION).                                              *)
CalledAt(code) ==
  /\ TypeOK /\ ~ halted /\ ~ psr.ien
  /\ pc = Entry /\ sp = Stack
  /\ Low(Cell(0)) = Back /\ Cell(1) = Left /\ Cell(2) = Right
  /\ Held(code)
  /\ Inside(code) \subseteq Address
  /\ \A n \in 1 .. 4 : WrapAddr(Stack, -n) \notin Inside(code)
  /\ Back \notin Inside(code)

(* Until the routine has returned, the processor steps and the host acts   *)
(* as it likes, except that it does not reset.                             *)
Under(code) ==
  /\ pc \in Inside(code)
  /\ \/ Step
     \/ \E k \in Kind, v \in Byte : PushInput(k, v)
     \/ \E f \in BOOLEAN : ForceInterrupt(f)

MultiplySpec  == CalledAt(MultiplyCode) /\ [][Under(MultiplyCode)]_vars
DivideSpec    == CalledAt(DivideCode) /\ [][Under(DivideCode)]_vars
RemainderSpec == CalledAt(RemainderCode) /\ [][Under(RemainderCode)]_vars

-----------------------------------------------------------------------------
(* A routine that has left its code has returned: to where it was called   *)
(* from, with the arguments still on the stack and the result in AC.       *)
Returned(result) ==
  /\ pc = Back /\ sp = WrapAddr(Stack, 1)
  /\ Cell(1) = Left /\ Cell(2) = Right
  /\ ac = result

(* __ex3_mul_u32 multiplies as the C type wraps.                           *)
Multiplies ==
  pc \notin Inside(MultiplyCode) => Returned((Left * Right) % WordSize)

(* __ex3_div_u32 and __ex3_mod_u32 give quotient and remainder, and do not *)
(* return for a divisor of zero.                                           *)
Divides ==
  pc \notin Inside(DivideCode) => Right # 0 /\ Returned(Left \div Right)

TakesRemainder ==
  pc \notin Inside(RemainderCode) => Right # 0 /\ Returned(Left % Right)
=============================================================================
