------------------------------- MODULE Ex3Cpu --------------------------------
(***************************************************************************)
(* The EX3 processor of emulator.rs: registers, unified memory, interrupt  *)
(* entry and the instruction set, on top of a peripheral bus.              *)
(*                                                                         *)
(* One call of Cpu::step is one action of Step: the bus ticks, then either *)
(* a pending interrupt is entered or one instruction is fetched, decoded   *)
(* and executed.  Between two calls the host may push input, raise or      *)
(* clear the forced interrupt and reset the processor.                     *)
(*                                                                         *)
(* Decode is the instruction a word stands for.  CpuState.ir and           *)
(* CpuState.interrupt_pending are left out: the first repeats the word     *)
(* last fetched, the second is FALSE whenever step returns.                *)
(***************************************************************************)
EXTENDS Isa, IoBus

CONSTANTS
  Decode,          \* [Word -> Instruction \cup {Illegal}]
  Programs,        \* the memory images a host may load
  CountSize,       \* 2^64: executed_instructions wraps
  Legacy,          \* TRUE over LegacyIoBus, FALSE over DeterministicIoBus
  MaxInput         \* bound: bytes waiting in a device's input queues

ASSUME CpuAssumption ==
  /\ Illegal \notin Instruction
  /\ Decode \in [Word -> Instruction \cup {Illegal}]
  /\ Programs \subseteq [Address -> Word]
  /\ ResetAddress \in Address
  /\ CountSize \in Nat \ {0}
  /\ Byte = 0 .. ByteSize - 1
  /\ MaxInput \in Nat
  /\ Legacy \in BOOLEAN
  /\ WordSize >= 32                      \* room for the packed PSR

VARIABLES
  pc, sp, ac, psr, halted, executed,     \* CpuState
  serialSelected, mask, inputRegister,   \* IoState
  mem,                                   \* ArrayMemory
  bus,                                   \* the peripheral bus
  outcome                                \* what the last step returned

cpuVars == <<pc, sp, ac, psr, halted, executed>>
ioVars  == <<serialSelected, mask, inputRegister>>
vars    == <<cpuVars, ioVars, mem, bus, outcome>>

Outcomes == {"none", "executed", "interrupted", "halted", "decodeError"}

TypeOK ==
  /\ pc \in Address /\ sp \in Address /\ ac \in Word
  /\ psr \in Psr
  /\ halted \in BOOLEAN
  /\ executed \in 0 .. CountSize - 1
  /\ serialSelected \in BOOLEAN
  /\ mask \in SUBSET Source
  /\ inputRegister \in Byte
  /\ mem \in [Address -> Word]
  /\ bus \in Bus
  /\ outcome \in Outcomes

ResetCpu ==
  /\ pc' = ResetAddress /\ sp' = 0 /\ ac' = 0 /\ psr' = ClearPsr
  /\ halted' = FALSE /\ executed' = 0
  /\ serialSelected' = FALSE /\ mask' = {} /\ inputRegister' = 0

Init ==
  /\ pc = ResetAddress /\ sp = 0 /\ ac = 0 /\ psr = ClearPsr
  /\ halted = FALSE /\ executed = 0
  /\ serialSelected = FALSE /\ mask = {} /\ inputRegister = 0
  /\ mem \in Programs
  /\ bus = NewBus
  /\ outcome = "none"

-----------------------------------------------------------------------------
(* Cpu::step up to the dispatch.  b is the bus after its tick.             *)

Ticked == Tick(bus, psr.ien, mask)

InterruptPending(b) == psr.ien /\ (SourcePending(b, mask) \/ b.forced)

(* Mutant: a stack pointer that points at the next free word.              *)
PushFramePostDecrement ==
  /\ sp' = WrapAddr(sp, -2)
  /\ mem' = [mem EXCEPT ![sp] = PackPsr(psr), ![WrapAddr(sp, -1)] = pc]

(* push(PSR); push(PC).                                                    *)
PushFrame ==
  /\ sp' = WrapAddr(sp, -2)
  /\ mem' = [mem EXCEPT ![WrapAddr(sp, -1)] = PackPsr(psr),
                        ![WrapAddr(sp, -2)] = pc]

(* Mutant: IEN is left to the handler.                                     *)
LeaveEnabled == UNCHANGED psr

DisableInterrupts == psr' = [psr EXCEPT !.ien = FALSE]

(* The frame is pushed, IEN cleared and PC set to 0.  No instruction is    *)
(* counted.                                                                *)
EnterInterrupt ==
  /\ ~ halted
  /\ \E b \in Ticked :
       /\ InterruptPending(b)
       /\ bus' = b
  /\ PushFrame
  /\ DisableInterrupts
  /\ pc' = 0
  /\ outcome' = "interrupted"
  /\ UNCHANGED <<ac, halted, executed, ioVars>>

(* The word at PC is read and counted; "next" is PC after the fetch.       *)
Fetched(b) == ~ halted /\ ~ InterruptPending(b)

next == WrapAddr(pc, 1)

Count == executed' = (executed + 1) % CountSize

DecodeFails ==
  /\ \E b \in Ticked : Fetched(b) /\ bus' = b
  /\ Decode[mem[pc]] = Illegal
  /\ halted' = TRUE
  /\ pc' = next
  /\ Count
  /\ outcome' = "decodeError"
  /\ UNCHANGED <<sp, ac, psr, ioVars, mem>>

(* An instruction i of format f is executed; the bus it sees is b.         *)
Dispatch(f, i, b) ==
  /\ Fetched(b)
  /\ i = Decode[mem[pc]]
  /\ i # Illegal
  /\ i.fmt = f
  /\ Count
  /\ outcome' = "executed"

(* The accumulator and the flags after an operation shared by all formats. *)
Accumulate(op, operand) ==
  /\ ac' = IF op = "CMP" THEN ac ELSE AluResult(op, ac, operand)
  /\ psr' = AluFlags(op, psr, ac, operand)

-----------------------------------------------------------------------------
(* Memory format: the operand is the word at the effective address.        *)

EffectiveAddress(i) ==
  IF i.indirect THEN Low(mem[i.address]) ELSE i.address

MemoryAlu(i, b) ==
  /\ Dispatch("memory", i, b)
  /\ i.op \in AluOps
  /\ Accumulate(i.op, mem[EffectiveAddress(i)])
  /\ pc' = next /\ bus' = b
  /\ UNCHANGED <<sp, halted, ioVars, mem>>

StoreMemory(i, b) ==
  /\ Dispatch("memory", i, b)
  /\ i.op = "ST"
  /\ mem' = [mem EXCEPT ![EffectiveAddress(i)] = ac]
  /\ pc' = next /\ bus' = b
  /\ UNCHANGED <<sp, ac, psr, halted, ioVars>>

IncrementSkipZero(i, b) ==
  /\ Dispatch("memory", i, b)
  /\ i.op = "ISZ"
  /\ LET ea == EffectiveAddress(i)
         v  == AddWord(mem[ea], 1)
     IN  /\ mem' = [mem EXCEPT ![ea] = v]
         /\ pc' = IF v = 0 THEN WrapAddr(next, 1) ELSE next
  /\ bus' = b
  /\ UNCHANGED <<sp, ac, psr, halted, ioVars>>

-----------------------------------------------------------------------------
(* Immediate format: arithmetic sign-extends the value, logic does not.    *)

ImmediateOperand(i) ==
  IF i.op \in {"AND", "OR", "XOR"} THEN i.value ELSE SignExtended(i.value)

ImmediateAlu(i, b) ==
  /\ Dispatch("immediate", i, b)
  /\ i.op \in AluOps
  /\ Accumulate(i.op, ImmediateOperand(i))
  /\ pc' = next /\ bus' = b
  /\ UNCHANGED <<sp, halted, ioVars, mem>>

LoadHalf(i, b) ==
  /\ Dispatch("immediate", i, b)
  /\ i.op \in {"LDHI", "LDLO"}
  /\ ac' = IF i.op = "LDHI" THEN WithHigh(ac, i.value) ELSE WithLow(ac, i.value)
  /\ psr' = UpdateNZ(psr, ac')
  /\ pc' = next /\ bus' = b
  /\ UNCHANGED <<sp, halted, ioVars, mem>>

AdjustSp(i, b) ==
  /\ Dispatch("immediate", i, b)
  /\ i.op = "ADJSP"
  /\ sp' = WrapAddr(sp, SignedHalf(i.value))
  /\ pc' = next /\ bus' = b
  /\ UNCHANGED <<ac, psr, halted, ioVars, mem>>

-----------------------------------------------------------------------------
(* SP-relative format.                                                     *)

SpAddress(i) == WrapAddr(sp, SignedHalf(i.offset))

SpAlu(i, b) ==
  /\ Dispatch("sp", i, b)
  /\ i.op \in AluOps
  /\ Accumulate(i.op, mem[SpAddress(i)])
  /\ pc' = next /\ bus' = b
  /\ UNCHANGED <<sp, halted, ioVars, mem>>

StoreSp(i, b) ==
  /\ Dispatch("sp", i, b)
  /\ i.op = "ST"
  /\ mem' = [mem EXCEPT ![SpAddress(i)] = ac]
  /\ pc' = next /\ bus' = b
  /\ UNCHANGED <<sp, ac, psr, halted, ioVars>>

-----------------------------------------------------------------------------
(* Branches and calls, and the two returns.                                *)

Branch(i, b) ==
  /\ Dispatch("branch", i, b)
  /\ i.op # "CALL"
  /\ pc' = IF Taken(i.op, psr) THEN i.target ELSE next
  /\ bus' = b
  /\ UNCHANGED <<sp, ac, psr, halted, ioVars, mem>>

Call(i, b) ==
  /\ Dispatch("branch", i, b)
  /\ i.op = "CALL"
  /\ sp' = WrapAddr(sp, -1)
  /\ mem' = [mem EXCEPT ![WrapAddr(sp, -1)] = next]
  /\ pc' = i.target
  /\ bus' = b
  /\ UNCHANGED <<ac, psr, halted, ioVars>>

(* Mutant: the pushed PC is dropped.                                       *)
DropPc == pc' = next

PopPc == pc' = Low(mem[sp])

(* Mutant: IRET only enables interrupts again.                             *)
EnableAgain == psr' = [psr EXCEPT !.ien = TRUE]

RestorePsr == psr' = UnpackPsr(mem[WrapAddr(sp, 1)])

Return(i, b) ==
  /\ Dispatch("system", i, b)
  /\ i.op = "RET"
  /\ PopPc
  /\ sp' = WrapAddr(sp, 1)
  /\ bus' = b
  /\ UNCHANGED <<ac, psr, halted, ioVars, mem>>

InterruptReturn(i, b) ==
  /\ Dispatch("system", i, b)
  /\ i.op = "IRET"
  /\ PopPc
  /\ RestorePsr
  /\ sp' = WrapAddr(sp, 2)
  /\ bus' = b
  /\ UNCHANGED <<ac, halted, ioVars, mem>>

-----------------------------------------------------------------------------
(* The other system operations.                                            *)

ClearOrComplement(i, b) ==
  /\ Dispatch("system", i, b)
  /\ i.op \in {"CLA", "CMA"}
  /\ ac' = IF i.op = "CLA" THEN 0 ELSE Complement(ac)
  /\ psr' = UpdateNZ(psr, ac')
  /\ pc' = next /\ bus' = b
  /\ UNCHANGED <<sp, halted, ioVars, mem>>

Halt(i, b) ==
  /\ Dispatch("system", i, b)
  /\ i.op = "HLT"
  /\ halted' = TRUE
  /\ pc' = next /\ bus' = b
  /\ UNCHANGED <<sp, ac, psr, ioVars, mem>>

Selected == IF serialSelected THEN "serial" ELSE "parallel"

(* INP takes a ready byte and leaves everything alone when there is none.  *)
Input(i, b) ==
  /\ Dispatch("system", i, b)
  /\ i.op = "INP"
  /\ IF InputReady(b, Selected)
     THEN /\ inputRegister' = Head(b.ready[Selected])
          /\ ac' = WithByte(ac, Head(b.ready[Selected]))
          /\ bus' = ReadInput(b, Selected)
     ELSE bus' = b /\ UNCHANGED <<inputRegister, ac>>
  /\ pc' = next
  /\ UNCHANGED <<sp, psr, halted, serialSelected, mask, mem>>

Output(i, b) ==
  /\ Dispatch("system", i, b)
  /\ i.op = "OUT"
  /\ bus' = WriteOutput(b, Selected, LowByte(ac))
  /\ pc' = next
  /\ UNCHANGED <<sp, ac, psr, halted, ioVars, mem>>

SkipIfReady(i, b) ==
  /\ Dispatch("system", i, b)
  /\ i.op \in {"SKI", "SKO"}
  /\ LET ready == IF i.op = "SKI" THEN InputReady(b, Selected)
                                  ELSE OutputReady(b, Selected)
     IN  pc' = IF ready THEN WrapAddr(next, 1) ELSE next
  /\ bus' = b
  /\ UNCHANGED <<sp, ac, psr, halted, ioVars, mem>>

SetInterruptEnable(i, b) ==
  /\ Dispatch("system", i, b)
  /\ i.op \in {"ION", "IOF"}
  /\ psr' = [psr EXCEPT !.ien = (i.op = "ION")]
  /\ pc' = next /\ bus' = b
  /\ UNCHANGED <<sp, ac, halted, ioVars, mem>>

SelectDevice(i, b) ==
  /\ Dispatch("system", i, b)
  /\ i.op \in {"SIO", "PIO"}
  /\ serialSelected' = (i.op = "SIO")
  /\ pc' = next /\ bus' = b
  /\ UNCHANGED <<sp, ac, psr, halted, mask, inputRegister, mem>>

MaskOf(w) ==
  {s \in Source : HasBit(w, CASE s = "serialIn"   -> 8 [] s = "serialOut"   -> 4
                              [] s = "parallelIn" -> 2 [] s = "parallelOut" -> 1)}

SetMask(i, b) ==
  /\ Dispatch("system", i, b)
  /\ i.op = "IMK"
  /\ mask' = MaskOf(ac)
  /\ pc' = next /\ bus' = b
  /\ UNCHANGED <<sp, ac, psr, halted, serialSelected, inputRegister, mem>>

-----------------------------------------------------------------------------
Execute(i, b) ==
  \/ MemoryAlu(i, b) \/ StoreMemory(i, b) \/ IncrementSkipZero(i, b)
  \/ ImmediateAlu(i, b) \/ LoadHalf(i, b) \/ AdjustSp(i, b)
  \/ SpAlu(i, b) \/ StoreSp(i, b)
  \/ Branch(i, b) \/ Call(i, b) \/ Return(i, b) \/ InterruptReturn(i, b)
  \/ ClearOrComplement(i, b) \/ Halt(i, b)
  \/ Input(i, b) \/ Output(i, b) \/ SkipIfReady(i, b)
  \/ SetInterruptEnable(i, b) \/ SelectDevice(i, b) \/ SetMask(i, b)

ExecuteInstruction ==
  \E b \in Ticked : Execute(Decode[mem[pc]], b)

(* A halted processor answers Halted and changes nothing.                  *)
StepHalted ==
  /\ halted
  /\ outcome' = "halted"
  /\ UNCHANGED <<cpuVars, ioVars, mem, bus>>

Step == EnterInterrupt \/ DecodeFails \/ ExecuteInstruction \/ StepHalted

(* The host, between two steps.                                            *)
PushInput(k, v) ==
  /\ Len(bus.ready[k]) + Len(bus.pending[k]) < MaxInput
  /\ bus' = IF Legacy THEN PushPending(bus, k, v) ELSE PushReady(bus, k, v)
  /\ UNCHANGED <<cpuVars, ioVars, mem, outcome>>

ForceInterrupt(f) ==
  /\ ~ Legacy
  /\ bus' = SetForced(bus, f)
  /\ UNCHANGED <<cpuVars, ioVars, mem, outcome>>

Reset ==
  /\ ResetCpu
  /\ outcome' = "none"
  /\ UNCHANGED <<mem, bus>>

Host ==
  \/ \E k \in Kind, v \in Byte : PushInput(k, v)
  \/ \E f \in BOOLEAN : ForceInterrupt(f)
  \/ Reset

Next == Step \/ Host

Spec == Init /\ [][Next]_vars

-----------------------------------------------------------------------------
(* While a handler has been entered and nothing else has been executed,    *)
(* further interrupts are off: the lemma behind "interrupt entries never   *)
(* follow one another" (step clears IEN after saving the PSR).             *)
EntryDisables == outcome = "interrupted" => ~ psr.ien

(* ISA 22.1: an interrupt is accepted only while at least one interrupt    *)
(* source that the mask enables is pending.                                *)
EnabledSourceOnly == [][EnterInterrupt => SourcePending(bus', mask)]_vars
=============================================================================
