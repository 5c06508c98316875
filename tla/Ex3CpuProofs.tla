----------------------------- MODULE Ex3CpuProofs ----------------------------
(***************************************************************************)
(* The processor for every word size, program, bus and way to decode an    *)
(* instruction: its registers stay in range, interrupt entry leaves        *)
(* further interrupts disabled, and a program that keeps the ABI is        *)
(* interrupted transparently.  And the run loops, for every breakpoint set *)
(* and limit: a run never exceeds its limit, interrupts neither use it up  *)
(* nor make the run endless, and "StepLimit" is exact.                     *)
(***************************************************************************)
EXTENDS Ex3Interrupts, Debugger, ValueProofs

(* What the decoder hands to execute: operands in range for each format.   *)
LEMMA OperandType ==
  ASSUME NEW i \in Instruction
  PROVE  /\ i.fmt = "memory"    => i.address \in Address
         /\ i.fmt = "immediate" => i.value \in Address
         /\ i.fmt = "sp"        => i.offset \in Address
         /\ i.fmt = "branch"    => i.target \in Address
  BY DEF Instruction

(* The bus an instruction sees is the bus after its tick.                  *)
LEMMA TickedType ==
  ASSUME TypeOK, NEW b \in Ticked
  PROVE  b \in Bus
  BY TickType DEF Ticked, TypeOK

LEMMA CountType ==
  ASSUME TypeOK, Count
  PROVE  executed' \in 0 .. CountSize - 1
  BY CpuAssumption DEF Count, TypeOK

(* What every instruction does before its own effect.                      *)
LEMMA DispatchType ==
  ASSUME TypeOK, NEW f, NEW i, NEW b \in Ticked, Dispatch(f, i, b)
  PROVE  /\ i \in Instruction /\ i.fmt = f
         /\ b \in Bus
         /\ executed' \in 0 .. CountSize - 1
         /\ outcome' \in Outcomes
<1>1. mem[pc] \in Word
  BY DEF TypeOK
<1>2. i \in Instruction
  BY <1>1, CpuAssumption DEF Dispatch
<1> QED BY <1>2, TickedType, CountType DEF Dispatch, Outcomes

LEMMA NextType ==
  ASSUME TypeOK
  PROVE  /\ next \in Address
         /\ \A d \in Int : WrapAddr(sp, d) \in Address /\ WrapAddr(next, d) \in Address
<1>1. next \in Address
  BY WrapAddrType DEF next, TypeOK
<1> QED BY <1>1, WrapAddrType DEF TypeOK

(* A word stored at an address leaves a memory.                            *)
LEMMA StoreType ==
  ASSUME TypeOK, NEW a \in Address, NEW w \in Word
  PROVE  [mem EXCEPT ![a] = w] \in [Address -> Word]
  BY DEF TypeOK

LEMMA AccumulateType ==
  ASSUME TypeOK, NEW op \in AluOps, NEW w \in Word, Accumulate(op, w)
  PROVE  ac' \in Word /\ psr' \in Psr
  BY AluResultType, AluFlagsType DEF Accumulate, TypeOK

LEMMA EffectiveAddressType ==
  ASSUME TypeOK, NEW i \in Instruction, i.fmt = "memory"
  PROVE  /\ EffectiveAddress(i) \in Address
         /\ mem[EffectiveAddress(i)] \in Word
<1>1. i.address \in Address
  BY OperandType
<1>2. Low(mem[i.address]) \in Address
  BY <1>1, HalvesType DEF TypeOK
<1>3. EffectiveAddress(i) \in Address
  BY <1>1, <1>2 DEF EffectiveAddress
<1> QED BY <1>3 DEF TypeOK

-----------------------------------------------------------------------------
(* Each format of instruction leaves the processor well typed.             *)
LEMMA MemoryFormatType ==
  ASSUME TypeOK, NEW i, NEW b \in Ticked,
         MemoryAlu(i, b) \/ StoreMemory(i, b) \/ IncrementSkipZero(i, b)
  PROVE  TypeOK'
<1>0. /\ Dispatch("memory", i, b) /\ i \in Instruction /\ i.fmt = "memory"
      /\ b \in Bus /\ executed' \in 0 .. CountSize - 1 /\ outcome' \in Outcomes
  BY DispatchType DEF MemoryAlu, StoreMemory, IncrementSkipZero
<1>1. CASE MemoryAlu(i, b)
  <2>1. ac' \in Word /\ psr' \in Psr
    BY <1>0, <1>1, EffectiveAddressType, AccumulateType DEF MemoryAlu
  <2> QED BY <1>0, <1>1, <2>1, NextType DEF MemoryAlu, TypeOK, ioVars
<1>2. CASE StoreMemory(i, b)
  <2>1. mem' \in [Address -> Word]
    BY <1>0, <1>2, EffectiveAddressType, StoreType DEF StoreMemory, TypeOK
  <2> QED BY <1>0, <1>2, <2>1, NextType DEF StoreMemory, TypeOK, ioVars
<1>3. CASE IncrementSkipZero(i, b)
  <2> DEFINE ea == EffectiveAddress(i)
             v  == AddWord(mem[ea], 1)
  <2>1. ea \in Address /\ mem[ea] \in Word
    BY <1>0, EffectiveAddressType
  <2>2. v \in Word
    <3>1. 1 \in Word
      BY CpuAssumption, SizeFacts DEF Word
    <3> QED BY <2>1, <3>1, AddWordValue
  <2>3. mem' = [mem EXCEPT ![ea] = v]
    BY <1>3 DEF IncrementSkipZero
  <2> HIDE DEF ea, v
  <2>4. mem' \in [Address -> Word]
    BY <2>1, <2>2, <2>3, StoreType
  <2>5. pc' \in Address
    BY <1>3, NextType DEF IncrementSkipZero
  <2> QED BY <1>0, <1>3, <2>4, <2>5 DEF IncrementSkipZero, TypeOK, ioVars
<1> QED BY <1>1, <1>2, <1>3

LEMMA ImmediateFormatType ==
  ASSUME TypeOK, NEW i, NEW b \in Ticked,
         ImmediateAlu(i, b) \/ LoadHalf(i, b) \/ AdjustSp(i, b)
  PROVE  TypeOK'
<1>0. /\ Dispatch("immediate", i, b) /\ i \in Instruction /\ i.fmt = "immediate"
      /\ b \in Bus /\ executed' \in 0 .. CountSize - 1 /\ outcome' \in Outcomes
  BY DispatchType DEF ImmediateAlu, LoadHalf, AdjustSp
<1>1. i.value \in Address /\ i.value \in Word
  BY <1>0, OperandType, AddressIsWord
<1>2. CASE ImmediateAlu(i, b)
  <2>1. ImmediateOperand(i) \in Word
    BY <1>1, SignExtendedType DEF ImmediateOperand
  <2>2. ac' \in Word /\ psr' \in Psr
    BY <1>2, <2>1, AccumulateType DEF ImmediateAlu
  <2> QED BY <1>0, <1>2, <2>2, NextType DEF ImmediateAlu, TypeOK, ioVars
<1>3. CASE LoadHalf(i, b)
  <2>1. ac' \in Word
    BY <1>1, <1>3, WithHighType, WithLowType DEF LoadHalf, TypeOK
  <2>2. psr' \in Psr
    BY <1>3, <2>1, UpdateNZType DEF LoadHalf, TypeOK
  <2> QED BY <1>0, <1>3, <2>1, <2>2, NextType DEF LoadHalf, TypeOK, ioVars
<1>4. CASE AdjustSp(i, b)
  <2>1. sp' \in Address
    BY <1>1, <1>4, NextType, SignExtendedType DEF AdjustSp
  <2> QED BY <1>0, <1>4, <2>1, NextType DEF AdjustSp, TypeOK, ioVars
<1> QED BY <1>2, <1>3, <1>4

LEMMA SpFormatType ==
  ASSUME TypeOK, NEW i, NEW b \in Ticked, SpAlu(i, b) \/ StoreSp(i, b)
  PROVE  TypeOK'
<1>0. /\ Dispatch("sp", i, b) /\ i \in Instruction /\ i.fmt = "sp"
      /\ b \in Bus /\ executed' \in 0 .. CountSize - 1 /\ outcome' \in Outcomes
  BY DispatchType DEF SpAlu, StoreSp
<1>1. SpAddress(i) \in Address /\ mem[SpAddress(i)] \in Word
  <2>1. i.offset \in Address
    BY <1>0, OperandType
  <2>2. SpAddress(i) \in Address
    BY <2>1, NextType, SignExtendedType DEF SpAddress
  <2> QED BY <2>2 DEF TypeOK
<1>2. CASE SpAlu(i, b)
  <2>1. ac' \in Word /\ psr' \in Psr
    BY <1>1, <1>2, AccumulateType DEF SpAlu
  <2> QED BY <1>0, <1>2, <2>1, NextType DEF SpAlu, TypeOK, ioVars
<1>3. CASE StoreSp(i, b)
  <2>1. mem' \in [Address -> Word]
    BY <1>1, <1>3, StoreType DEF StoreSp, TypeOK
  <2> QED BY <1>0, <1>3, <2>1, NextType DEF StoreSp, TypeOK, ioVars
<1> QED BY <1>2, <1>3

LEMMA BranchFormatType ==
  ASSUME TypeOK, NEW i, NEW b \in Ticked, Branch(i, b) \/ Call(i, b)
  PROVE  TypeOK'
<1>0. /\ Dispatch("branch", i, b) /\ i \in Instruction /\ i.fmt = "branch"
      /\ b \in Bus /\ executed' \in 0 .. CountSize - 1 /\ outcome' \in Outcomes
      /\ i.target \in Address
  BY DispatchType, OperandType DEF Branch, Call
<1>1. CASE Branch(i, b)
  <2>1. pc' \in Address
    BY <1>0, <1>1, NextType DEF Branch
  <2> QED BY <1>0, <1>1, <2>1 DEF Branch, TypeOK, ioVars
<1>2. CASE Call(i, b)
  <2>1. sp' \in Address /\ mem' \in [Address -> Word]
    BY <1>2, NextType, StoreType, AddressIsWord DEF Call
  <2> QED BY <1>0, <1>2, <2>1 DEF Call, TypeOK, ioVars
<1> QED BY <1>1, <1>2

LEMMA ReturnType ==
  ASSUME TypeOK, NEW i, NEW b \in Ticked, Return(i, b) \/ InterruptReturn(i, b)
  PROVE  TypeOK'
<1>0. /\ b \in Bus /\ executed' \in 0 .. CountSize - 1 /\ outcome' \in Outcomes
  BY DispatchType DEF Return, InterruptReturn
<1>1. /\ Low(mem[sp]) \in Address
      /\ UnpackPsr(mem[WrapAddr(sp, 1)]) \in Psr
  <2>1. mem[sp] \in Word /\ mem[WrapAddr(sp, 1)] \in Word
    BY NextType DEF TypeOK
  <2> QED BY <2>1, HalvesType, UnpackPsrType
<1>2. CASE Return(i, b)
  BY <1>0, <1>1, <1>2, NextType DEF Return, PopPc, TypeOK, ioVars
<1>3. CASE InterruptReturn(i, b)
  BY <1>0, <1>1, <1>3, NextType DEF InterruptReturn, PopPc, RestorePsr, TypeOK, ioVars
<1> QED BY <1>2, <1>3

LEMMA RegisterType ==
  ASSUME TypeOK, NEW i, NEW b \in Ticked,
         ClearOrComplement(i, b) \/ Halt(i, b) \/ SetInterruptEnable(i, b)
  PROVE  TypeOK'
<1>0. /\ b \in Bus /\ executed' \in 0 .. CountSize - 1 /\ outcome' \in Outcomes
  BY DispatchType DEF ClearOrComplement, Halt, SetInterruptEnable
<1>1. CASE ClearOrComplement(i, b)
  <2>1. ac' \in Word
    <3>1. 0 \in Word
      BY SizeFacts DEF Word
    <3> QED BY <1>1, <3>1, ComplementType DEF ClearOrComplement, TypeOK
  <2>2. psr' \in Psr
    BY <1>1, <2>1, UpdateNZType DEF ClearOrComplement, TypeOK
  <2> QED BY <1>0, <1>1, <2>1, <2>2, NextType DEF ClearOrComplement, TypeOK, ioVars
<1>2. CASE Halt(i, b)
  BY <1>0, <1>2, NextType DEF Halt, TypeOK, ioVars
<1>3. CASE SetInterruptEnable(i, b)
  <2>1. (i.op = "ION") \in BOOLEAN
    OBVIOUS
  <2>2. psr' \in Psr
    BY <1>3, <2>1 DEF SetInterruptEnable, TypeOK, Psr
  <2> QED BY <1>0, <1>3, <2>2, NextType DEF SetInterruptEnable, TypeOK, ioVars
<1> QED BY <1>1, <1>2, <1>3

LEMMA DeviceType ==
  ASSUME TypeOK, NEW i, NEW b \in Ticked,
         \/ Input(i, b) \/ Output(i, b) \/ SkipIfReady(i, b)
         \/ SelectDevice(i, b) \/ SetMask(i, b)
  PROVE  TypeOK'
<1>0. /\ b \in Bus /\ executed' \in 0 .. CountSize - 1 /\ outcome' \in Outcomes
  BY DispatchType DEF Input, Output, SkipIfReady, SelectDevice, SetMask
<1>1. Selected \in Kind
  BY DEF Selected, Kind
<1>2. CASE Input(i, b)
  <2>1. CASE InputReady(b, Selected)
    <3>1. /\ ReadInput(b, Selected) \in Bus
          /\ Head(b.ready[Selected]) \in Byte
      BY <1>0, <1>1, <2>1, ReadInputType
    <3>2. WithByte(ac, Head(b.ready[Selected])) \in Word
      BY <3>1, WithByteType, CpuAssumption DEF TypeOK
    <3> QED BY <1>0, <1>2, <2>1, <3>1, <3>2, NextType DEF Input, TypeOK
  <2>2. CASE ~ InputReady(b, Selected)
    BY <1>0, <1>2, <2>2, NextType DEF Input, TypeOK
  <2> QED BY <2>1, <2>2
<1>3. CASE Output(i, b)
  <2>1. LowByte(ac) \in Byte
    <3>1. 0 \in 0 .. ByteSize - 1
      BY SizeFacts
    <3> QED BY <3>1, WithByteType, CpuAssumption DEF TypeOK
  <2>2. WriteOutput(b, Selected, LowByte(ac)) \in Bus
    BY <1>0, <1>1, <2>1, WriteOutputType
  <2> QED BY <1>0, <1>3, <2>2, NextType DEF Output, TypeOK, ioVars
<1>4. CASE SkipIfReady(i, b)
  <2>1. pc' \in Address
    BY <1>4, NextType DEF SkipIfReady
  <2> QED BY <1>0, <1>4, <2>1 DEF SkipIfReady, TypeOK, ioVars
<1>5. CASE SelectDevice(i, b)
  <2>1. serialSelected' \in BOOLEAN
    BY <1>5 DEF SelectDevice
  <2> QED BY <1>0, <1>5, <2>1, NextType DEF SelectDevice, TypeOK
<1>6. CASE SetMask(i, b)
  <2>1. mask' \in SUBSET Source
    BY <1>6 DEF SetMask, MaskOf
  <2> QED BY <1>0, <1>6, <2>1, NextType DEF SetMask, TypeOK
<1> QED BY <1>2, <1>3, <1>4, <1>5, <1>6

-----------------------------------------------------------------------------
(* The other two ways a step can go.                                       *)
LEMMA EntryType ==
  ASSUME TypeOK, EnterInterrupt
  PROVE  TypeOK'
<1>1. bus' \in Bus
  BY TickedType DEF EnterInterrupt
<1>2. PackPsr(psr) \in Word
  <2>1. PackPsr(psr) \in 0 .. 31
    BY PsrRoundTrip DEF TypeOK
  <2>2. 0 .. 31 \subseteq Word
    BY CpuAssumption, SizeFacts DEF Word
  <2> QED BY <2>1, <2>2
<1>3. WrapAddr(sp, -1) \in Address /\ WrapAddr(sp, -2) \in Address
  BY NextType
<1>4. pc \in Word
  BY AddressIsWord DEF TypeOK
<1>5. mem' \in [Address -> Word]
  BY <1>2, <1>3, <1>4 DEF EnterInterrupt, PushFrame, TypeOK
<1>6. psr' \in Psr
  BY DEF EnterInterrupt, DisableInterrupts, TypeOK, Psr
<1>7. 0 \in Address
  BY SizeFacts DEF Address
<1> QED
  BY <1>1, <1>3, <1>5, <1>6, <1>7
  DEF EnterInterrupt, PushFrame, DisableInterrupts, TypeOK, ioVars, Outcomes

LEMMA DecodeFailsType ==
  ASSUME TypeOK, DecodeFails
  PROVE  TypeOK'
<1>1. bus' \in Bus /\ executed' \in 0 .. CountSize - 1
  BY TickedType, CountType DEF DecodeFails
<1>2. /\ pc' = next /\ halted' = TRUE /\ outcome' = "decodeError"
      /\ UNCHANGED <<sp, ac, psr, serialSelected, mask, inputRegister, mem>>
  BY DEF DecodeFails, ioVars
<1> QED BY <1>1, <1>2, NextType DEF TypeOK, Outcomes

LEMMA StepType ==
  ASSUME TypeOK, Step
  PROVE  TypeOK'
<1>1. CASE EnterInterrupt
  BY <1>1, EntryType
<1>2. CASE DecodeFails
  BY <1>2, DecodeFailsType
<1>3. CASE ExecuteInstruction
  <2>1. PICK b \in Ticked : Execute(Decode[mem[pc]], b)
    BY <1>3 DEF ExecuteInstruction
  <2> QED
    BY <2>1, MemoryFormatType, ImmediateFormatType, SpFormatType,
       BranchFormatType, ReturnType, RegisterType, DeviceType DEF Execute
<1>4. CASE StepHalted
  BY <1>4 DEF StepHalted, TypeOK, cpuVars, ioVars, Outcomes
<1> QED BY <1>1, <1>2, <1>3, <1>4 DEF Step

LEMMA HostType ==
  ASSUME TypeOK, Host
  PROVE  TypeOK'
<1>1. ASSUME NEW k \in Kind, NEW v \in Byte, PushInput(k, v) PROVE TypeOK'
  <2>1. bus' \in Bus
    BY <1>1, PushPendingType, PushReadyType DEF PushInput, TypeOK
  <2> QED BY <1>1, <2>1 DEF PushInput, TypeOK, cpuVars, ioVars
<1>2. ASSUME NEW f \in BOOLEAN, ForceInterrupt(f) PROVE TypeOK'
  <2>1. bus' \in Bus
    BY <1>2, SetForcedType DEF ForceInterrupt, TypeOK
  <2> QED BY <1>2, <2>1 DEF ForceInterrupt, TypeOK, cpuVars, ioVars
<1>3. CASE Reset
  <2>1. /\ ResetAddress \in Address /\ 0 \in Address /\ 0 \in Word
        /\ ClearPsr \in Psr /\ 0 \in 0 .. CountSize - 1 /\ 0 \in Byte
    BY CpuAssumption, SizeFacts DEF Address, Word, ClearPsr, Psr
  <2> QED BY <1>3, <2>1 DEF Reset, ResetCpu, TypeOK, Outcomes
<1> QED BY <1>1, <1>2, <1>3 DEF Host

LEMMA InitType == Init => TypeOK
<1>1. /\ ResetAddress \in Address /\ 0 \in Address /\ 0 \in Word
      /\ ClearPsr \in Psr /\ 0 \in 0 .. CountSize - 1 /\ 0 \in Byte
      /\ Programs \subseteq [Address -> Word]
  BY CpuAssumption, SizeFacts DEF Address, Word, ClearPsr, Psr
<1> QED BY <1>1, NewBusType DEF Init, TypeOK, Outcomes

(* Every register, the memory and the bus stay in range under every        *)
(* sequence of steps, interrupts, host inputs and resets (Cpu::step).      *)
THEOREM TypeCorrect == Spec => []TypeOK
<1>1. TypeOK /\ [Next]_vars => TypeOK'
  <2>1. CASE UNCHANGED vars
    BY <2>1 DEF vars, cpuVars, ioVars, TypeOK
  <2> QED BY <2>1, StepType, HostType DEF Next
<1> QED BY <1>1, InitType, PTL DEF Spec

-----------------------------------------------------------------------------
(* Interrupt entry saves the PSR with IEN set and clears IEN; only an      *)
(* instruction, which changes the outcome, can set it again.               *)
LEMMA StepEntryDisables ==
  ASSUME TypeOK, EntryDisables, Step
  PROVE  EntryDisables'
<1>1. CASE EnterInterrupt
  BY <1>1 DEF EnterInterrupt, DisableInterrupts, EntryDisables, TypeOK, Psr
<1>2. CASE DecodeFails
  BY <1>2 DEF DecodeFails, EntryDisables
<1>3. CASE ExecuteInstruction
  <2>1. outcome' = "executed"
    BY <1>3 DEF ExecuteInstruction, Execute, Dispatch, MemoryAlu, StoreMemory,
       IncrementSkipZero, ImmediateAlu, LoadHalf, AdjustSp, SpAlu, StoreSp,
       Branch, Call, Return, InterruptReturn, ClearOrComplement, Halt, Input,
       Output, SkipIfReady, SetInterruptEnable, SelectDevice, SetMask
  <2> QED BY <2>1 DEF EntryDisables
<1>4. CASE StepHalted
  BY <1>4 DEF StepHalted, EntryDisables
<1> QED BY <1>1, <1>2, <1>3, <1>4 DEF Step

LEMMA HostEntryDisables ==
  ASSUME EntryDisables, Host
  PROVE  EntryDisables'
  BY DEF Host, PushInput, ForceInterrupt, Reset, cpuVars, EntryDisables

(* After an interrupt entry and before the next instruction no further     *)
(* interrupt can be taken, whatever sources stay asserted.                 *)
THEOREM EntryDisablesCorrect == Spec => []EntryDisables
<1>1. Init => EntryDisables
  BY DEF Init, EntryDisables
<1>2. TypeOK /\ EntryDisables /\ [Next]_vars => EntryDisables'
  <2>1. CASE UNCHANGED vars
    BY <2>1 DEF vars, cpuVars, EntryDisables
  <2> QED BY <2>1, StepEntryDisables, HostEntryDisables DEF Next
<1> QED BY <1>1, <1>2, TypeCorrect, PTL DEF Spec

-----------------------------------------------------------------------------
(* Programs under interrupts (Ex3Interrupts).                              *)

(* A suspended computation found room for its entry frame, and its stack   *)
(* is all that is above its SP.                                            *)
Contexts == [pc : Address, sp : Address, ac : Word, psr : Psr, device : BOOLEAN,
             mask : SUBSET Source, stack : UNION {[LiveStack(p) -> Word] : p \in Address}]

Rooted(c) ==
  /\ DOMAIN c.stack = LiveStack(c.sp)
  /\ StackDepth(WrapAddr(c.sp, -1)) = StackDepth(c.sp) + 1
  /\ StackDepth(WrapAddr(c.sp, -2)) = StackDepth(c.sp) + 2

(* Memory m still holds what c needs to go on.                             *)
Holds(m, c) ==
  /\ m[WrapAddr(c.sp, -1)] = PackPsr(c.psr)
  /\ m[WrapAddr(c.sp, -2)] = c.pc
  /\ \A a \in DOMAIN c.stack : m[a] = c.stack[a]

(* The suspended computations lie above one another and above what runs.   *)
Nested(s) ==
  \A j, k \in DOMAIN s : j < k => StackDepth(s[j].sp) + 2 <= StackDepth(s[k].sp)

SuspendedInv ==
  /\ TypeOK /\ EntryDisables
  /\ suspended \in Seq(Contexts)
  /\ \A n \in DOMAIN suspended : Rooted(suspended[n]) /\ Holds(mem, suspended[n])
  /\ Nested(suspended)
  /\ Reserved <= StackDepth(sp)

LEMMA DepthType ==
  ASSUME NEW p \in Address
  PROVE  /\ StackDepth(p) \in 0 .. HalfSize - 1
         /\ p = 0 => StackDepth(p) = 0
         /\ p # 0 => StackDepth(p) = HalfSize - p
<1>1. HalfSize \in Nat /\ HalfSize > 4 /\ p \in 0 .. HalfSize - 1
  BY SizeFacts, SizeAssumption DEF Address
<1> QED BY <1>1 DEF StackDepth

(* The stack above p are the words down to p's depth.                      *)
LEMMA LiveDepth ==
  ASSUME NEW p \in Address
  PROVE  LiveStack(p) = {a \in Address : StackDepth(a) \in 1 .. StackDepth(p)}
<1>1. HalfSize \in Nat /\ HalfSize > 4 /\ p \in 0 .. HalfSize - 1
  BY SizeFacts, SizeAssumption DEF Address
<1>2. CASE p = 0
  BY <1>2, DepthType DEF LiveStack
<1>3. CASE p # 0
  <2>1. StackDepth(p) = HalfSize - p
    BY <1>3, DepthType
  <2>2. ASSUME NEW a \in Address
        PROVE  a \in p .. HalfSize - 1 <=> StackDepth(a) \in 1 .. HalfSize - p
    <3>1. a \in 0 .. HalfSize - 1
      BY DEF Address
    <3>2. CASE a = 0
      BY <1>1, <1>3, <3>2, DepthType
    <3>3. CASE a # 0
      <4>1. StackDepth(a) = HalfSize - a
        BY <3>3, DepthType
      <4> QED BY <1>1, <3>1, <3>3, <4>1
    <3> QED BY <3>2, <3>3
  <2>3. p .. HalfSize - 1 \subseteq Address
    BY <1>1 DEF Address
  <2> QED BY <1>3, <2>1, <2>2, <2>3 DEF LiveStack
<1> QED BY <1>2, <1>3

(* A push that leaves the stack deeper did not wrap around.                *)
LEMMA PushDepth ==
  ASSUME NEW p \in Address, NEW n \in {1, 2},
         StackDepth(p) < StackDepth(WrapAddr(p, -n))
  PROVE  /\ StackDepth(WrapAddr(p, -n)) = StackDepth(p) + n
         /\ StackDepth(WrapAddr(p, -1)) = StackDepth(p) + 1
<1>1. HalfSize \in Nat /\ HalfSize > 4 /\ p \in 0 .. HalfSize - 1
  BY SizeFacts, SizeAssumption DEF Address
<1>2. /\ p >= 2 => WrapAddr(p, -2) = p - 2
      /\ p >= 1 => WrapAddr(p, -1) = p - 1
      /\ p = 1 => WrapAddr(p, -2) = HalfSize - 1
      /\ p = 0 => WrapAddr(p, -2) = HalfSize - 2 /\ WrapAddr(p, -1) = HalfSize - 1
  BY <1>1 DEF WrapAddr
<1>3. \A a \in 0 .. HalfSize - 1 : StackDepth(a) = IF a = 0 THEN 0 ELSE HalfSize - a
  BY DepthType DEF Address
<1>4. CASE p = 0
  BY <1>1, <1>2, <1>3, <1>4
<1>5. CASE p = 1
  BY <1>1, <1>2, <1>3, <1>5
<1>6. CASE p >= 2
  <2>1. p - 2 \in 0 .. HalfSize - 1 /\ p - 1 \in 0 .. HalfSize - 1
    BY <1>1, <1>6
  <2> QED BY <1>1, <1>2, <1>3, <1>6, <2>1
<1> QED BY <1>1, <1>4, <1>5, <1>6

(* What a computation needs lies within the depth of its frame.            *)
LEMMA HoldsAfter ==
  ASSUME NEW c \in Contexts, Rooted(c), NEW m, NEW n, Holds(m, c),
         \A a \in Address : StackDepth(a) \in 1 .. StackDepth(c.sp) + 2 => n[a] = m[a]
  PROVE  Holds(n, c)
<1>1. c.sp \in Address /\ StackDepth(c.sp) \in Nat
  BY DepthType, SizeFacts DEF Contexts
<1>2. WrapAddr(c.sp, -1) \in Address /\ WrapAddr(c.sp, -2) \in Address
  BY <1>1, WrapAddrType
<1>3. \A a \in DOMAIN c.stack :
        a \in Address /\ StackDepth(a) \in 1 .. StackDepth(c.sp)
  BY <1>1, LiveDepth DEF Rooted
<1>4. n[WrapAddr(c.sp, -1)] = m[WrapAddr(c.sp, -1)]
      /\ n[WrapAddr(c.sp, -2)] = m[WrapAddr(c.sp, -2)]
  BY <1>1, <1>2 DEF Rooted
<1>5. \A a \in DOMAIN c.stack : n[a] = m[a]
  BY <1>1, <1>3
<1> QED BY <1>4, <1>5 DEF Holds

-----------------------------------------------------------------------------
(* The steps.  What a processor does that neither suspends nor resumes.    *)
LEMMA ReservedType ==
  ASSUME suspended \in Seq(Contexts)
  PROVE  /\ Reserved \in Nat
         /\ suspended # << >> => Top \in Contexts /\ Len(suspended) \in DOMAIN suspended
         /\ \A n \in DOMAIN suspended :
              suspended[n] \in Contexts /\ StackDepth(suspended[n].sp) \in Nat
<1>1. \A c \in Contexts : StackDepth(c.sp) \in Nat
  BY DepthType, SizeFacts DEF Contexts
<1>2. \A n \in DOMAIN suspended : suspended[n] \in Contexts
  OBVIOUS
<1>3. suspended # << >> => Len(suspended) \in DOMAIN suspended
  OBVIOUS
<1> QED BY <1>1, <1>2, <1>3 DEF Reserved, Top

(* Every suspended computation lies within what is reserved.               *)
LEMMA WithinReserved ==
  ASSUME suspended \in Seq(Contexts), Nested(suspended), NEW n \in DOMAIN suspended
  PROVE  StackDepth(suspended[n].sp) + 2 <= Reserved
<1>1. /\ suspended # << >> /\ n \in 1 .. Len(suspended) /\ Len(suspended) \in Nat
      /\ DOMAIN suspended = 1 .. Len(suspended)
  OBVIOUS
<1>2. Reserved = StackDepth(suspended[Len(suspended)].sp) + 2
  BY <1>1 DEF Reserved, Top
<1>3. StackDepth(suspended[Len(suspended)].sp) \in Nat /\ StackDepth(suspended[n].sp) \in Nat
  BY <1>1, ReservedType
<1>4. CASE n = Len(suspended)
  BY <1>2, <1>3, <1>4
<1>5. CASE n # Len(suspended)
  <2>1. n < Len(suspended) /\ Len(suspended) \in DOMAIN suspended
    BY <1>1, <1>5
  <2>2. StackDepth(suspended[n].sp) + 2 <= StackDepth(suspended[Len(suspended)].sp)
    BY <2>1 DEF Nested
  <2> QED BY <1>2, <1>3, <2>2
<1> QED BY <1>4, <1>5

LEMMA Undisturbed ==
  ASSUME SuspendedInv, TypeOK', EntryDisables', UNCHANGED suspended,
         Reserved <= StackDepth(sp'),
         \A a \in Address : StackDepth(a) \in 1 .. Reserved => mem'[a] = mem[a]
  PROVE  SuspendedInv'
<1>1. Reserved' = Reserved
  BY DEF Reserved, Top
<1>2. ASSUME NEW n \in DOMAIN suspended
      PROVE  Rooted(suspended[n]) /\ Holds(mem', suspended[n])
  <2> DEFINE c == suspended[n]
  <2>1. c \in Contexts /\ StackDepth(c.sp) \in Nat /\ Reserved \in Nat
    BY ReservedType DEF SuspendedInv
  <2>2. StackDepth(c.sp) + 2 <= Reserved
    BY WithinReserved DEF SuspendedInv
  <2>3. Rooted(c) /\ Holds(mem, c)
    BY DEF SuspendedInv
  <2> HIDE DEF c
  <2>4. \A a \in Address : StackDepth(a) \in 1 .. StackDepth(c.sp) + 2 => mem'[a] = mem[a]
    <3>1. 1 .. StackDepth(c.sp) + 2 \subseteq 1 .. Reserved
      BY <2>1, <2>2
    <3> QED BY <3>1
  <2>5. Holds(mem', c)
    BY <2>1, <2>3, <2>4, HoldsAfter
  <2> QED BY <2>3, <2>5 DEF c
<1> QED BY <1>1, <1>2 DEF SuspendedInv

LEMMA EntrySuspends ==
  ASSUME SuspendedInv, TypeOK', EntryDisables', Suspend,
         StackDepth(sp) < StackDepth(sp')
  PROVE  SuspendedInv'
<1> DEFINE c == Context
           s == suspended
<1>1. /\ sp' = WrapAddr(sp, -2)
      /\ mem' = [mem EXCEPT ![WrapAddr(sp, -1)] = PackPsr(psr), ![WrapAddr(sp, -2)] = pc]
      /\ suspended' = Append(s, c)
  BY DEF Suspend, EnterInterrupt, PushFrame
<1>2. /\ sp \in Address /\ mem \in [Address -> Word]
      /\ s \in Seq(Contexts)
  BY DEF SuspendedInv, TypeOK
<1>3. /\ StackDepth(WrapAddr(sp, -2)) = StackDepth(sp) + 2
      /\ StackDepth(WrapAddr(sp, -1)) = StackDepth(sp) + 1
  BY <1>1, <1>2, PushDepth
<1>4. /\ WrapAddr(sp, -1) \in Address /\ WrapAddr(sp, -2) \in Address
      /\ StackDepth(sp) \in Nat
  <2>1. -1 \in Int /\ -2 \in Int
    OBVIOUS
  <2>2. WrapAddr(sp, -1) \in Address /\ WrapAddr(sp, -2) \in Address
    BY <1>2, <2>1, WrapAddrType
  <2>3. StackDepth(sp) \in Nat
    BY <1>2, DepthType, SizeFacts
  <2> QED BY <2>2, <2>3
<1>5. LiveStack(sp) \subseteq Address
  BY <1>2, LiveDepth
<1>6. c \in Contexts /\ Rooted(c) /\ c.sp = sp /\ c.psr = psr /\ c.pc = pc
      /\ c.stack = [a \in LiveStack(sp) |-> mem[a]]
  <2>1. [a \in LiveStack(sp) |-> mem[a]] \in [LiveStack(sp) -> Word]
    BY <1>2, <1>5
  <2>2. c = [pc |-> pc, sp |-> sp, ac |-> ac, psr |-> psr, device |-> serialSelected,
             mask |-> mask, stack |-> [a \in LiveStack(sp) |-> mem[a]]]
    BY DEF Context
  <2>3. c \in Contexts
    BY <2>1, <2>2, <1>2 DEF Contexts, SuspendedInv, TypeOK
  <2> HIDE DEF c
  <2>4. /\ c.sp = sp /\ c.psr = psr /\ c.pc = pc
        /\ c.stack = [a \in LiveStack(sp) |-> mem[a]]
    BY <2>2
  <2> QED BY <2>3, <2>4, <1>3 DEF Rooted
<1> HIDE DEF c, s
<1>7. \A a \in Address : StackDepth(a) <= StackDepth(sp) => mem'[a] = mem[a]
  <2>1. ASSUME NEW a \in Address, StackDepth(a) <= StackDepth(sp)
        PROVE  a # WrapAddr(sp, -1) /\ a # WrapAddr(sp, -2)
    BY <1>3, <1>4, <2>1
  <2> QED BY <1>1, <1>2, <2>1
<1>8. Holds(mem', c)
  <2>1. WrapAddr(sp, -1) # WrapAddr(sp, -2)
    BY <1>3, <1>4
  <2>2. mem'[WrapAddr(sp, -1)] = PackPsr(psr) /\ mem'[WrapAddr(sp, -2)] = pc
    BY <1>1, <1>2, <1>4, <2>1
  <2>3. ASSUME NEW a \in LiveStack(sp) PROVE mem'[a] = mem[a]
    <3>1. a \in Address /\ StackDepth(a) \in 1 .. StackDepth(sp)
      BY <1>2, LiveDepth
    <3> QED BY <1>4, <1>7, <3>1
  <2> QED BY <1>6, <2>2, <2>3 DEF Holds
<1>9. Reserved \in Nat /\ Reserved <= StackDepth(sp)
  BY <1>2, ReservedType DEF SuspendedInv, s
<1>10. ASSUME NEW n \in DOMAIN s
       PROVE  /\ s[n] \in Contexts /\ Rooted(s[n]) /\ Holds(mem', s[n])
              /\ StackDepth(s[n].sp) + 2 <= StackDepth(sp)
              /\ StackDepth(s[n].sp) \in Nat
  <2> DEFINE d == s[n]
  <2>1. d \in Contexts /\ StackDepth(d.sp) \in Nat /\ StackDepth(d.sp) + 2 <= Reserved
    BY ReservedType, WithinReserved DEF SuspendedInv, s
  <2>2. Rooted(d) /\ Holds(mem, d)
    BY DEF SuspendedInv, s
  <2> HIDE DEF d
  <2>3. StackDepth(d.sp) + 2 <= StackDepth(sp)
    BY <1>4, <1>9, <2>1
  <2>4. \A a \in Address : StackDepth(a) \in 1 .. StackDepth(d.sp) + 2 => mem'[a] = mem[a]
    <3>1. ASSUME NEW a \in Address, StackDepth(a) \in 1 .. StackDepth(d.sp) + 2
          PROVE  StackDepth(a) <= StackDepth(sp)
      BY <1>4, <2>1, <2>3, <3>1
    <3> QED BY <1>7, <3>1
  <2>5. Holds(mem', d)
    BY <2>1, <2>2, <2>4, HoldsAfter
  <2> QED BY <2>1, <2>2, <2>3, <2>5 DEF d
<1> DEFINE t == Append(s, c)
<1>11. /\ t \in Seq(Contexts) /\ Len(t) = Len(s) + 1 /\ DOMAIN t = 1 .. Len(s) + 1
       /\ t[Len(s) + 1] = c /\ Len(s) \in Nat /\ DOMAIN s = 1 .. Len(s)
       /\ \A n \in DOMAIN s : t[n] = s[n]
  BY <1>2, <1>6
<1> HIDE DEF t
<1>12. \A n \in DOMAIN t : Rooted(t[n]) /\ Holds(mem', t[n])
  BY <1>6, <1>8, <1>10, <1>11
<1>13. Nested(t)
  <2>1. ASSUME NEW j \in DOMAIN t, NEW k \in DOMAIN t, j < k
        PROVE  StackDepth(t[j].sp) + 2 <= StackDepth(t[k].sp)
    <3>1. j \in DOMAIN s
      BY <1>11, <2>1
    <3>2. CASE k \in DOMAIN s
      BY <1>11, <2>1, <3>1, <3>2 DEF SuspendedInv, Nested, s
    <3>3. CASE k \notin DOMAIN s
      <4>1. k = Len(s) + 1
        BY <1>11, <3>3
      <4> QED BY <1>6, <1>10, <1>11, <3>1, <4>1
    <3> QED BY <3>2, <3>3
  <2> QED BY <2>1 DEF Nested
<1>14. Reserved' = StackDepth(sp) + 2
  <2>1. suspended' = t /\ t # << >> /\ t[Len(t)] = c
    BY <1>1, <1>11 DEF t
  <2> QED BY <1>6, <2>1 DEF Reserved, Top
<1>15. Reserved' <= StackDepth(sp')
  BY <1>1, <1>3, <1>4, <1>14
<1>16. suspended' = t
  BY <1>1 DEF t
<1> QED BY <1>11, <1>12, <1>13, <1>15, <1>16 DEF SuspendedInv

(* IRET takes back what the entry pushed.                                  *)
LEMMA PushPop ==
  ASSUME NEW p \in Address
  PROVE  /\ WrapAddr(WrapAddr(p, -2), 2) = p
         /\ WrapAddr(WrapAddr(p, -2), 1) = WrapAddr(p, -1)
<1>1. p \in Int /\ -2 \in Int
  BY SizeFacts DEF Address
<1>2. WrapAddr(WrapAddr(p, -2), 2) = WrapAddr(p, -2 + 2)
  BY <1>1, WrapTwice
<1>3. WrapAddr(WrapAddr(p, -2), 1) = WrapAddr(p, -2 + 1)
  BY <1>1, WrapTwice
<1>4. -2 + 2 = 0 /\ -2 + 1 = -1
  OBVIOUS
<1>5. WrapAddr(p, 0) = p
  BY SizeFacts DEF WrapAddr, Address
<1> QED BY <1>2, <1>3, <1>4, <1>5

LEMMA ReturnResumes ==
  ASSUME SuspendedInv, TypeOK', EntryDisables', Resume
  PROVE  (sp = WrapAddr(Top.sp, -2)) => SuspendedInv'
<1> SUFFICES ASSUME sp = WrapAddr(Top.sp, -2) PROVE SuspendedInv'
  OBVIOUS
<1> DEFINE s == suspended
           t == SubSeq(s, 1, Len(s) - 1)
<1>1. /\ s # << >> /\ suspended' = t
      /\ sp' = WrapAddr(sp, 2) /\ mem' = mem
  BY DEF Resume, InterruptReturn
<1>2. s \in Seq(Contexts)
  BY DEF SuspendedInv
<1>3. /\ t \in Seq(Contexts) /\ Len(t) = Len(s) - 1 /\ DOMAIN t = 1 .. Len(s) - 1
      /\ Len(s) \in Nat \ {0} /\ DOMAIN s = 1 .. Len(s)
      /\ \A n \in DOMAIN t : t[n] = s[n] /\ n \in DOMAIN s
  <2>1. /\ Len(s) \in Nat \ {0} /\ DOMAIN s = 1 .. Len(s)
        /\ \A n \in 1 .. Len(s) - 1 : n \in DOMAIN s /\ s[n] \in Contexts
    BY <1>1, <1>2
  <2> HIDE DEF s
  <2>2. /\ t \in Seq(Contexts)
        /\ Len(t) = IF 1 <= Len(s) - 1 THEN Len(s) - 1 - 1 + 1 ELSE 0
        /\ \A n \in 1 .. Len(s) - 1 - 1 + 1 : t[n] = s[1 + n - 1]
    BY <2>1, SubSeqProperties
  <2> HIDE DEF t
  <2>3. Len(t) = Len(s) - 1
    <3> DEFINE l == Len(s)
    <3>1. l \in Nat \ {0} /\ Len(t) = IF 1 <= l - 1 THEN l - 1 - 1 + 1 ELSE 0
      BY <2>1, <2>2
    <3> HIDE DEF l
    <3>2. Len(t) = l - 1
      BY <3>1
    <3> QED BY <3>2 DEF l
  <2>4. DOMAIN t = 1 .. Len(t)
    BY <2>2
  <2>5. \A n \in 1 .. Len(s) - 1 : t[n] = s[n]
    <3>1. \A n \in 1 .. Len(s) - 1 : n \in 1 .. Len(s) - 1 - 1 + 1 /\ 1 + n - 1 = n
      BY <2>1
    <3> QED BY <2>2, <3>1
  <2>6. DOMAIN t = 1 .. Len(s) - 1
    BY <2>3, <2>4
  <2>7. t \in Seq(Contexts)
    BY <2>2
  <2> QED BY <2>1, <2>3, <2>5, <2>6, <2>7
<1>4. sp' = Top.sp
  <2>1. Top.sp \in Address
    BY <1>1, <1>2, ReservedType DEF Contexts
  <2> QED BY <1>1, <2>1, PushPop
<1> HIDE DEF t
<1>5. \A n \in DOMAIN t : Rooted(t[n]) /\ Holds(mem', t[n])
  BY <1>1, <1>3 DEF SuspendedInv
<1>6. Nested(t)
  BY <1>3 DEF SuspendedInv, Nested
<1>7. Reserved' <= StackDepth(sp')
  <2>1. CASE t = << >>
    <3>1. Reserved' = 0
      BY <1>1, <2>1 DEF Reserved
    <3>2. StackDepth(sp') \in Nat
      BY DepthType, SizeFacts DEF TypeOK
    <3> QED BY <3>1, <3>2
  <2>2. CASE t # << >>
    <3>1. Len(t) \in DOMAIN t /\ Len(t) < Len(s) /\ Len(s) \in DOMAIN s
      BY <1>3, <2>2
    <3>2. Reserved' = StackDepth(s[Len(t)].sp) + 2
      BY <1>1, <1>3, <2>2, <3>1 DEF Reserved, Top
    <3>3. StackDepth(s[Len(t)].sp) + 2 <= StackDepth(s[Len(s)].sp)
      BY <1>3, <3>1 DEF SuspendedInv, Nested
    <3> QED BY <1>4, <3>2, <3>3 DEF Top
  <2> QED BY <2>1, <2>2
<1> QED BY <1>1, <1>3, <1>5, <1>6, <1>7 DEF SuspendedInv

LEMMA ContinueKeeps ==
  ASSUME SuspendedInv, TypeOK', EntryDisables', UNCHANGED suspended, KeepsAbi
  PROVE  SuspendedInv'
<1>1. Reserved <= StackDepth(sp') /\ \A a \in Untouched : mem'[a] = mem[a]
  BY DEF KeepsAbi
<1>2. \A a \in Address : StackDepth(a) \in 1 .. Reserved => a \in Untouched
  <2>1. CASE suspended = << >>
    BY <2>1 DEF Reserved
  <2>2. CASE suspended # << >>
    <3> DEFINE p == WrapAddr(Top.sp, -2)
    <3>1. Top.sp \in Address /\ Rooted(Top)
      BY <2>2, ReservedType DEF SuspendedInv, Contexts, Top
    <3>2. -2 \in Int
      OBVIOUS
    <3>3. p \in Address /\ StackDepth(p) = Reserved
      BY <2>2, <3>1, <3>2, WrapAddrType DEF Rooted, Reserved
    <3>4. Untouched = LiveStack(p)
      BY <2>2 DEF Untouched
    <3> HIDE DEF p
    <3> QED BY <3>3, <3>4, LiveDepth
  <2> QED BY <2>1, <2>2
<1> QED BY <1>1, <1>2, Undisturbed

(* Each step of a program under interrupts is a step of the processor.     *)
LEMMA StepOfCpu ==
  ASSUME INext
  PROVE  Next
<1>1. CASE Suspend
  BY <1>1 DEF Suspend, Next, Step
<1>2. CASE Resume
  BY <1>2 DEF Resume, Next, Step, ExecuteInstruction, Execute
<1>3. CASE Continue
  BY <1>3 DEF Continue, Next, Step, ExecuteInstruction
<1>4. CASE IEnvironment
  BY <1>4 DEF IEnvironment, Next, Host
<1>5. CASE IClear
  BY <1>5 DEF IClear, Next, Host
<1>6. CASE IReset
  BY <1>6 DEF IReset, Next, Host
<1> QED BY <1>1, <1>2, <1>3, <1>4, <1>5, <1>6 DEF INext, IStep

LEMMA CpuKeeps ==
  ASSUME TypeOK, EntryDisables, [INext]_ivars
  PROVE  TypeOK' /\ EntryDisables'
<1>1. CASE INext
  BY <1>1, StepOfCpu, StepType, HostType, StepEntryDisables, HostEntryDisables DEF Next
<1>2. CASE UNCHANGED ivars
  BY <1>2 DEF ivars, vars, cpuVars, ioVars, TypeOK, EntryDisables
<1> QED BY <1>1, <1>2

LEMMA SuspendedInvInit ==
  ASSUME IInit
  PROVE  SuspendedInv
<1>1. TypeOK /\ EntryDisables
  BY InitType DEF IInit, Init, EntryDisables
<1>2. suspended = << >> /\ Reserved = 0
  BY DEF IInit, Reserved
<1>3. StackDepth(sp) \in Nat
  BY <1>1, DepthType, SizeFacts DEF TypeOK
<1>4. DOMAIN suspended = {} /\ suspended \in Seq(Contexts)
  BY <1>2
<1> QED BY <1>1, <1>2, <1>3, <1>4 DEF SuspendedInv, Nested

LEMMA SuspendedInvNext ==
  ASSUME SuspendedInv, [INext]_ivars, [KeepsAbi]_ivars
  PROVE  SuspendedInv'
<1>1. TypeOK' /\ EntryDisables'
  BY CpuKeeps DEF SuspendedInv
<1>2. ASSUME UNCHANGED <<sp, mem, suspended>> PROVE SuspendedInv'
  BY <1>1, <1>2, Undisturbed DEF SuspendedInv
<1>3. CASE UNCHANGED ivars
  BY <1>2, <1>3 DEF ivars, vars, cpuVars
<1>4. CASE INext /\ KeepsAbi
  <2>1. CASE Suspend
    <3>1. suspended' = Append(suspended, Context) /\ suspended \in Seq(Contexts)
      BY <2>1 DEF Suspend, SuspendedInv
    <3>2. Len(suspended') > Len(suspended)
      BY <3>1
    <3> QED BY <1>1, <1>4, <2>1, <3>2, EntrySuspends DEF KeepsAbi
  <2>2. CASE Resume
    BY <1>1, <1>4, <2>2, ReturnResumes DEF KeepsAbi
  <2>3. CASE Continue
    BY <1>1, <1>4, <2>3, ContinueKeeps DEF Continue
  <2>4. CASE IEnvironment \/ IClear
    BY <1>2, <2>4 DEF IEnvironment, IClear, PushInput, ForceInterrupt, cpuVars
  <2>5. CASE IReset
    <3>1. suspended' = << >> /\ Reserved' = 0
      BY <2>5 DEF IReset, Reserved
    <3>2. StackDepth(sp') \in Nat
      BY <1>1, DepthType, SizeFacts DEF TypeOK
    <3>3. (DOMAIN suspended)' = {} /\ suspended' \in Seq(Contexts)
      BY <3>1
    <3> QED BY <1>1, <3>1, <3>2, <3>3 DEF SuspendedInv, Nested
  <2> QED BY <1>4, <2>1, <2>2, <2>3, <2>4, <2>5 DEF INext, IStep
<1> QED BY <1>3, <1>4

(* A program that keeps the ABI is interrupted transparently: SuspendedInv *)
(* holds however deep its handlers nest.                                   *)
LEMMA SuspendedInvariant == ISpec /\ AbiKept => []SuspendedInv
<1>1. SuspendedInv /\ [INext]_ivars /\ [KeepsAbi]_ivars => SuspendedInv'
  BY SuspendedInvNext
<1>2. IInit => SuspendedInv
  BY SuspendedInvInit
<1> QED BY <1>1, <1>2, PTL DEF ISpec, AbiKept

(* Whatever a program and its handlers do within the ABI, every suspended  *)
(* computation finds its frame and its stack untouched, for every size of  *)
(* memory and every depth of nesting (ABI 18).                             *)
THEOREM FramesIntactAlways == ISpec /\ AbiKept => []FramesIntact
<1>1. SuspendedInv => FramesIntact
  <2>1. ASSUME SuspendedInv, NEW n \in 1 .. Len(suspended)
        PROVE  Holds(mem, suspended[n])
    BY <2>1 DEF SuspendedInv
  <2> QED BY <2>1 DEF FramesIntact, Holds
<1> QED BY <1>1, SuspendedInvariant, PTL

(* The IRET of a handler that keeps the ABI hands back what the entry      *)
(* found: PC, SP, flags and IEN from the two words of the frame, and the   *)
(* rest because nothing else moved (ABI 18, 19).                           *)
THEOREM TransparentAlways == ISpec /\ AbiKept => Transparent
<1> DEFINE Back == LET c == Top
                   IN  /\ pc' = c.pc /\ sp' = c.sp /\ ac' = c.ac /\ psr' = c.psr
                       /\ serialSelected' = c.device /\ mask' = c.mask
                       /\ \A a \in DOMAIN c.stack : mem'[a] = c.stack[a]
<1>1. ASSUME SuspendedInv, KeepsAbi, Resume PROVE Back
  <2> DEFINE c == Top
  <2>1. /\ sp = WrapAddr(c.sp, -2)
        /\ ac = c.ac /\ serialSelected = c.device /\ mask = c.mask
    BY <1>1 DEF KeepsAbi
  <2>2. c \in Contexts /\ Holds(mem, c)
    BY <1>1, ReservedType DEF Resume, SuspendedInv, Top
  <2>3. PICK b \in Ticked : InterruptReturn(Decode[mem[pc]], b)
    BY <1>1 DEF Resume
  <2>4. /\ pc' = Low(mem[sp]) /\ psr' = UnpackPsr(mem[WrapAddr(sp, 1)])
        /\ sp' = WrapAddr(sp, 2) /\ mem' = mem /\ ac' = ac
        /\ serialSelected' = serialSelected /\ mask' = mask
    BY <2>3 DEF InterruptReturn, PopPc, RestorePsr, ioVars
  <2>5. c.sp \in Address /\ c.pc \in Address /\ c.psr \in Psr
    BY <2>2 DEF Contexts
  <2> HIDE DEF c
  <2>6. WrapAddr(sp, 1) = WrapAddr(c.sp, -1) /\ WrapAddr(sp, 2) = c.sp
    BY <2>1, <2>5, PushPop
  <2>7. pc' = c.pc
    <3>1. Low(c.pc) = c.pc
      BY <2>5, SizeFacts DEF Low, Address
    <3> QED BY <2>1, <2>2, <2>4, <3>1 DEF Holds
  <2>8. psr' = c.psr
    BY <2>2, <2>4, <2>5, <2>6, PsrRoundTrip DEF Holds
  <2>9. \A a \in DOMAIN c.stack : mem'[a] = c.stack[a]
    BY <2>2, <2>4 DEF Holds
  <2> QED BY <2>1, <2>4, <2>6, <2>7, <2>8, <2>9 DEF c
<1>2. SuspendedInv /\ [INext]_ivars /\ [KeepsAbi]_ivars => [Resume => Back]_ivars
  BY <1>1
<1> QED BY <1>2, SuspendedInvariant, PTL DEF ISpec, AbiKept, Transparent

(* Of any program: an entry is not followed by another before the handler  *)
(* has executed an instruction, whatever sources stay asserted.            *)
THEOREM NoReentryAlways == ISpec => NoReentry
<1> DEFINE Ready == TypeOK /\ EntryDisables
<1>1. Ready /\ [INext]_ivars => Ready'
  BY CpuKeeps
<1>2. IInit => Ready
  BY SuspendedInvInit DEF SuspendedInv
<1>3. ASSUME Ready, Suspend PROVE outcome # "interrupted"
  <2>1. psr.ien
    BY <1>3 DEF Suspend, EnterInterrupt, InterruptPending
  <2> QED BY <1>3, <2>1 DEF EntryDisables
<1>4. Ready /\ [INext]_ivars => [Suspend => outcome # "interrupted"]_ivars
  BY <1>3
<1> HIDE DEF Ready
<1> QED BY <1>1, <1>2, <1>4, PTL DEF ISpec, NoReentry

-----------------------------------------------------------------------------
(* The run loops (Debugger).                                               *)

(* The loop's own count is the number of fetches, and every call of step   *)
(* beyond two per fetch is an interrupt entry that just happened.          *)
Budget ==
  ~ Idle => /\ run.steps = history.fetches
            /\ run.steps <= run.max
            /\ history.calls <= 2 * history.fetches
                                + (IF outcome = "interrupted" THEN 1 ELSE 0)

RunInv == RunTypeOK /\ EntryDisables /\ Budget /\ LimitExact

-----------------------------------------------------------------------------
(* A step of a running processor is an interrupt entry, which is not       *)
(* counted, or counts one instruction.                                     *)
LEMMA StepCounts ==
  ASSUME Step, ~ halted
  PROVE  \/ outcome' = "interrupted" /\ psr.ien /\ executed' = executed
         \/ outcome' \in {"executed", "decodeError"} /\ Count
<1>1. CASE EnterInterrupt
  BY <1>1 DEF EnterInterrupt, InterruptPending
<1>2. CASE DecodeFails
  BY <1>2 DEF DecodeFails
<1>3. CASE ExecuteInstruction
  BY <1>3 DEF ExecuteInstruction, Execute, Dispatch, MemoryAlu, StoreMemory,
     IncrementSkipZero, ImmediateAlu, LoadHalf, AdjustSp, SpAlu, StoreSp,
     Branch, Call, Return, InterruptReturn, ClearOrComplement, Halt, Input,
     Output, SkipIfReady, SetInterruptEnable, SelectDevice, SetMask
<1>4. CASE StepHalted
  BY <1>4 DEF StepHalted
<1> QED BY <1>1, <1>2, <1>3, <1>4 DEF Step

(* What the loop finds by comparing executed_instructions, although that   *)
(* counter wraps.                                                          *)
LEMMA CountedValue ==
  ASSUME TypeOK, Step, ~ halted
  PROVE  Counted = IF outcome' = "interrupted" THEN 0 ELSE 1
<1>1. CountSize \in Nat /\ CountSize > 1 /\ executed \in 0 .. CountSize - 1
  BY CpuAssumption, DebuggerAssumption DEF TypeOK
<1>2. CASE outcome' = "interrupted" /\ executed' = executed
  <2>1. 0 % CountSize = 0
    BY <1>1
  <2> QED BY <1>1, <1>2, <2>1 DEF Counted
<1>3. CASE outcome' \in {"executed", "decodeError"} /\ Count
  <2>1. executed' = IF executed + 1 = CountSize THEN 0 ELSE executed + 1
    BY <1>1, <1>3 DEF Count
  <2>2. 1 % CountSize = 1 /\ (1 - CountSize) % CountSize = 1
    BY <1>1
  <2>3. executed' - executed \in {1, 1 - CountSize}
    BY <1>1, <2>1
  <2> QED BY <1>3, <2>2, <2>3 DEF Counted
<1> QED BY <1>2, <1>3, StepCounts

-----------------------------------------------------------------------------
LEMMA RunInvInit == RInit => RunInv
  BY InitType DEF RInit, RunInv, RunTypeOK, Budget, LimitExact, Idle, Runners,
     Stops, EntryDisables, Init

(* One iteration of a loop.                                                *)
LEMMA IterateInv ==
  ASSUME RunInv, Iterate
  PROVE  RunInv'
<1>0. /\ TypeOK /\ EntryDisables /\ Step /\ ~ halted /\ run.by # "nobody"
      /\ run \in [by : Runners, max : Nat, steps : Nat]
      /\ history \in [calls : Nat, fetches : Nat]
      /\ run.steps < run.max
      /\ breakpoints' = breakpoints /\ breakpoints \in SUBSET Address
      /\ stop \in Stops
  BY DEF RunInv, RunTypeOK, Iterate, Idle
<1> DEFINE fetched == IF outcome' = "interrupted" THEN 0 ELSE 1
<1>1. TypeOK' /\ EntryDisables'
  BY <1>0, StepType, StepEntryDisables
<1>2. /\ history' = [calls |-> history.calls + 1,
                     fetches |-> history.fetches + fetched]
      /\ history' \in [calls : Nat, fetches : Nat]
  BY <1>0 DEF Iterate
<1>3. CASE outcome' = "decodeError"
  <2>1. stop' = "Error" /\ run' = [run EXCEPT !.by = "nobody"]
    BY <1>3 DEF Iterate, Leave
  <2> QED BY <1>0, <1>1, <1>2, <2>1
          DEF RunInv, RunTypeOK, Runners, Stops, Budget, Idle, LimitExact
<1>4. CASE outcome' # "decodeError"
  <2>1. stop' = stop /\ run' = [run EXCEPT !.steps = @ + fetched]
    BY <1>0, <1>4, CountedValue DEF Iterate
  <2>2. RunTypeOK'
    BY <1>0, <1>1, <1>2, <2>1 DEF RunTypeOK
  <2>3. Budget'
    <3>1. /\ run.steps = history.fetches
          /\ history.calls <= 2 * history.fetches
                              + (IF outcome = "interrupted" THEN 1 ELSE 0)
      BY <1>0 DEF RunInv, Budget, Idle
    <3>2. CASE outcome' = "interrupted"
      <4>1. outcome # "interrupted"
        BY <1>0, <3>2, StepCounts DEF EntryDisables
      <4> QED BY <1>0, <1>2, <2>1, <3>1, <3>2, <4>1 DEF Budget
    <3>3. CASE outcome' # "interrupted"
      BY <1>0, <1>2, <2>1, <3>1, <3>3 DEF Budget
    <3> QED BY <3>2, <3>3
  <2>4. LimitExact'
    <3>1. stop # "StepLimit"
      BY <1>0 DEF RunInv, LimitExact, Budget, Idle
    <3> QED BY <2>1, <3>1 DEF LimitExact
  <2> QED BY <1>1, <2>2, <2>3, <2>4 DEF RunInv
<1> QED BY <1>3, <1>4

(* The iterations that return without a step.                              *)
LEMMA LeaveInv ==
  ASSUME RunInv, StopHalted \/ StopAtBreakpoint \/ StopAtLimit
  PROVE  RunInv'
<1>0. /\ RunTypeOK /\ EntryDisables /\ run.by # "nobody"
      /\ run \in [by : Runners, max : Nat, steps : Nat]
      /\ run.steps = history.fetches /\ run.steps <= run.max
  BY DEF RunInv, RunTypeOK, Budget, Idle, StopHalted, StopAtBreakpoint, StopAtLimit
<1>1. /\ UNCHANGED <<vars, breakpoints, history>>
      /\ run' = [run EXCEPT !.by = "nobody"]
      /\ stop' \in Stops
      /\ stop' = "StepLimit" => run.steps >= run.max
  BY DEF StopHalted, StopAtBreakpoint, StopAtLimit, LeaveBefore, Leave, Stops
<1>2. TypeOK' /\ EntryDisables'
  BY <1>0, <1>1 DEF RunTypeOK, TypeOK, EntryDisables, vars, cpuVars, ioVars
<1>3. /\ run'.by = "nobody" /\ run'.max = run.max
      /\ run' \in [by : Runners, max : Nat, steps : Nat]
  BY <1>0, <1>1 DEF Runners
<1>4. RunTypeOK'
  BY <1>0, <1>1, <1>2, <1>3 DEF RunTypeOK
<1>5. Budget'
  BY <1>3 DEF Budget, Idle
<1>6. LimitExact'
  BY <1>0, <1>1, <1>3 DEF LimitExact
<1> QED BY <1>2, <1>4, <1>5, <1>6 DEF RunInv

LEMMA CallRunInv ==
  ASSUME RunInv, NEW by \in Runners \ {"nobody"}, NEW max \in Limits,
         CallRun(by, max)
  PROVE  RunInv'
<1>0. max \in Nat
  BY DebuggerAssumption
<1>1. /\ UNCHANGED <<vars, breakpoints>>
      /\ run' = [by |-> by, max |-> max, steps |-> 0]
      /\ history' = [calls |-> 0, fetches |-> 0]
      /\ stop' = "none"
  BY DEF CallRun
<1>2. TypeOK' /\ EntryDisables'
  BY <1>1 DEF RunInv, RunTypeOK, TypeOK, EntryDisables, vars, cpuVars, ioVars
<1>3. RunTypeOK'
  BY <1>0, <1>1, <1>2 DEF RunInv, RunTypeOK, Runners, Stops
<1>4. Budget'
  BY <1>0, <1>1 DEF Budget
<1>5. LimitExact'
  BY <1>1 DEF LimitExact
<1> QED BY <1>2, <1>3, <1>4, <1>5 DEF RunInv

(* What the host does between two runs, and stuttering.                    *)
LEMMA IdleInv ==
  ASSUME RunInv,
         EditBreakpoints \/ SingleStep \/ HostActs \/ UNCHANGED rvars
  PROVE  RunInv'
<1>1. UNCHANGED <<run, stop, history>>
  BY DEF EditBreakpoints, SingleStep, HostActs, rvars
<1>2. TypeOK' /\ EntryDisables'
  <2>1. CASE EditBreakpoints \/ UNCHANGED rvars
    BY <2>1 DEF EditBreakpoints, RunInv, RunTypeOK, TypeOK, EntryDisables,
       rvars, vars, cpuVars, ioVars
  <2>2. CASE SingleStep
    BY <2>2, StepType, StepEntryDisables DEF SingleStep, RunInv, RunTypeOK
  <2>3. CASE HostActs
    BY <2>3, HostType, HostEntryDisables DEF HostActs, RunInv, RunTypeOK
  <2> QED BY <2>1, <2>2, <2>3
<1>3. breakpoints' \in SUBSET Address
  <2>1. CASE EditBreakpoints
    BY <2>1, DebuggerAssumption DEF EditBreakpoints, ToggleBreakpoint,
       AddBreakpoint, RemoveBreakpoint, RunInv, RunTypeOK
  <2>2. CASE SingleStep \/ HostActs \/ UNCHANGED rvars
    BY <2>2 DEF SingleStep, HostActs, rvars, RunInv, RunTypeOK
  <2> QED BY <2>1, <2>2
<1>4. RunTypeOK'
  BY <1>1, <1>2, <1>3 DEF RunInv, RunTypeOK
<1>5. Budget'
  <2>1. CASE Idle
    BY <1>1, <2>1 DEF Budget, Idle
  <2>2. CASE ~ Idle
    <3>1. UNCHANGED rvars
      BY <2>2 DEF EditBreakpoints, SingleStep, HostActs
    <3> QED BY <3>1 DEF RunInv, Budget, Idle, rvars, vars
  <2> QED BY <2>1, <2>2
<1>6. LimitExact'
  BY <1>1 DEF RunInv, LimitExact
<1> QED BY <1>2, <1>4, <1>5, <1>6 DEF RunInv

LEMMA RunInvCorrect == RSpec => []RunInv
<1>1. RunInv /\ [RNext]_rvars => RunInv'
  BY IterateInv, LeaveInv, CallRunInv, IdleInv DEF RNext, Loop, CallLoop
<1> QED BY <1>1, RunInvInit, PTL DEF RSpec

-----------------------------------------------------------------------------
(* The debugger's own state and the processor's stay in range.             *)
THEOREM RunTypeCorrect == RSpec => []RunTypeOK
<1>1. RunInv => RunTypeOK
  BY DEF RunInv
<1> QED BY <1>1, RunInvCorrect, PTL

(* A run fetches at most max_steps instructions and calls step at most     *)
(* twice per instruction and once more (Debugger::run, Cpu::run).          *)
THEOREM RunBoundedCorrect == RSpec => []RunBounded
<1>1. RunInv => RunBounded
  BY DEF RunInv, RunTypeOK, Budget, RunBounded
<1> QED BY <1>1, RunInvCorrect, PTL

(* "StepLimit" means that exactly max_steps instructions were fetched.     *)
THEOREM LimitExactCorrect == RSpec => []LimitExact
<1>1. RunInv => LimitExact
  BY DEF RunInv
<1> QED BY <1>1, RunInvCorrect, PTL
=============================================================================
