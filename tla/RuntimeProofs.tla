---------------------------- MODULE RuntimeProofs -----------------------------
(***************************************************************************)
(* The unsigned routines of the runtime library compute what the operators *)
(* of C mean, for every word size, every place, stack and return address,  *)
(* all arguments and every bus and host: what they return is right whenever *)
(* they return.                                                            *)
(***************************************************************************)
EXTENDS RuntimeCall, Ex3CpuProofs

(* What fits does not wrap.                                                *)
LEMMA SmallRemainder ==
  ASSUME NEW m \in Nat \ {0}, NEW x \in 0 .. m - 1
  PROVE  x % m = x
  OBVIOUS

-----------------------------------------------------------------------------
(* The machine while a routine runs.                                       *)

(* Where the routine lies, and with which arguments it was called.         *)
Placed(code) ==
  /\ Len(code) \in 22 .. 33 /\ DOMAIN code = 1 .. Len(code)
  /\ Entry \in Address /\ Stack \in Address /\ Left \in Word /\ Right \in Word
  /\ Entry + Len(code) <= HalfSize
  /\ \A n \in 1 .. 4 : WrapAddr(Stack, -n) \notin Inside(code)
  /\ Back \notin Inside(code)

LEMMA PlacedFacts ==
  ASSUME NEW code, Placed(code)
  PROVE  /\ HalfSize \in Nat \ {0} /\ HalfSize >= 22
         /\ Entry \in Nat /\ Stack \in Nat /\ Entry < HalfSize /\ Stack < HalfSize
         /\ Len(code) \in 22 .. 33 /\ Entry + Len(code) <= HalfSize
<1>1. HalfSize \in Nat \ {0}
  BY SizeFacts
<1>2. Entry \in 0 .. HalfSize - 1 /\ Stack \in 0 .. HalfSize - 1
  BY DEF Placed, Address
<1> DEFINE len == Len(code)
<1>3. len \in 22 .. 33 /\ Entry + len <= HalfSize
  BY DEF Placed
<1> HIDE DEF len
<1>4. Entry \in Nat /\ Stack \in Nat /\ Entry < HalfSize /\ Stack < HalfSize
  BY <1>1, <1>2
<1>5. HalfSize >= 22
  BY <1>1, <1>3, <1>4
<1> QED BY <1>1, <1>3, <1>4, <1>5 DEF len

(* The frame of depth words is on the stack, under the call's.             *)
Framed(code, depth) ==
  /\ TypeOK /\ ~ halted /\ ~ psr.ien
  /\ sp = WrapAddr(Stack, 0 - depth)
  /\ Held(code)
  /\ Low(Cell(0)) = Back /\ Cell(1) = Left /\ Cell(2) = Right

(* The instruction k after the first is next.                              *)
Reached(code, depth, k) == pc = Entry + k /\ Framed(code, depth)

(* With interrupts off, a step executes the instruction at PC.             *)
LEMMA StepExecutes ==
  ASSUME TypeOK, ~ halted, ~ psr.ien, Step,
         NEW i \in Instruction, Decode[mem[pc]] = i
  PROVE  \E b \in Ticked : Execute(i, b)
<1>1. i # Illegal
  BY CpuAssumption
<1>2. ~ EnterInterrupt
  BY DEF EnterInterrupt, InterruptPending
<1> QED BY <1>1, <1>2 DEF Step, DecodeFails, ExecuteInstruction, StepHalted

(* Which action an instruction of the routines is.                         *)
LEMMA ExecuteCases ==
  ASSUME NEW i, NEW b, Execute(i, b)
  PROVE  /\ i.fmt = "sp" /\ i.op \in AluOps => SpAlu(i, b)
         /\ i.fmt = "sp" /\ i.op = "ST" => StoreSp(i, b)
         /\ i.fmt = "immediate" /\ i.op \in AluOps => ImmediateAlu(i, b)
         /\ i.fmt = "immediate" /\ i.op = "ADJSP" => AdjustSp(i, b)
         /\ i.fmt = "branch" /\ i.op # "CALL" => Branch(i, b)
         /\ i.fmt = "system" /\ i.op = "RET" => Return(i, b)
         /\ i.fmt = "system" /\ i.op = "CLA" => ClearOrComplement(i, b)
  BY
  DEF Execute, Dispatch, MemoryAlu, StoreMemory, IncrementSkipZero, ImmediateAlu,
         LoadHalf, AdjustSp, SpAlu, StoreSp, Branch, Call, Return, InterruptReturn,
         ClearOrComplement, Halt, Input, Output, SkipIfReady, SetInterruptEnable,
         SelectDevice, SetMask, AluOps

(* The accumulator's operations leave IEN alone.                           *)
LEMMA AluFlagsIen ==
  ASSUME NEW op \in AluOps, NEW p \in Psr, NEW a \in Word, NEW b \in Word
  PROVE  AluFlags(op, p, a, b).ien = p.ien
  BY DEF AluFlags, AddFlags, SubtractionFlags, UpdateNZ, Psr, AluOps

(* The words around the return address are apart from one another.         *)
LEMMA CellsApart ==
  ASSUME NEW code, Placed(code), NEW a \in -4 .. 2, NEW b \in -4 .. 2,
         WrapAddr(Stack, a) = WrapAddr(Stack, b)
  PROVE  a = b
<1> DEFINE x == (Stack + a) \div HalfSize
           y == (Stack + b) \div HalfSize
           r == (Stack + a) % HalfSize
           s == (Stack + b) % HalfSize
<1>1. HalfSize \in Nat \ {0} /\ HalfSize >= 22 /\ Stack \in Int
  BY PlacedFacts
<1>2. Stack + a = HalfSize * x + r /\ Stack + b = HalfSize * y + s
  BY <1>1
<1>3. x \in Int /\ y \in Int /\ r \in Int /\ s \in Int
  BY <1>1
<1>4. r = s
  BY DEF WrapAddr
<1> HIDE DEF x, y, r, s
<1>5. HalfSize * (x - y) = a - b
  BY <1>1, <1>2, <1>3, <1>4
<1>6. x - y = 0
  <2>1. HalfSize * (x - y) < HalfSize /\ - HalfSize < HalfSize * (x - y)
    BY <1>1, <1>5
  <2> QED BY <1>1, <1>3, <2>1, NoMultiple
<1> QED BY <1>1, <1>5, <1>6

LEMMA CellType ==
  ASSUME TypeOK, NEW code, Placed(code), NEW n \in Int
  PROVE  WrapAddr(Stack, n) \in Address /\ Cell(n) \in Word
<1>1. WrapAddr(Stack, n) \in Address
  BY WrapAddrType DEF Placed
<1> QED BY <1>1 DEF TypeOK, Cell

LEMMA Fetches ==
  ASSUME NEW code, Placed(code), NEW depth \in 0 .. 4,
         NEW k \in 0 .. Len(code) - 1, Reached(code, depth, k)
  PROVE  /\ Decode[mem[pc]] = code[k + 1]
         /\ k + 1 < Len(code) => next = Entry + (k + 1)
<1>1. k + 1 \in DOMAIN code
  BY PlacedFacts DEF Placed
<1>2. Decode[mem[Entry + (k + 1) - 1]] = code[k + 1]
  BY <1>1 DEF Reached, Framed, Held
<1>3. Entry + (k + 1) - 1 = Entry + k
  BY PlacedFacts
<1>4. ASSUME k + 1 < Len(code) PROVE next = Entry + (k + 1)
  <2>1. Entry + (k + 1) \in 0 .. HalfSize - 1
    BY <1>4, PlacedFacts
  <2>2. pc + 1 = Entry + (k + 1)
    BY PlacedFacts DEF Reached
  <2>3. (Entry + (k + 1)) % HalfSize = Entry + (k + 1)
    BY <2>1, PlacedFacts, SmallRemainder
  <2> QED BY <2>2, <2>3 DEF next, WrapAddr
<1> QED BY <1>2, <1>3, <1>4 DEF Reached

(* A word of the frame, as an instruction addresses it.                    *)
LEMMA StackOperand ==
  ASSUME NEW code, Placed(code), NEW depth \in 0 .. 4, Framed(code, depth),
         NEW op \in SpOps, NEW j \in 0 .. 6
  PROVE  /\ OnStack(op, j) \in Instruction
         /\ SpAddress(OnStack(op, j)) = WrapAddr(Stack, j - depth)
<1>1. j \in Address
  BY PlacedFacts DEF Address
<1>2. SignedHalf(j) = j
  BY PlacedFacts DEF SignedHalf
<1>3. WrapAddr(sp, j) = WrapAddr(Stack, j - depth)
  <2>1. WrapAddr(WrapAddr(Stack, 0 - depth), j) = WrapAddr(Stack, (0 - depth) + j)
    <3>1. Stack \in Int /\ 0 - depth \in Int /\ j \in Int
      BY PlacedFacts
    <3> QED BY <3>1, WrapTwice
  <2>2. (0 - depth) + j = j - depth
    OBVIOUS
  <2> QED BY <2>1, <2>2 DEF Framed
<1> QED BY <1>1, <1>2, <1>3 DEF OnStack, Instruction, SpAddress

LEMMA SmallIsWord == \A n \in 0 .. 4 : n \in Word
<1> SUFFICES ASSUME NEW n \in 0 .. 4 PROVE n \in Word
  OBVIOUS
<1>1. n \in Address
  BY SizeFacts DEF Address
<1> QED BY <1>1, AddressIsWord

LEMMA ImmediateOperandOf ==
  ASSUME NEW code, Placed(code), NEW op \in ImmediateOps, NEW n \in -4 .. 4
  PROVE  /\ Immediate(op, n) \in Instruction
         /\ SignedHalf(Immediate(op, n).value) = n
<1>1. n % HalfSize = IF n < 0 THEN n + HalfSize ELSE n
  BY PlacedFacts
<1>2. n % HalfSize \in Address
  BY <1>1, PlacedFacts DEF Address
<1>3. SignedHalf(n % HalfSize) = n
  <2> DEFINE h == n % HalfSize
             m == HalfSize \div 2
  <2>1. HalfSize \in Nat /\ HalfSize >= 22 /\ m \in Nat /\ 2 * m <= HalfSize
        /\ HalfSize <= 2 * m + 1
    BY PlacedFacts
  <2>2. h = IF n < 0 THEN n + HalfSize ELSE n
    BY <1>1
  <2> HIDE DEF h, m
  <2>3. (IF h >= m THEN h - HalfSize ELSE h) = n
    BY <2>1, <2>2
  <2> QED BY <2>3 DEF SignedHalf, h, m
<1> QED BY <1>2, <1>3 DEF Immediate, Instruction

-----------------------------------------------------------------------------
(* What each instruction of the routines does.                             *)

(* The frame stays when neither SP nor memory changes.                     *)
LEMMA FrameStays ==
  ASSUME NEW code, NEW depth, Framed(code, depth), TypeOK',
         UNCHANGED <<sp, mem, halted>>, psr'.ien = psr.ien
  PROVE  Framed(code, depth)'
  BY DEF Framed, Held, Cell

(* An operation of the accumulator on a word of the frame.                 *)
LEMMA AluOnStack ==
  ASSUME NEW code, Placed(code), NEW depth \in 0 .. 4,
         NEW k \in 0 .. Len(code) - 2, Reached(code, depth, k),
         NEW op \in AluOps, NEW j \in 0 .. 6, code[k + 1] = OnStack(op, j), Step
  PROVE  /\ Reached(code, depth, k + 1)'
         /\ mem' = mem
         /\ Accumulate(op, Cell(j - depth))
<1> DEFINE i == OnStack(op, j)
<1>0. k \in 0 .. Len(code) - 1 /\ k + 1 < Len(code)
  BY PlacedFacts
<1>1. /\ Framed(code, depth) /\ TypeOK
      /\ i \in Instruction /\ SpAddress(i) = WrapAddr(Stack, j - depth)
  BY StackOperand DEF Reached, Framed, SpOps
<1>2. Decode[mem[pc]] = i /\ next = Entry + (k + 1)
  BY <1>0, Fetches
<1>3. i.fmt = "sp" /\ i.op = op
  BY DEF OnStack
<1> HIDE DEF i
<1>4. PICK b \in Ticked : Execute(i, b)
  BY <1>1, <1>2, StepExecutes DEF Framed
<1>5. SpAlu(i, b)
  BY <1>3, <1>4, ExecuteCases
<1>6. /\ Accumulate(op, Cell(j - depth))
      /\ pc' = Entry + (k + 1) /\ UNCHANGED <<sp, halted, mem>>
  BY <1>1, <1>2, <1>3, <1>5 DEF SpAlu, Cell
<1>7. psr'.ien = psr.ien
  <2>1. Cell(j - depth) \in Word
    BY <1>1, CellType
  <2> QED BY <1>1, <1>6, <2>1, AluFlagsIen DEF Accumulate, TypeOK
<1>8. TypeOK'
  BY <1>1, StepType
<1>9. Framed(code, depth)'
  BY <1>1, <1>6, <1>7, <1>8, FrameStays
<1> QED BY <1>6, <1>9 DEF Reached

(* A store to a word of the frame leaves the routine, the call's words and *)
(* the frame's other words alone.                                          *)
LEMMA StoreKeeps ==
  ASSUME NEW code, Placed(code), NEW depth \in 0 .. 4, Framed(code, depth),
         NEW c \in -4 .. -1, TypeOK',
         mem' = [mem EXCEPT ![WrapAddr(Stack, c)] = ac],
         UNCHANGED <<sp, halted, psr>>
  PROVE  /\ Framed(code, depth)'
         /\ Cell(c)' = ac
         /\ \A d \in -4 .. 2 : d # c => Cell(d)' = Cell(d)
<1>1. /\ TypeOK /\ mem \in [Address -> Word]
  BY DEF Framed, TypeOK
<1>2. WrapAddr(Stack, c) \in Address /\ \A d \in -4 .. 2 : WrapAddr(Stack, d) \in Address
  BY <1>1, CellType
<1>3. Cell(c)' = ac
  BY <1>1, <1>2 DEF Cell
<1>4. ASSUME NEW d \in -4 .. 2, d # c PROVE Cell(d)' = Cell(d)
  <2>1. WrapAddr(Stack, d) # WrapAddr(Stack, c)
    BY <1>4, CellsApart
  <2> QED BY <1>1, <1>2, <2>1 DEF Cell
<1>5. Held(code)'
  <2> SUFFICES ASSUME NEW k \in DOMAIN code
               PROVE  Decode[mem'[Entry + k - 1]] = code[k]
    BY DEF Held
  <2> DEFINE len == Len(code)
  <2>a. k \in 1 .. len /\ len \in 22 .. 33
    BY DEF Placed
  <2>b. Entry \in Nat /\ HalfSize \in Nat /\ Entry + len <= HalfSize
    BY PlacedFacts
  <2>c. /\ Inside(code) = Entry .. Entry + len - 1
        /\ Address = 0 .. HalfSize - 1
    BY DEF Inside, Address
  <2> HIDE DEF len
  <2>1. Entry + k - 1 \in Inside(code) /\ Entry + k - 1 \in Address
    BY <2>a, <2>b, <2>c
  <2>2. WrapAddr(Stack, c) # Entry + k - 1
    <3>1. - c \in 1 .. 4 /\ -(- c) = c
      OBVIOUS
    <3> QED BY <2>1, <3>1 DEF Placed
  <2>3. mem'[Entry + k - 1] = mem[Entry + k - 1]
    BY <1>1, <2>1, <2>2
  <2> QED BY <2>3 DEF Framed, Held
<1>6. Cell(0)' = Cell(0) /\ Cell(1)' = Cell(1) /\ Cell(2)' = Cell(2)
  BY <1>4
<1> QED BY <1>3, <1>4, <1>5, <1>6 DEF Framed

LEMMA StoreOnStack ==
  ASSUME NEW code, Placed(code), NEW depth \in 0 .. 4,
         NEW k \in 0 .. Len(code) - 2, Reached(code, depth, k),
         NEW j \in 0 .. depth - 1, code[k + 1] = OnStack("ST", j), Step
  PROVE  /\ Reached(code, depth, k + 1)'
         /\ ac' = ac
         /\ Cell(j - depth)' = ac
         /\ \A d \in -4 .. 2 : d # j - depth => Cell(d)' = Cell(d)
<1> DEFINE i == OnStack("ST", j)
<1>0. k \in 0 .. Len(code) - 1 /\ k + 1 < Len(code) /\ j \in 0 .. 6
      /\ j - depth \in -4 .. -1
  BY PlacedFacts
<1>1. /\ Framed(code, depth) /\ TypeOK
      /\ i \in Instruction /\ SpAddress(i) = WrapAddr(Stack, j - depth)
  BY <1>0, StackOperand DEF Reached, Framed, SpOps
<1>2. Decode[mem[pc]] = i /\ next = Entry + (k + 1)
  BY <1>0, Fetches
<1>3. i.fmt = "sp" /\ i.op = "ST"
  BY DEF OnStack
<1> HIDE DEF i
<1>4. PICK b \in Ticked : Execute(i, b)
  BY <1>1, <1>2, StepExecutes DEF Framed
<1>5. StoreSp(i, b)
  BY <1>3, <1>4, ExecuteCases
<1>6. /\ mem' = [mem EXCEPT ![WrapAddr(Stack, j - depth)] = ac]
      /\ pc' = Entry + (k + 1) /\ UNCHANGED <<sp, ac, psr, halted>>
  BY <1>1, <1>2, <1>5 DEF StoreSp
<1>7. TypeOK'
  BY <1>1, StepType
<1>8. /\ Framed(code, depth)'
      /\ Cell(j - depth)' = ac
      /\ \A d \in -4 .. 2 : d # j - depth => Cell(d)' = Cell(d)
  BY <1>0, <1>1, <1>6, <1>7, StoreKeeps
<1> QED BY <1>6, <1>8 DEF Reached

(* An operation of the accumulator on a small constant.                    *)
LEMMA AluImmediate ==
  ASSUME NEW code, Placed(code), NEW depth \in 0 .. 4,
         NEW k \in 0 .. Len(code) - 2, Reached(code, depth, k),
         NEW op \in {"LD", "CMP"}, NEW n \in 0 .. 4, code[k + 1] = Immediate(op, n), Step
  PROVE  /\ Reached(code, depth, k + 1)'
         /\ mem' = mem
         /\ Accumulate(op, n)
<1> DEFINE i == Immediate(op, n)
<1>0. k \in 0 .. Len(code) - 1 /\ k + 1 < Len(code) /\ n \in -4 .. 4
      /\ op \in AluOps /\ op \in ImmediateOps /\ n \in Word
  <2>1. 4 < HalfSize /\ n \in Address
    BY PlacedFacts DEF Address
  <2> QED BY <2>1, PlacedFacts, AddressIsWord DEF AluOps, ImmediateOps
<1>1. /\ Framed(code, depth) /\ TypeOK
      /\ i \in Instruction /\ SignedHalf(i.value) = n
  BY <1>0, ImmediateOperandOf DEF Reached, Framed
<1>2. Decode[mem[pc]] = i /\ next = Entry + (k + 1)
  BY <1>0, Fetches
<1>3. i.fmt = "immediate" /\ i.op = op
  BY DEF Immediate
<1> HIDE DEF i
<1>4. PICK b \in Ticked : Execute(i, b)
  BY <1>1, <1>2, StepExecutes DEF Framed
<1>5. ImmediateAlu(i, b)
  BY <1>0, <1>3, <1>4, ExecuteCases
<1>6. ImmediateOperand(i) = n
  <2>1. n % WordSize = n
    BY <1>0, SizeFacts, SmallRemainder DEF Word
  <2> QED BY <1>1, <1>3, <2>1 DEF ImmediateOperand, SignExtended
<1>7. /\ Accumulate(op, n)
      /\ pc' = Entry + (k + 1) /\ UNCHANGED <<sp, halted, mem>>
  BY <1>2, <1>3, <1>5, <1>6 DEF ImmediateAlu
<1>8. psr'.ien = psr.ien
  BY <1>0, <1>1, <1>7, AluFlagsIen DEF Accumulate, TypeOK
<1>9. TypeOK'
  BY <1>1, StepType
<1>10. Framed(code, depth)'
  BY <1>1, <1>7, <1>8, <1>9, FrameStays
<1> QED BY <1>7, <1>10 DEF Reached

(* ADJSP takes a frame and gives it back.                                  *)
LEMMA FrameMoves ==
  ASSUME NEW code, Placed(code), NEW depth \in 0 .. 4, NEW deep \in 0 .. 4,
         NEW k \in 0 .. Len(code) - 2, Reached(code, depth, k),
         NEW n \in -4 .. 4, code[k + 1] = Immediate("ADJSP", n), deep = depth - n, Step
  PROVE  Reached(code, deep, k + 1)' /\ UNCHANGED <<mem, ac>>
<1> DEFINE i == Immediate("ADJSP", n)
<1>0. k \in 0 .. Len(code) - 1 /\ k + 1 < Len(code)
  BY PlacedFacts
<1>1. /\ Framed(code, depth) /\ TypeOK
      /\ i \in Instruction /\ SignedHalf(i.value) = n
  BY ImmediateOperandOf DEF Reached, Framed, ImmediateOps
<1>2. Decode[mem[pc]] = i /\ next = Entry + (k + 1)
  BY <1>0, Fetches
<1>3. i.fmt = "immediate" /\ i.op = "ADJSP"
  BY DEF Immediate
<1> HIDE DEF i
<1>4. PICK b \in Ticked : Execute(i, b)
  BY <1>1, <1>2, StepExecutes DEF Framed
<1>5. AdjustSp(i, b)
  BY <1>3, <1>4, ExecuteCases
<1>6. /\ sp' = WrapAddr(sp, n)
      /\ pc' = Entry + (k + 1) /\ UNCHANGED <<ac, psr, halted, mem>>
  BY <1>1, <1>2, <1>5 DEF AdjustSp
<1>7. sp' = WrapAddr(Stack, 0 - deep)
  <2>1. Stack \in Int /\ 0 - depth \in Int /\ n \in Int /\ (0 - depth) + n = 0 - deep
    BY PlacedFacts
  <2>2. WrapAddr(WrapAddr(Stack, 0 - depth), n) = WrapAddr(Stack, (0 - depth) + n)
    BY <2>1, WrapTwice
  <2> QED BY <1>1, <1>6, <2>1, <2>2 DEF Framed
<1>8. TypeOK'
  BY <1>1, StepType
<1>9. Framed(code, deep)'
  BY <1>1, <1>6, <1>7, <1>8 DEF Framed, Held, Cell
<1> QED BY <1>6, <1>9 DEF Reached

LEMMA Clears ==
  ASSUME NEW code, Placed(code), NEW depth \in 0 .. 4,
         NEW k \in 0 .. Len(code) - 2, Reached(code, depth, k),
         code[k + 1] = Plain("CLA"), Step
  PROVE  Reached(code, depth, k + 1)' /\ mem' = mem /\ ac' = 0
<1> DEFINE i == Plain("CLA")
<1>0. k \in 0 .. Len(code) - 1 /\ k + 1 < Len(code)
  BY PlacedFacts
<1>1. Framed(code, depth) /\ TypeOK
  BY DEF Reached, Framed
<1>2. Decode[mem[pc]] = i /\ next = Entry + (k + 1)
  BY <1>0, Fetches
<1>3. i.fmt = "system" /\ i.op = "CLA" /\ i \in Instruction
  BY DEF Plain, Instruction, SystemOps
<1> HIDE DEF i
<1>4. PICK b \in Ticked : Execute(i, b)
  BY <1>1, <1>2, <1>3, StepExecutes DEF Framed
<1>5. ClearOrComplement(i, b)
  BY <1>3, <1>4, ExecuteCases
<1>6. /\ ac' = 0 /\ psr' = UpdateNZ(psr, ac')
      /\ pc' = Entry + (k + 1) /\ UNCHANGED <<sp, halted, mem>>
  BY <1>2, <1>3, <1>5 DEF ClearOrComplement
<1>7. psr'.ien = psr.ien
  BY <1>1, <1>6 DEF UpdateNZ, Psr, TypeOK
<1>8. TypeOK'
  BY <1>1, StepType
<1>9. Framed(code, depth)'
  BY <1>1, <1>6, <1>7, <1>8, FrameStays
<1> QED BY <1>6, <1>9 DEF Reached

LEMMA Branches ==
  ASSUME NEW code, Placed(code), NEW depth \in 0 .. 4,
         NEW k \in 0 .. Len(code) - 2, Reached(code, depth, k),
         NEW op \in BranchOps \ {"CALL"}, NEW t \in 0 .. Len(code) - 1,
         code[k + 1] = Jump(op, t), Step
  PROVE  /\ Taken(op, psr) => Reached(code, depth, t)'
         /\ ~ Taken(op, psr) => Reached(code, depth, k + 1)'
         /\ mem' = mem /\ ac' = ac
<1> DEFINE i == Jump(op, t)
<1>0. k \in 0 .. Len(code) - 1 /\ k + 1 < Len(code)
  BY PlacedFacts
<1>1. Framed(code, depth) /\ TypeOK
  BY DEF Reached, Framed
<1>2. Decode[mem[pc]] = i /\ next = Entry + (k + 1)
  BY <1>0, Fetches
<1>3. i.fmt = "branch" /\ i.op = op /\ i.target = Entry + t /\ i \in Instruction
  <2> DEFINE len == Len(code)
  <2>1. /\ t \in 0 .. len - 1 /\ len \in 22 .. 33
        /\ Entry \in Nat /\ HalfSize \in Nat /\ Entry + len <= HalfSize
    BY PlacedFacts
  <2> HIDE DEF len
  <2>2. Entry + t \in Address
    BY <2>1 DEF Address
  <2> QED BY <2>2 DEF Jump, Instruction
<1> HIDE DEF i
<1>4. PICK b \in Ticked : Execute(i, b)
  BY <1>1, <1>2, <1>3, StepExecutes DEF Framed
<1>5. Branch(i, b)
  BY <1>3, <1>4, ExecuteCases
<1>6. /\ pc' = IF Taken(op, psr) THEN Entry + t ELSE Entry + (k + 1)
      /\ UNCHANGED <<sp, ac, psr, halted, mem>>
  BY <1>2, <1>3, <1>5 DEF Branch
<1>7. TypeOK'
  BY <1>1, StepType
<1>8. Framed(code, depth)'
  BY <1>1, <1>6, <1>7, FrameStays
<1> QED BY <1>6, <1>8 DEF Reached

LEMMA Returns ==
  ASSUME NEW code, Placed(code), NEW k \in 0 .. Len(code) - 1, Reached(code, 0, k),
         code[k + 1] = Plain("RET"), Step
  PROVE  Returned(ac)' /\ ac' = ac
<1> DEFINE i == Plain("RET")
<1>0. 0 - 0 = 0
  OBVIOUS
<1>1. Framed(code, 0) /\ TypeOK
  BY DEF Reached, Framed
<1>2. Decode[mem[pc]] = i
  BY Fetches
<1>3. i.fmt = "system" /\ i.op = "RET" /\ i \in Instruction
  BY DEF Plain, Instruction, SystemOps
<1> HIDE DEF i
<1>4. PICK b \in Ticked : Execute(i, b)
  BY <1>1, <1>2, <1>3, StepExecutes DEF Framed
<1>5. Return(i, b)
  BY <1>3, <1>4, ExecuteCases
<1>6. sp = WrapAddr(Stack, 0)
  BY <1>1, <1>0 DEF Framed
<1>7. WrapAddr(sp, 1) = WrapAddr(Stack, 1)
  <2>1. Stack \in Int /\ 0 + 1 = 1
    BY PlacedFacts
  <2>2. WrapAddr(WrapAddr(Stack, 0), 1) = WrapAddr(Stack, 0 + 1)
    BY <2>1, WrapTwice
  <2> QED BY <1>6, <2>1, <2>2
<1>8. pc' = Low(Cell(0)) /\ sp' = WrapAddr(Stack, 1) /\ UNCHANGED <<ac, mem>>
  BY <1>5, <1>6, <1>7 DEF Return, PopPc, Cell
<1> QED BY <1>1, <1>8 DEF Framed, Returned, Cell

(* The results and flags the routines use.                                 *)
LEMMA Effects ==
  ASSUME TypeOK, NEW w \in Word
  PROVE  /\ Accumulate("LD", w) => ac' = w
         /\ Accumulate("ADD", w) => /\ ac' = AddWord(ac, w)
                                    /\ psr'.c <=> ac + w >= WordSize
         /\ Accumulate("SUB", w) => ac' = SubWord(ac, w)
         /\ Accumulate("CMP", w) => /\ ac' = ac
                                    /\ psr'.c <=> ac >= w
                                    /\ psr'.z <=> ac = w
<1>1. psr \in Psr /\ ac \in Word
  BY DEF TypeOK
<1>2. ASSUME Accumulate("LD", w) PROVE ac' = w
  BY <1>2 DEF Accumulate, AluResult
<1>3. ASSUME Accumulate("ADD", w)
      PROVE  /\ ac' = AddWord(ac, w)
             /\ psr'.c <=> ac + w >= WordSize
  BY <1>1, <1>3 DEF Accumulate, AluResult, AluFlags, AddFlags, UpdateNZ, Psr
<1>4. ASSUME Accumulate("SUB", w) PROVE ac' = SubWord(ac, w)
  BY <1>4 DEF Accumulate, AluResult
<1>5. ASSUME Accumulate("CMP", w)
      PROVE  /\ ac' = ac
             /\ psr'.c <=> ac >= w
             /\ psr'.z <=> ac = w
  <2>1. ac' = ac /\ psr' = SubtractionFlags(psr, ac, w)
    BY <1>5 DEF Accumulate, AluFlags
  <2> QED BY <1>1, <2>1, SubtractionMeaning
<1> QED BY <1>2, <1>3, <1>4, <1>5

-----------------------------------------------------------------------------
(* The same, by operation: the routine goes from instruction k to the next *)
(* and c is the word that the operand j means in a frame of depth words.   *)
Goes(code, depth, k, to) ==
  /\ Placed(code) /\ depth \in 0 .. 4
  /\ k \in 0 .. 31 /\ to = k + 1 /\ to < Len(code)
  /\ Reached(code, depth, k)
  /\ Step

LEMMA GoesFacts ==
  ASSUME NEW code, NEW depth, NEW k, NEW to, Goes(code, depth, k, to)
  PROVE  /\ Placed(code) /\ depth \in 0 .. 4 /\ k \in 0 .. Len(code) - 2
         /\ to = k + 1 /\ Reached(code, depth, k) /\ Step /\ TypeOK /\ ac \in Word
<1>1. TypeOK
  BY DEF Goes, Reached, Framed
<1>2. /\ Placed(code) /\ depth \in 0 .. 4 /\ k \in 0 .. 31
      /\ to = k + 1 /\ to < Len(code) /\ Reached(code, depth, k) /\ Step
  BY DEF Goes
<1>3. k \in 0 .. Len(code) - 2
  BY <1>2, PlacedFacts
<1> QED BY <1>1, <1>2, <1>3 DEF TypeOK

LEMMA Load ==
  ASSUME NEW code, NEW depth, NEW k, NEW to, Goes(code, depth, k, to),
         NEW j \in 0 .. 6, code[to] = OnStack("LD", j), NEW c, c = j - depth
  PROVE  Reached(code, depth, to)' /\ mem' = mem /\ ac' = Cell(c)
<1>1. Reached(code, depth, to)' /\ mem' = mem /\ Accumulate("LD", Cell(c))
  BY GoesFacts, AluOnStack DEF AluOps
<1>2. Cell(c) \in Word
  BY GoesFacts, CellType
<1> QED BY <1>1, <1>2, GoesFacts, Effects

LEMMA Add ==
  ASSUME NEW code, NEW depth, NEW k, NEW to, Goes(code, depth, k, to),
         NEW j \in 0 .. 6, code[to] = OnStack("ADD", j), NEW c, c = j - depth
  PROVE  /\ Reached(code, depth, to)' /\ mem' = mem
         /\ ac' = AddWord(ac, Cell(c))
         /\ psr'.c <=> ac + Cell(c) >= WordSize
<1>1. Reached(code, depth, to)' /\ mem' = mem /\ Accumulate("ADD", Cell(c))
  BY GoesFacts, AluOnStack DEF AluOps
<1>2. Cell(c) \in Word
  BY GoesFacts, CellType
<1> QED BY <1>1, <1>2, GoesFacts, Effects

LEMMA Subtract ==
  ASSUME NEW code, NEW depth, NEW k, NEW to, Goes(code, depth, k, to),
         NEW j \in 0 .. 6, code[to] = OnStack("SUB", j), NEW c, c = j - depth
  PROVE  Reached(code, depth, to)' /\ mem' = mem /\ ac' = SubWord(ac, Cell(c))
<1>1. Reached(code, depth, to)' /\ mem' = mem /\ Accumulate("SUB", Cell(c))
  BY GoesFacts, AluOnStack DEF AluOps
<1>2. Cell(c) \in Word
  BY GoesFacts, CellType
<1> QED BY <1>1, <1>2, GoesFacts, Effects

LEMMA Compare ==
  ASSUME NEW code, NEW depth, NEW k, NEW to, Goes(code, depth, k, to),
         NEW j \in 0 .. 6, code[to] = OnStack("CMP", j), NEW c, c = j - depth
  PROVE  /\ Reached(code, depth, to)' /\ mem' = mem /\ ac' = ac
         /\ psr'.c <=> ac >= Cell(c)
         /\ psr'.z <=> ac = Cell(c)
<1>1. Reached(code, depth, to)' /\ mem' = mem /\ Accumulate("CMP", Cell(c))
  BY GoesFacts, AluOnStack DEF AluOps
<1>2. Cell(c) \in Word
  BY GoesFacts, CellType
<1> QED BY <1>1, <1>2, GoesFacts, Effects

LEMMA Store ==
  ASSUME NEW code, NEW depth, NEW k, NEW to, Goes(code, depth, k, to),
         NEW j \in 0 .. depth - 1, code[to] = OnStack("ST", j), NEW c, c = j - depth
  PROVE  /\ Reached(code, depth, to)' /\ ac' = ac
         /\ Cell(c)' = ac
         /\ \A d \in -4 .. 2 : d # c => Cell(d)' = Cell(d)
  BY GoesFacts, StoreOnStack

LEMMA LoadConstant ==
  ASSUME NEW code, NEW depth, NEW k, NEW to, Goes(code, depth, k, to),
         NEW n \in 0 .. 4, code[to] = Immediate("LD", n)
  PROVE  Reached(code, depth, to)' /\ mem' = mem /\ ac' = n
<1>1. Reached(code, depth, to)' /\ mem' = mem /\ Accumulate("LD", n)
  BY GoesFacts, AluImmediate
<1>2. n \in Word
  BY GoesFacts, SmallIsWord
<1> QED BY <1>1, <1>2, GoesFacts, Effects

LEMMA CompareConstant ==
  ASSUME NEW code, NEW depth, NEW k, NEW to, Goes(code, depth, k, to),
         NEW n \in 0 .. 4, code[to] = Immediate("CMP", n)
  PROVE  /\ Reached(code, depth, to)' /\ mem' = mem /\ ac' = ac
         /\ psr'.z <=> ac = n
<1>1. Reached(code, depth, to)' /\ mem' = mem /\ Accumulate("CMP", n)
  BY GoesFacts, AluImmediate
<1>2. n \in Word
  BY GoesFacts, SmallIsWord
<1> QED BY <1>1, <1>2, GoesFacts, Effects

LEMMA Clear ==
  ASSUME NEW code, NEW depth, NEW k, NEW to, Goes(code, depth, k, to),
         code[to] = Plain("CLA")
  PROVE  Reached(code, depth, to)' /\ mem' = mem /\ ac' = 0
  BY GoesFacts, Clears

Branching(code, to, op, t) ==
  /\ op \in {"JMP", "BEQ", "BULT", "BUGE", "BUGT"}
  /\ t \in 0 .. 30 /\ t < Len(code)
  /\ code[to] = Jump(op, t)

LEMMA BranchingFacts ==
  ASSUME NEW code, Placed(code), NEW to, NEW op, NEW t, Branching(code, to, op, t)
  PROVE  /\ t \in 0 .. Len(code) - 1 /\ op \in BranchOps \ {"CALL"}
         /\ code[to] = Jump(op, t)
  BY PlacedFacts DEF Branching, BranchOps

LEMMA Jumps ==
  ASSUME NEW code, NEW depth, NEW k, NEW to, Goes(code, depth, k, to),
         NEW op, NEW t, Branching(code, to, op, t), Taken(op, psr)
  PROVE  Reached(code, depth, t)' /\ mem' = mem /\ ac' = ac
  BY BranchingFacts, GoesFacts, Branches

LEMMA FallsThrough ==
  ASSUME NEW code, NEW depth, NEW k, NEW to, Goes(code, depth, k, to),
         NEW op, NEW t, Branching(code, to, op, t), ~ Taken(op, psr)
  PROVE  Reached(code, depth, to)' /\ mem' = mem /\ ac' = ac
  BY BranchingFacts, GoesFacts, Branches

(* The branches the routines take.                                         *)
LEMMA TakenWhen ==
  ASSUME NEW p
  PROVE  /\ Taken("JMP", p)
         /\ Taken("BEQ", p) <=> p.z
         /\ Taken("BULT", p) <=> ~ p.c
         /\ Taken("BUGE", p) <=> p.c
         /\ Taken("BUGT", p) <=> p.c /\ ~ p.z
  BY DEF Taken

-----------------------------------------------------------------------------
(* x is a multiple of y.                                                   *)
Multiple(x, y) == \E q \in Int : x = q * y

LEMMA MultipleNone == \A x, y \in Int : x = 0 \/ x = y => Multiple(x, y)
<1> SUFFICES ASSUME NEW x \in Int, NEW y \in Int, x = 0 \/ x = y
             PROVE  Multiple(x, y)
  OBVIOUS
<1>1. 0 = 0 * y /\ y = 1 * y
  OBVIOUS
<1> QED BY <1>1 DEF Multiple

LEMMA MultipleSum ==
  ASSUME NEW x \in Int, NEW y \in Int, NEW z \in Int, Multiple(x, y), Multiple(z, y)
  PROVE  Multiple(x + z, y)
<1>1. PICK p \in Int : x = p * y
  BY DEF Multiple
<1>2. PICK q \in Int : z = q * y
  BY DEF Multiple
<1>3. x + z = (p + q) * y /\ p + q \in Int
  BY <1>1, <1>2
<1> QED BY <1>3 DEF Multiple

(* Between its steps a routine waits, whatever the host does.              *)
Waits == \/ \E k \in Kind, v \in Byte : PushInput(k, v)
         \/ \E f \in BOOLEAN : ForceInterrupt(f)
         \/ UNCHANGED vars

LEMMA WaitsKeep ==
  ASSUME NEW code, NEW depth, NEW k, Reached(code, depth, k), Waits
  PROVE  Reached(code, depth, k)' /\ UNCHANGED <<pc, mem, ac, psr>>
<1>1. UNCHANGED <<cpuVars, mem>>
  BY DEF Waits, PushInput, ForceInterrupt, vars
<1>2. TypeOK'
  <2>1. TypeOK
    BY DEF Reached, Framed
  <2>2. CASE UNCHANGED vars
    BY <2>1, <2>2 DEF vars, cpuVars, ioVars, TypeOK
  <2>3. CASE ~ UNCHANGED vars
    BY <2>1, <2>3, HostType DEF Waits, Host
  <2> QED BY <2>2, <2>3
<1> QED BY <1>1, <1>2 DEF Reached, Framed, Held, Cell, cpuVars

(* A call is the first instruction of a routine that is placed.            *)
LEMMA CallStarts ==
  ASSUME NEW code, CalledAt(code), Len(code) \in 22 .. 33, DOMAIN code = 1 .. Len(code)
  PROVE  Placed(code) /\ Reached(code, 0, 0)
<1>1. /\ TypeOK /\ Entry \in Address /\ Stack \in Address
      /\ Inside(code) \subseteq Address
  BY DEF CalledAt, TypeOK
<1>2. Left \in Word /\ Right \in Word
  <2>1. WrapAddr(Stack, 1) \in Address /\ WrapAddr(Stack, 2) \in Address
    BY <1>1, WrapAddrType
  <2> QED BY <1>1, <2>1 DEF CalledAt, Cell, TypeOK
<1>3. Entry + Len(code) <= HalfSize
  <2> DEFINE len == Len(code)
  <2>1. /\ len \in 22 .. 33 /\ HalfSize \in Nat /\ Entry \in 0 .. HalfSize - 1
        /\ Entry .. Entry + len - 1 \subseteq 0 .. HalfSize - 1
    BY <1>1, SizeFacts DEF Address, Inside
  <2> HIDE DEF len
  <2>2. Entry + len - 1 \in Entry .. Entry + len - 1
    BY <2>1
  <2>3. Entry + len - 1 \in 0 .. HalfSize - 1
    BY <2>1, <2>2
  <2>4. Entry + len <= HalfSize
    BY <2>1, <2>3
  <2> QED BY <2>4 DEF len
<1>4. Placed(code)
  BY <1>1, <1>2, <1>3 DEF Placed, CalledAt
<1>5. /\ pc = Entry + 0 /\ sp = WrapAddr(Stack, 0 - 0)
  <2>1. /\ Entry + 0 = Entry /\ Stack + (0 - 0) = Stack
        /\ Stack \in 0 .. HalfSize - 1 /\ HalfSize \in Nat \ {0}
    BY <1>4, PlacedFacts
  <2>2. Stack % HalfSize = Stack
    BY <2>1, SmallRemainder
  <2> QED BY <2>1, <2>2 DEF WrapAddr, CalledAt
<1> QED BY <1>4, <1>5 DEF CalledAt, Reached, Framed

(* The instructions of a routine are inside it.                            *)
LEMMA ReachedInside ==
  ASSUME NEW code, Placed(code), NEW depth, NEW k \in 0 .. 32, k < Len(code),
         Reached(code, depth, k)
  PROVE  pc \in Inside(code)
<1> DEFINE len == Len(code)
<1>1. len \in 22 .. 33 /\ Entry \in Nat /\ k < len
  BY PlacedFacts
<1> HIDE DEF len
<1>2. Entry + k \in Entry .. Entry + len - 1
  BY <1>1
<1> QED BY <1>2 DEF Reached, Inside, len

LEMMA FrameWords ==
  ASSUME NEW code, Placed(code), NEW depth, NEW k, Reached(code, depth, k)
  PROVE  /\ Cell(-4) \in Word /\ Cell(-3) \in Word /\ Cell(-2) \in Word /\ Cell(-1) \in Word
         /\ ac \in Word /\ Left \in Word /\ Right \in Word
         /\ Cell(1) = Left /\ Cell(2) = Right
<1>1. TypeOK /\ Cell(1) = Left /\ Cell(2) = Right
  BY DEF Reached, Framed
<1>2. Cell(-4) \in Word /\ Cell(-3) \in Word /\ Cell(-2) \in Word /\ Cell(-1) \in Word
  BY <1>1, CellType
<1> QED BY <1>1, <1>2 DEF TypeOK, Placed

LEMMA WordNat == \A w \in Word : w \in Nat /\ w < WordSize
  BY SizeFacts DEF Word

LEMMA WordRange == \A w \in Word : w \in Int /\ 0 <= w /\ w < WordSize
  BY SizeFacts DEF Word

-----------------------------------------------------------------------------
(* The remainder: while the rest is not below the divisor, its largest     *)
(* double that neither wraps nor exceeds the rest is taken away.           *)

LEMMA RemainderCodeText ==
  /\ Len(RemainderCode) = 22 /\ DOMAIN RemainderCode = 1 .. 22
  /\ RemainderCode[1] = Immediate("ADJSP", -2)
  /\ RemainderCode[2] = OnStack("LD", 3)
  /\ RemainderCode[3] = OnStack("ST", 0)
  /\ RemainderCode[4] = OnStack("LD", 0)
  /\ RemainderCode[5] = OnStack("CMP", 4)
  /\ Branching(RemainderCode, 6, "BULT", 19)
  /\ RemainderCode[7] = OnStack("LD", 4)
  /\ RemainderCode[8] = OnStack("ST", 1)
  /\ RemainderCode[9] = OnStack("LD", 1)
  /\ RemainderCode[10] = OnStack("ADD", 1)
  /\ Branching(RemainderCode, 11, "BUGE", 15)
  /\ RemainderCode[12] = OnStack("CMP", 0)
  /\ Branching(RemainderCode, 13, "BUGT", 15)
  /\ RemainderCode[14] = OnStack("ST", 1)
  /\ Branching(RemainderCode, 15, "JMP", 8)
  /\ RemainderCode[16] = OnStack("LD", 0)
  /\ RemainderCode[17] = OnStack("SUB", 1)
  /\ RemainderCode[18] = OnStack("ST", 0)
  /\ Branching(RemainderCode, 19, "JMP", 3)
  /\ RemainderCode[20] = OnStack("LD", 0)
  /\ RemainderCode[21] = Immediate("ADJSP", 2)
  /\ RemainderCode[22] = Plain("RET")
  BY DEF RemainderCode, Branching


(* What holds when the instruction k after the first is next.  The rest is *)
(* in Cell(-2), the divisor, as often doubled, in Cell(-1).                *)
RemainderFacts(k) ==
  LET rest == Cell(-2)
      part == Cell(-1)
  IN  /\ k = 2 => ac = Left
      /\ k \in 3 .. 19 => Multiple(Left - rest, Right)
      /\ k \in {4, 16} => ac = rest
      /\ k = 5 => (psr.c <=> rest >= Right)
      /\ k \in 6 .. 17 => Right <= rest
      /\ k = 7 => ac = Right
      /\ k \in 8 .. 17 => part <= rest /\ Multiple(part, Right)
      /\ k = 9 => ac = part
      /\ k = 10 => /\ ac = AddWord(part, part)
                   /\ psr.c <=> part + part >= WordSize
      /\ k \in 11 .. 13 => ac = part + part
      /\ k = 12 => /\ psr.c <=> ac >= rest
                   /\ psr.z <=> ac = rest
      /\ k = 13 => ac <= rest
      /\ k = 17 => ac = rest - part
      /\ k = 19 => rest < Right
      /\ k \in {20, 21} => Right # 0 /\ ac = Left % Right

RemainderAt(k) ==
  /\ Reached(RemainderCode, IF k \in {0, 21} THEN 0 ELSE 2, k)
  /\ RemainderFacts(k)

RemainderInv ==
  /\ Placed(RemainderCode)
  /\ \/ \E k \in 0 .. 21 : RemainderAt(k)
     \/ Right # 0 /\ Returned(Left % Right)

LEMMA RemainderGoes ==
  ASSUME Placed(RemainderCode), Step, NEW k \in 1 .. 20, RemainderAt(k)
  PROVE  Goes(RemainderCode, 2, k, k + 1) /\ Step
  BY RemainderCodeText DEF Goes, RemainderAt

LEMMA RemainderStep ==
  ASSUME Placed(RemainderCode), Step, NEW k \in 0 .. 21, RemainderAt(k)
  PROVE  \/ \E m \in 0 .. 21 : RemainderAt(m)'
         \/ Right # 0 /\ Returned(Left % Right)'
<1> DEFINE rest == Cell(-2)
           part == Cell(-1)
<1>w. /\ rest \in Word /\ part \in Word /\ ac \in Word /\ Left \in Word /\ Right \in Word
      /\ Cell(1) = Left /\ Cell(2) = Right
  BY FrameWords DEF RemainderAt
<1>f. RemainderFacts(k)
  BY DEF RemainderAt
<1>s. ASSUME mem' = mem PROVE rest' = rest /\ part' = part
  BY <1>s DEF Cell
<1>r. k \notin {0, 21} => Goes(RemainderCode, 2, k, k + 1)
  BY RemainderGoes
<1> HIDE DEF rest, part
<1>0. CASE k = 0
  <2>1. Reached(RemainderCode, 0, 0)
    BY <1>0 DEF RemainderAt
  <2>2. 0 \in 0 .. Len(RemainderCode) - 2 /\ 2 = 0 - (-2)
        /\ RemainderCode[0 + 1] = Immediate("ADJSP", -2)
    BY RemainderCodeText
  <2>3. Reached(RemainderCode, 2, 0 + 1)'
    BY <2>1, <2>2, FrameMoves
  <2>4. RemainderFacts(1)'
    BY DEF RemainderFacts
  <2> QED BY <2>3, <2>4 DEF RemainderAt
<1>1. CASE k = 1
  <2>1. Reached(RemainderCode, 2, 2)' /\ ac' = Cell(1)
    BY <1>1, <1>r, RemainderCodeText, Load
  <2>2. RemainderFacts(2)'
    BY <1>w, <2>1 DEF RemainderFacts
  <2> QED BY <2>1, <2>2 DEF RemainderAt
<1>2. CASE k = 2
  <2>1. Reached(RemainderCode, 2, 3)' /\ rest' = ac
    BY <1>2, <1>r, RemainderCodeText, Store DEF rest
  <2>2. Multiple(Left - ac, Right)
    <3>1. ac = Left
      BY <1>2, <1>f DEF RemainderFacts
    <3> QED BY <1>w, <3>1, WordRange, MultipleNone
  <2>3. RemainderFacts(3)'
    BY <2>1, <2>2 DEF RemainderFacts, rest
  <2> QED BY <2>1, <2>3 DEF RemainderAt
<1>3. CASE k = 3
  <2>1. Reached(RemainderCode, 2, 4)' /\ mem' = mem /\ ac' = rest
    BY <1>3, <1>r, RemainderCodeText, Load DEF rest
  <2>2. RemainderFacts(4)'
    BY <1>3, <1>f, <1>s, <2>1 DEF RemainderFacts, rest
  <2> QED BY <2>1, <2>2 DEF RemainderAt
<1>4. CASE k = 4
  <2>1. /\ Reached(RemainderCode, 2, 5)' /\ mem' = mem
        /\ psr'.c <=> ac >= Cell(2)
    BY <1>4, <1>r, RemainderCodeText, Compare
  <2>2. RemainderFacts(5)'
    BY <1>4, <1>f, <1>s, <1>w, <2>1 DEF RemainderFacts, rest
  <2> QED BY <2>1, <2>2 DEF RemainderAt
<1>5. CASE k = 5
  <2>1. psr.c <=> rest >= Right
    BY <1>5, <1>f DEF RemainderFacts, rest
  <2>2. CASE psr.c
    <3>1. Reached(RemainderCode, 2, 6)' /\ mem' = mem
      BY <1>5, <1>r, <2>2, RemainderCodeText, FallsThrough, TakenWhen
    <3>2. RemainderFacts(6)'
      BY <1>5, <1>f, <1>s, <1>w, <2>1, <2>2, <3>1, WordRange
      DEF RemainderFacts, rest
    <3> QED BY <3>1, <3>2 DEF RemainderAt
  <2>3. CASE ~ psr.c
    <3>1. Reached(RemainderCode, 2, 19)' /\ mem' = mem
      BY <1>5, <1>r, <2>3, RemainderCodeText, Jumps, TakenWhen
    <3>2. RemainderFacts(19)'
      BY <1>5, <1>f, <1>s, <1>w, <2>1, <2>3, <3>1, WordRange
      DEF RemainderFacts, rest
    <3> QED BY <3>1, <3>2 DEF RemainderAt
  <2> QED BY <2>2, <2>3
<1>6. CASE k = 6
  <2>1. Reached(RemainderCode, 2, 7)' /\ mem' = mem /\ ac' = Cell(2)
    BY <1>6, <1>r, RemainderCodeText, Load
  <2>2. RemainderFacts(7)'
    BY <1>6, <1>f, <1>s, <1>w, <2>1 DEF RemainderFacts, rest
  <2> QED BY <2>1, <2>2 DEF RemainderAt
<1>7. CASE k = 7
  <2>1. Reached(RemainderCode, 2, 8)' /\ part' = ac /\ rest' = rest
    BY <1>7, <1>r, RemainderCodeText, Store DEF rest, part
  <2>2. Multiple(Right, Right)
    BY <1>w, WordRange, MultipleNone
  <2>3. RemainderFacts(8)'
    BY <1>7, <1>f, <2>1, <2>2 DEF RemainderFacts, rest, part
  <2> QED BY <2>1, <2>3 DEF RemainderAt
<1>8. CASE k = 8
  <2>1. Reached(RemainderCode, 2, 9)' /\ mem' = mem /\ ac' = part
    BY <1>8, <1>r, RemainderCodeText, Load DEF part
  <2>2. RemainderFacts(9)'
    BY <1>8, <1>f, <1>s, <2>1 DEF RemainderFacts, rest, part
  <2> QED BY <2>1, <2>2 DEF RemainderAt
<1>9. CASE k = 9
  <2>1. /\ Reached(RemainderCode, 2, 10)' /\ mem' = mem
        /\ ac' = AddWord(ac, part)
        /\ psr'.c <=> ac + part >= WordSize
    BY <1>9, <1>r, RemainderCodeText, Add DEF part
  <2>2. RemainderFacts(10)'
    BY <1>9, <1>f, <1>s, <2>1 DEF RemainderFacts, rest, part
  <2> QED BY <2>1, <2>2 DEF RemainderAt
<1>10. CASE k = 10
  <2>1. CASE psr.c
    <3>1. Reached(RemainderCode, 2, 15)' /\ mem' = mem
      BY <1>10, <1>r, <2>1, RemainderCodeText, Jumps, TakenWhen
    <3>2. RemainderFacts(15)'
      BY <1>10, <1>f, <1>s, <3>1 DEF RemainderFacts, rest, part
    <3> QED BY <3>1, <3>2 DEF RemainderAt
  <2>2. CASE ~ psr.c
    <3>1. Reached(RemainderCode, 2, 11)' /\ mem' = mem /\ ac' = ac
      BY <1>10, <1>r, <2>2, RemainderCodeText, FallsThrough, TakenWhen
    <3>2. ac = AddWord(part, part) /\ ~ (part + part >= WordSize)
      BY <1>10, <1>f, <2>2 DEF RemainderFacts, part
    <3>3. ac = part + part
      BY <1>w, <3>2, AddWordValue
    <3>4. RemainderFacts(11)'
      BY <1>10, <1>f, <1>s, <3>1, <3>3 DEF RemainderFacts, rest, part
    <3> QED BY <3>1, <3>4 DEF RemainderAt
  <2> QED BY <2>1, <2>2
<1>11. CASE k = 11
  <2>1. /\ Reached(RemainderCode, 2, 12)' /\ mem' = mem /\ ac' = ac
        /\ psr'.c <=> ac >= rest
        /\ psr'.z <=> ac = rest
    BY <1>11, <1>r, RemainderCodeText, Compare DEF rest
  <2>2. RemainderFacts(12)'
    BY <1>11, <1>f, <1>s, <2>1 DEF RemainderFacts, rest, part
  <2> QED BY <2>1, <2>2 DEF RemainderAt
<1>12. CASE k = 12
  <2>1. CASE psr.c /\ ~ psr.z
    <3>1. Reached(RemainderCode, 2, 15)' /\ mem' = mem
      BY <1>12, <1>r, <2>1, RemainderCodeText, Jumps, TakenWhen
    <3>2. RemainderFacts(15)'
      BY <1>12, <1>f, <1>s, <3>1 DEF RemainderFacts, rest, part
    <3> QED BY <3>1, <3>2 DEF RemainderAt
  <2>2. CASE ~ (psr.c /\ ~ psr.z)
    <3>1. Reached(RemainderCode, 2, 13)' /\ mem' = mem /\ ac' = ac
      BY <1>12, <1>r, <2>2, RemainderCodeText, FallsThrough, TakenWhen
    <3>2. ac <= rest
      BY <1>12, <1>f, <1>w, <2>2, WordRange DEF RemainderFacts, rest
    <3>3. RemainderFacts(13)'
      BY <1>12, <1>f, <1>s, <3>1, <3>2 DEF RemainderFacts, rest, part
    <3> QED BY <3>1, <3>3 DEF RemainderAt
  <2> QED BY <2>1, <2>2
<1>13. CASE k = 13
  <2>1. Reached(RemainderCode, 2, 14)' /\ part' = ac /\ rest' = rest
    BY <1>13, <1>r, RemainderCodeText, Store DEF rest, part
  <2>2. ac = part + part /\ Multiple(ac, Right)
    BY <1>13, <1>f, <1>w, WordRange, MultipleSum DEF RemainderFacts, part
  <2>3. RemainderFacts(14)'
    BY <1>13, <1>f, <2>1, <2>2 DEF RemainderFacts, rest, part
  <2> QED BY <2>1, <2>3 DEF RemainderAt
<1>14. CASE k = 14
  <2>1. Reached(RemainderCode, 2, 8)' /\ mem' = mem
    BY <1>14, <1>r, RemainderCodeText, Jumps, TakenWhen
  <2>2. RemainderFacts(8)'
    BY <1>14, <1>f, <1>s, <2>1 DEF RemainderFacts, rest, part
  <2> QED BY <2>1, <2>2 DEF RemainderAt
<1>15. CASE k = 15
  <2>1. Reached(RemainderCode, 2, 16)' /\ mem' = mem /\ ac' = rest
    BY <1>15, <1>r, RemainderCodeText, Load DEF rest
  <2>2. RemainderFacts(16)'
    BY <1>15, <1>f, <1>s, <2>1 DEF RemainderFacts, rest, part
  <2> QED BY <2>1, <2>2 DEF RemainderAt
<1>16. CASE k = 16
  <2>1. Reached(RemainderCode, 2, 17)' /\ mem' = mem /\ ac' = SubWord(ac, part)
    BY <1>16, <1>r, RemainderCodeText, Subtract DEF part
  <2>2. ac = rest /\ part <= rest
    BY <1>16, <1>f DEF RemainderFacts, rest, part
  <2>3. ac' = rest - part
    BY <1>w, <2>1, <2>2, WordRange, SubWordValue
  <2>4. RemainderFacts(17)'
    BY <1>16, <1>f, <1>s, <2>1, <2>3 DEF RemainderFacts, rest, part
  <2> QED BY <2>1, <2>4 DEF RemainderAt
<1>17. CASE k = 17
  <2>1. Reached(RemainderCode, 2, 18)' /\ rest' = ac
    BY <1>17, <1>r, RemainderCodeText, Store DEF rest
  <2>2. Multiple(Left - rest, Right) /\ Multiple(part, Right) /\ ac = rest - part
    BY <1>17, <1>f DEF RemainderFacts, rest, part
  <2>3. Multiple((Left - rest) + part, Right)
    BY <1>w, <2>2, WordRange, MultipleSum
  <2>4. (Left - rest) + part = Left - ac
    BY <1>w, <2>2, WordRange
  <2>5. RemainderFacts(18)'
    BY <2>1, <2>3, <2>4 DEF RemainderFacts, rest
  <2> QED BY <2>1, <2>5 DEF RemainderAt
<1>18. CASE k = 18
  <2>1. Reached(RemainderCode, 2, 3)' /\ mem' = mem
    BY <1>18, <1>r, RemainderCodeText, Jumps, TakenWhen
  <2>2. RemainderFacts(3)'
    BY <1>18, <1>f, <1>s, <2>1 DEF RemainderFacts, rest
  <2> QED BY <2>1, <2>2 DEF RemainderAt
<1>19. CASE k = 19
  <2>1. Reached(RemainderCode, 2, 20)' /\ mem' = mem /\ ac' = rest
    BY <1>19, <1>r, RemainderCodeText, Load DEF rest
  <2>2. Multiple(Left - rest, Right) /\ rest < Right
    BY <1>19, <1>f DEF RemainderFacts, rest
  <2>3. Right # 0 /\ rest = Left % Right
    <3>1. PICK q \in Int : Left - rest = q * Right
      BY <2>2 DEF Multiple
    <3>2. Right \in Nat \ {0} /\ rest \in 0 .. Right - 1 /\ Left = Right * q + rest
      BY <1>w, <2>2, <3>1, WordRange
    <3> QED BY <3>2, RemainderUnique
  <2>4. RemainderFacts(20)'
    BY <2>1, <2>3 DEF RemainderFacts
  <2> QED BY <2>1, <2>4 DEF RemainderAt
<1>20. CASE k = 20
  <2>1. /\ Reached(RemainderCode, 2, 20) /\ 20 \in 0 .. Len(RemainderCode) - 2
        /\ 0 = 2 - 2 /\ RemainderCode[20 + 1] = Immediate("ADJSP", 2)
    BY <1>20, RemainderCodeText DEF RemainderAt
  <2>2. Reached(RemainderCode, 0, 20 + 1)' /\ ac' = ac
    BY <2>1, FrameMoves
  <2>3. RemainderFacts(21)'
    BY <1>20, <1>f, <2>2 DEF RemainderFacts
  <2> QED BY <2>2, <2>3 DEF RemainderAt
<1>21. CASE k = 21
  <2>1. /\ Reached(RemainderCode, 0, 21) /\ 21 \in 0 .. Len(RemainderCode) - 1
        /\ RemainderCode[21 + 1] = Plain("RET")
    BY <1>21, RemainderCodeText DEF RemainderAt
  <2>2. Returned(ac)' /\ ac' = ac
    BY <2>1, Returns
  <2>3. Right # 0 /\ ac = Left % Right
    BY <1>21, <1>f DEF RemainderFacts
  <2> QED BY <2>2, <2>3 DEF Returned
<1> QED
  BY <1>0, <1>1, <1>2, <1>3, <1>4, <1>5, <1>6, <1>7, <1>8, <1>9, <1>10, <1>11,
     <1>12, <1>13, <1>14, <1>15, <1>16, <1>17, <1>18, <1>19, <1>20, <1>21

LEMMA RemainderNext ==
  ASSUME RemainderInv, [Under(RemainderCode)]_vars
  PROVE  RemainderInv'
<1>0. Placed(RemainderCode)
  BY DEF RemainderInv
<1>1. CASE Right # 0 /\ Returned(Left % Right)
  <2>1. ~ Under(RemainderCode)
    BY <1>0, <1>1 DEF Under, Returned, Placed
  <2>2. Returned(Left % Right)'
    BY <1>1, <2>1 DEF Returned, Cell, vars, cpuVars
  <2> QED BY <1>0, <1>1, <2>2 DEF RemainderInv
<1>2. ASSUME NEW k \in 0 .. 21, RemainderAt(k) PROVE RemainderInv'
  <2>1. CASE Step
    BY <1>0, <1>2, <2>1, RemainderStep DEF RemainderInv, Returned
  <2>2. CASE Waits
    <3>1. /\ Reached(RemainderCode, IF k \in {0, 21} THEN 0 ELSE 2, k)'
          /\ UNCHANGED <<mem, ac, psr>>
      BY <1>2, <2>2, WaitsKeep DEF RemainderAt
    <3>2. RemainderFacts(k)'
      BY <1>2, <3>1 DEF RemainderAt, RemainderFacts, Cell
    <3> QED BY <1>0, <3>1, <3>2 DEF RemainderInv, RemainderAt
  <2> QED BY <2>1, <2>2 DEF Under, Waits
<1> QED BY <1>1, <1>2 DEF RemainderInv

(* __ex3_mod_u32 returns the remainder, to its caller and with its stack   *)
(* as it was, and never returns for a divisor of zero (runtime.asm:92).    *)
THEOREM RemainderCorrect == RemainderSpec => []TakesRemainder
<1>1. CalledAt(RemainderCode) => RemainderInv
  <2> SUFFICES ASSUME CalledAt(RemainderCode) PROVE RemainderInv
    OBVIOUS
  <2>1. Placed(RemainderCode) /\ Reached(RemainderCode, 0, 0)
    BY RemainderCodeText, CallStarts
  <2>2. RemainderFacts(0)
    BY DEF RemainderFacts
  <2> QED BY <2>1, <2>2 DEF RemainderInv, RemainderAt
<1>2. RemainderInv => TakesRemainder
  <2> SUFFICES ASSUME RemainderInv, pc \notin Inside(RemainderCode)
               PROVE  Right # 0 /\ Returned(Left % Right)
    BY DEF TakesRemainder
  <2>1. ASSUME NEW k \in 0 .. 21, RemainderAt(k) PROVE FALSE
    <3>1. Placed(RemainderCode) /\ k \in 0 .. 32 /\ k < Len(RemainderCode)
      BY RemainderCodeText DEF RemainderInv
    <3> QED BY <2>1, <3>1, ReachedInside DEF RemainderAt
  <2> QED BY <2>1 DEF RemainderInv
<1>3. RemainderInv /\ [Under(RemainderCode)]_vars => RemainderInv'
  BY RemainderNext
<1> QED BY <1>1, <1>2, <1>3, PTL DEF RemainderSpec

-----------------------------------------------------------------------------
(* The quotient: like the remainder, with the number of times the divisor  *)
(* has been doubled kept beside it and summed up.                          *)

(* A quotient is the only number of its kind.                              *)
LEMMA QuotientUnique ==
  ASSUME NEW a \in Int, NEW q \in Int, NEW b \in Nat, NEW r \in Nat,
         a = q * b + r, r < b
  PROVE  b # 0 /\ q = a \div b
<1> DEFINE p == a \div b
<1>1. b \in Nat \ {0}
  OBVIOUS
<1>2. a = b * p + (a % b) /\ p \in Int
  BY <1>1
<1>3. a % b = r
  <2>1. a = b * q + r /\ r \in 0 .. b - 1
    BY <1>1
  <2> QED BY <1>1, <2>1, RemainderUnique
<1> HIDE DEF p
<1>4. b * (q - p) = 0
  BY <1>1, <1>2, <1>3
<1>5. q - p = 0
  BY <1>1, <1>2, <1>4, NoMultiple
<1> QED BY <1>1, <1>2, <1>5 DEF p

(* A factor of a product that fits, fits.                                  *)
LEMMA FactorFits ==
  ASSUME NEW x \in Nat, NEW b \in Nat, b # 0
  PROVE  x <= x * b
<1>1. x * b = x + x * (b - 1) /\ b - 1 \in Nat
  OBVIOUS
<1>2. x * (b - 1) >= 0
  BY <1>1
<1> QED BY <1>1, <1>2

(* The number of times doubles with the divisor; when that is zero it does *)
(* not matter that it wraps.                                               *)
LEMMA DoubledTimes ==
  ASSUME NEW t \in Word, NEW b \in Word, NEW p \in Word, p = (t + t) * b
  PROVE  p = AddWord(t, t) * b
<1>0. AddWord(t, t) \in Word
  BY AddWordValue
<1>1. t \in Nat /\ b \in Nat /\ p \in Nat /\ p < WordSize /\ AddWord(t, t) \in Nat
  BY <1>0, WordNat
<1>2. CASE b = 0
  <2>1. p = 0 /\ AddWord(t, t) * 0 = 0
    BY <1>1, <1>2
  <2> QED BY <1>2, <2>1
<1>3. CASE b # 0
  <2>1. t + t <= (t + t) * b
    BY <1>1, <1>3, FactorFits
  <2> DEFINE m == (t + t) * b
  <2>a. p = m /\ t + t <= m
    BY <2>1
  <2> HIDE DEF m
  <2>2. t + t < WordSize
    BY <1>1, <2>a, SizeFacts
  <2>3. AddWord(t, t) = t + t
    BY <1>1, <2>2, AddWordValue, SizeFacts
  <2> QED BY <2>3
<1> QED BY <1>2, <1>3

(* A quotient does not wrap.                                               *)
LEMMA SumFits ==
  ASSUME NEW l \in Word, NEW q \in Word, NEW t \in Word, NEW b \in Word, NEW r \in Word,
         l = (q + t) * b + r, b # 0
  PROVE  AddWord(q, t) = q + t
<1>1. q \in Nat /\ t \in Nat /\ b \in Nat /\ r \in Nat /\ l < WordSize
  BY WordRange
<1>2. q + t <= (q + t) * b
  BY <1>1, FactorFits
<1> DEFINE m == (q + t) * b
<1>3. l = m + r /\ m \in Nat /\ q + t <= m
  BY <1>1, <1>2
<1> HIDE DEF m
<1>4. q + t < WordSize /\ WordSize \in Nat
  BY <1>1, <1>3, SizeFacts
<1> QED BY <1>1, <1>4, AddWordValue

LEMMA DivideCodeText ==
  /\ Len(DivideCode) = 33 /\ DOMAIN DivideCode = 1 .. 33
  /\ DivideCode[1] = Immediate("ADJSP", -4)
  /\ DivideCode[2] = Plain("CLA")
  /\ DivideCode[3] = OnStack("ST", 1)
  /\ DivideCode[4] = OnStack("LD", 5)
  /\ DivideCode[5] = OnStack("ST", 0)
  /\ DivideCode[6] = OnStack("LD", 0)
  /\ DivideCode[7] = OnStack("CMP", 6)
  /\ Branching(DivideCode, 8, "BULT", 30)
  /\ DivideCode[9] = OnStack("LD", 6)
  /\ DivideCode[10] = OnStack("ST", 2)
  /\ DivideCode[11] = Immediate("LD", 1)
  /\ DivideCode[12] = OnStack("ST", 3)
  /\ DivideCode[13] = OnStack("LD", 2)
  /\ DivideCode[14] = OnStack("ADD", 2)
  /\ Branching(DivideCode, 15, "BUGE", 22)
  /\ DivideCode[16] = OnStack("CMP", 0)
  /\ Branching(DivideCode, 17, "BUGT", 22)
  /\ DivideCode[18] = OnStack("ST", 2)
  /\ DivideCode[19] = OnStack("LD", 3)
  /\ DivideCode[20] = OnStack("ADD", 3)
  /\ DivideCode[21] = OnStack("ST", 3)
  /\ Branching(DivideCode, 22, "JMP", 12)
  /\ DivideCode[23] = OnStack("LD", 0)
  /\ DivideCode[24] = OnStack("SUB", 2)
  /\ DivideCode[25] = OnStack("ST", 0)
  /\ DivideCode[26] = OnStack("LD", 0)
  /\ DivideCode[27] = OnStack("LD", 1)
  /\ DivideCode[28] = OnStack("ADD", 3)
  /\ DivideCode[29] = OnStack("ST", 1)
  /\ Branching(DivideCode, 30, "JMP", 5)
  /\ DivideCode[31] = OnStack("LD", 1)
  /\ DivideCode[32] = Immediate("ADJSP", 4)
  /\ DivideCode[33] = Plain("RET")
<1>1. Len(DivideCode) = 33 /\ DOMAIN DivideCode = 1 .. 33
  BY DEF DivideCode
<1>2. /\ DivideCode[1] = Immediate("ADJSP", -4)
      /\ DivideCode[2] = Plain("CLA")
      /\ DivideCode[3] = OnStack("ST", 1)
      /\ DivideCode[4] = OnStack("LD", 5)
      /\ DivideCode[5] = OnStack("ST", 0)
      /\ DivideCode[6] = OnStack("LD", 0)
      /\ DivideCode[7] = OnStack("CMP", 6)
      /\ Branching(DivideCode, 8, "BULT", 30)
      /\ DivideCode[9] = OnStack("LD", 6)
      /\ DivideCode[10] = OnStack("ST", 2)
      /\ DivideCode[11] = Immediate("LD", 1)
  BY <1>1 DEF DivideCode, Branching
<1>3. /\ DivideCode[12] = OnStack("ST", 3)
      /\ DivideCode[13] = OnStack("LD", 2)
      /\ DivideCode[14] = OnStack("ADD", 2)
      /\ Branching(DivideCode, 15, "BUGE", 22)
      /\ DivideCode[16] = OnStack("CMP", 0)
      /\ Branching(DivideCode, 17, "BUGT", 22)
      /\ DivideCode[18] = OnStack("ST", 2)
      /\ DivideCode[19] = OnStack("LD", 3)
      /\ DivideCode[20] = OnStack("ADD", 3)
      /\ DivideCode[21] = OnStack("ST", 3)
      /\ Branching(DivideCode, 22, "JMP", 12)
  BY <1>1 DEF DivideCode, Branching
<1>4. /\ DivideCode[23] = OnStack("LD", 0)
      /\ DivideCode[24] = OnStack("SUB", 2)
      /\ DivideCode[25] = OnStack("ST", 0)
      /\ DivideCode[26] = OnStack("LD", 0)
      /\ DivideCode[27] = OnStack("LD", 1)
      /\ DivideCode[28] = OnStack("ADD", 3)
      /\ DivideCode[29] = OnStack("ST", 1)
      /\ Branching(DivideCode, 30, "JMP", 5)
      /\ DivideCode[31] = OnStack("LD", 1)
      /\ DivideCode[32] = Immediate("ADJSP", 4)
      /\ DivideCode[33] = Plain("RET")
  BY <1>1 DEF DivideCode, Branching
<1> QED BY <1>1, <1>2, <1>3, <1>4

(* The rest is in Cell(-4), the quotient so far in Cell(-3), the divisor,  *)
(* as often doubled, in Cell(-2) and how often that counts in Cell(-1).    *)
DivideFacts(k) ==
  LET rest == Cell(-4)
      quo == Cell(-3)
      part == Cell(-2)
      times == Cell(-1)
  IN  /\ k = 2 => ac = 0
      /\ k \in {3, 4} => quo = 0
      /\ k = 4 => ac = Left
      /\ k \in (5 .. 24) \cup {29, 30} => Left = quo * Right + rest
      /\ k \in 25 .. 28 => Left = (quo + times) * Right + rest
      /\ k \in {6, 23} => ac = rest
      /\ k = 7 => (psr.c <=> rest >= Right)
      /\ k \in 8 .. 24 => Right <= rest
      /\ k = 9 => ac = Right
      /\ k \in 10 .. 24 => part <= rest
      /\ k \in {10, 11} => part = Right
      /\ k = 11 => ac = 1
      /\ k \in (12 .. 17) \cup (21 .. 24) => part = times * Right
      /\ k = 13 => ac = part
      /\ k = 14 => /\ ac = AddWord(part, part)
                   /\ psr.c <=> part + part >= WordSize
      /\ k \in 15 .. 17 => ac = part + part
      /\ k = 16 => /\ psr.c <=> ac >= rest
                   /\ psr.z <=> ac = rest
      /\ k = 17 => ac <= rest
      /\ k \in 18 .. 20 => part = (times + times) * Right
      /\ k = 19 => ac = times
      /\ k = 20 => part = ac * Right
      /\ k \in 22 .. 29 => Right # 0
      /\ k = 24 => ac = rest - part
      /\ k = 27 => ac = quo
      /\ k = 28 => ac = quo + times
      /\ k = 30 => rest < Right
      /\ k \in {31, 32} => Right # 0 /\ ac = Left \div Right

DivideAt(k) ==
  /\ Reached(DivideCode, IF k \in {0, 32} THEN 0 ELSE 4, k)
  /\ DivideFacts(k)

DivideInv ==
  /\ Placed(DivideCode)
  /\ \/ \E k \in 0 .. 32 : DivideAt(k)
     \/ Right # 0 /\ Returned(Left \div Right)

LEMMA DivideGoes ==
  ASSUME Placed(DivideCode), Step, NEW k \in 1 .. 31, DivideAt(k)
  PROVE  Goes(DivideCode, 4, k, k + 1)
  BY DivideCodeText DEF Goes, DivideAt

LEMMA DivideStep ==
  ASSUME Placed(DivideCode), Step, NEW k \in 0 .. 32, DivideAt(k)
  PROVE  \/ \E m \in 0 .. 32 : DivideAt(m)'
         \/ Right # 0 /\ Returned(Left \div Right)'
<1> DEFINE rest == Cell(-4)
           quo == Cell(-3)
           part == Cell(-2)
           times == Cell(-1)
<1>w. /\ rest \in Word /\ quo \in Word /\ part \in Word /\ times \in Word
      /\ ac \in Word /\ Left \in Word /\ Right \in Word
      /\ Cell(1) = Left /\ Cell(2) = Right
  BY FrameWords DEF DivideAt
<1>f. DivideFacts(k)
  BY DEF DivideAt
<1>s. ASSUME mem' = mem PROVE rest' = rest /\ quo' = quo /\ part' = part /\ times' = times
  BY <1>s DEF Cell
<1>r. k \notin {0, 32} => Goes(DivideCode, 4, k, k + 1)
  BY DivideGoes
<1> HIDE DEF rest, quo, part, times
<1>0. CASE k = 0
  <2>1. /\ Reached(DivideCode, 0, 0) /\ 0 \in 0 .. Len(DivideCode) - 2
        /\ 4 = 0 - (-4) /\ DivideCode[0 + 1] = Immediate("ADJSP", -4)
    BY <1>0, DivideCodeText DEF DivideAt
  <2>2. Reached(DivideCode, 4, 0 + 1)' /\ ac' = ac
    BY <2>1, FrameMoves
  <2>3. DivideFacts(1)'
    BY <1>0, <1>f, <2>2 DEF DivideFacts
  <2> QED BY <2>2, <2>3 DEF DivideAt
<1>1. CASE k = 1
  <2>1. Reached(DivideCode, 4, 2)' /\ mem' = mem /\ ac' = 0
    BY <1>1, <1>r, DivideCodeText, Clear
  <2>2. DivideFacts(2)'
    BY <1>1, <1>f, <1>s, <1>w, <2>1 DEF DivideFacts, rest, quo, part, times
  <2> QED BY <2>1, <2>2 DEF DivideAt
<1>2. CASE k = 2
  <2>1. /\ Reached(DivideCode, 4, 3)' /\ ac' = ac /\ quo' = ac
        /\ rest' = rest /\ part' = part /\ times' = times
    BY <1>2, <1>r, DivideCodeText, Store DEF rest, quo, part, times
  <2>2. DivideFacts(3)'
    BY <1>2, <1>f, <1>w, <2>1 DEF DivideFacts, rest, quo, part, times
  <2> QED BY <2>1, <2>2 DEF DivideAt
<1>3. CASE k = 3
  <2>1. Reached(DivideCode, 4, 4)' /\ mem' = mem /\ ac' = Cell(1)
    BY <1>3, <1>r, DivideCodeText, Load
  <2>2. DivideFacts(4)'
    BY <1>3, <1>f, <1>s, <1>w, <2>1 DEF DivideFacts, rest, quo, part, times
  <2> QED BY <2>1, <2>2 DEF DivideAt
<1>4. CASE k = 4
  <2>1. /\ Reached(DivideCode, 4, 5)' /\ ac' = ac /\ rest' = ac
        /\ quo' = quo /\ part' = part /\ times' = times
    BY <1>4, <1>r, DivideCodeText, Store DEF rest, quo, part, times
  <2>2. Left = 0 * Right + ac /\ quo = 0
    BY <1>4, <1>f, <1>w, WordRange DEF DivideFacts, quo
  <2>3. Left = quo' * Right + rest'
    BY <2>1, <2>2
  <2>4. DivideFacts(5)'
    BY <1>4, <1>f, <1>w, <2>1, <2>2, <2>3
    DEF DivideFacts, rest, quo, part, times
  <2> QED BY <2>1, <2>4 DEF DivideAt
<1>5. CASE k = 5
  <2>1. Reached(DivideCode, 4, 6)' /\ mem' = mem /\ ac' = rest
    BY <1>5, <1>r, DivideCodeText, Load DEF rest
  <2>2. DivideFacts(6)'
    BY <1>5, <1>f, <1>s, <1>w, <2>1 DEF DivideFacts, rest, quo, part, times
  <2> QED BY <2>1, <2>2 DEF DivideAt
<1>6. CASE k = 6
  <2>1. /\ Reached(DivideCode, 4, 7)' /\ mem' = mem /\ ac' = ac
        /\ psr'.c <=> ac >= Cell(2)
        /\ psr'.z <=> ac = Cell(2)
    BY <1>6, <1>r, DivideCodeText, Compare
  <2>2. DivideFacts(7)'
    BY <1>6, <1>f, <1>s, <1>w, <2>1 DEF DivideFacts, rest, quo, part, times
  <2> QED BY <2>1, <2>2 DEF DivideAt
<1>7. CASE k = 7
  <2>1. CASE ~ psr.c
    <3>1. Reached(DivideCode, 4, 30)' /\ mem' = mem /\ ac' = ac
      BY <1>7, <1>r, <2>1, DivideCodeText, Jumps, TakenWhen
    <3>2. rest < Right
      BY <1>7, <1>f, <1>w, <2>1, WordRange DEF DivideFacts, rest
    <3>3. DivideFacts(30)'
      BY <1>7, <1>f, <1>s, <1>w, <3>1, <3>2
      DEF DivideFacts, rest, quo, part, times
    <3> QED BY <3>1, <3>3 DEF DivideAt
  <2>2. CASE psr.c
    <3>1. Reached(DivideCode, 4, 8)' /\ mem' = mem /\ ac' = ac
      BY <1>7, <1>r, <2>2, DivideCodeText, FallsThrough, TakenWhen
    <3>2. Right <= rest
      BY <1>7, <1>f, <1>w, <2>2, WordRange DEF DivideFacts, rest
    <3>3. DivideFacts(8)'
      BY <1>7, <1>f, <1>s, <1>w, <3>1, <3>2
      DEF DivideFacts, rest, quo, part, times
    <3> QED BY <3>1, <3>3 DEF DivideAt
  <2> QED BY <2>1, <2>2
<1>8. CASE k = 8
  <2>1. Reached(DivideCode, 4, 9)' /\ mem' = mem /\ ac' = Cell(2)
    BY <1>8, <1>r, DivideCodeText, Load
  <2>2. DivideFacts(9)'
    BY <1>8, <1>f, <1>s, <1>w, <2>1 DEF DivideFacts, rest, quo, part, times
  <2> QED BY <2>1, <2>2 DEF DivideAt
<1>9. CASE k = 9
  <2>1. /\ Reached(DivideCode, 4, 10)' /\ ac' = ac /\ part' = ac
        /\ rest' = rest /\ quo' = quo /\ times' = times
    BY <1>9, <1>r, DivideCodeText, Store DEF rest, quo, part, times
  <2>2. part' <= rest'
    BY <1>9, <1>f, <2>1 DEF DivideFacts, rest
  <2>3. DivideFacts(10)'
    BY <1>9, <1>f, <1>w, <2>1, <2>2 DEF DivideFacts, rest, quo, part, times
  <2> QED BY <2>1, <2>3 DEF DivideAt
<1>10. CASE k = 10
  <2>1. Reached(DivideCode, 4, 11)' /\ mem' = mem /\ ac' = 1
    BY <1>10, <1>r, DivideCodeText, LoadConstant
  <2>2. DivideFacts(11)'
    BY <1>10, <1>f, <1>s, <1>w, <2>1 DEF DivideFacts, rest, quo, part, times
  <2> QED BY <2>1, <2>2 DEF DivideAt
<1>11. CASE k = 11
  <2>1. /\ Reached(DivideCode, 4, 12)' /\ ac' = ac /\ times' = ac
        /\ rest' = rest /\ quo' = quo /\ part' = part
    BY <1>11, <1>r, DivideCodeText, Store DEF rest, quo, part, times
  <2>2. ac = 1 /\ part = Right
    BY <1>11, <1>f DEF DivideFacts, part
  <2>3. part' = times' * Right
    BY <1>w, <2>1, <2>2, WordRange
  <2>4. DivideFacts(12)'
    BY <1>11, <1>f, <1>w, <2>1, <2>2, <2>3
    DEF DivideFacts, rest, quo, part, times
  <2> QED BY <2>1, <2>4 DEF DivideAt
<1>12. CASE k = 12
  <2>1. Reached(DivideCode, 4, 13)' /\ mem' = mem /\ ac' = part
    BY <1>12, <1>r, DivideCodeText, Load DEF part
  <2>2. DivideFacts(13)'
    BY <1>12, <1>f, <1>s, <1>w, <2>1 DEF DivideFacts, rest, quo, part, times
  <2> QED BY <2>1, <2>2 DEF DivideAt
<1>13. CASE k = 13
  <2>1. /\ Reached(DivideCode, 4, 14)' /\ mem' = mem
        /\ ac' = AddWord(ac, part)
        /\ psr'.c <=> ac + part >= WordSize
    BY <1>13, <1>r, DivideCodeText, Add DEF part
  <2>2. DivideFacts(14)'
    BY <1>13, <1>f, <1>s, <1>w, <2>1 DEF DivideFacts, rest, quo, part, times
  <2> QED BY <2>1, <2>2 DEF DivideAt
<1>14. CASE k = 14
  <2>1. CASE psr.c
    <3>1. Reached(DivideCode, 4, 22)' /\ mem' = mem /\ ac' = ac
      BY <1>14, <1>r, <2>1, DivideCodeText, Jumps, TakenWhen
    <3>2. part = times * Right
      BY <1>14, <1>f DEF DivideFacts, part, times
    <3>3. part + part >= WordSize
      BY <1>14, <1>f, <2>1 DEF DivideFacts, part
    <3>4. Right # 0
      BY <1>w, <3>2, <3>3, WordRange, SizeFacts
    <3>5. DivideFacts(22)'
      BY <1>14, <1>f, <1>s, <1>w, <3>1, <3>2, <3>3, <3>4
      DEF DivideFacts, rest, quo, part, times
    <3> QED BY <3>1, <3>5 DEF DivideAt
  <2>2. CASE ~ psr.c
    <3>1. Reached(DivideCode, 4, 15)' /\ mem' = mem /\ ac' = ac
      BY <1>14, <1>r, <2>2, DivideCodeText, FallsThrough, TakenWhen
    <3>2. ac = AddWord(part, part) /\ ~ (part + part >= WordSize)
      BY <1>14, <1>f, <2>2 DEF DivideFacts, part
    <3>3. ac = part + part
      BY <1>w, <3>2, AddWordValue
    <3>4. DivideFacts(15)'
      BY <1>14, <1>f, <1>s, <1>w, <3>1, <3>2, <3>3
      DEF DivideFacts, rest, quo, part, times
    <3> QED BY <3>1, <3>4 DEF DivideAt
  <2> QED BY <2>1, <2>2
<1>15. CASE k = 15
  <2>1. /\ Reached(DivideCode, 4, 16)' /\ mem' = mem /\ ac' = ac
        /\ psr'.c <=> ac >= rest
        /\ psr'.z <=> ac = rest
    BY <1>15, <1>r, DivideCodeText, Compare DEF rest
  <2>2. DivideFacts(16)'
    BY <1>15, <1>f, <1>s, <1>w, <2>1 DEF DivideFacts, rest, quo, part, times
  <2> QED BY <2>1, <2>2 DEF DivideAt
<1>16. CASE k = 16
  <2>1. CASE psr.c /\ ~ psr.z
    <3>1. Reached(DivideCode, 4, 22)' /\ mem' = mem /\ ac' = ac
      BY <1>16, <1>r, <2>1, DivideCodeText, Jumps, TakenWhen
    <3>2. part = times * Right /\ ac = part + part
      BY <1>16, <1>f DEF DivideFacts, part, times
    <3>3. ac >= rest /\ ac # rest
      BY <1>16, <1>f, <2>1 DEF DivideFacts, rest
    <3>4. Right # 0
      BY <1>w, <3>2, <3>3, WordRange
    <3>5. DivideFacts(22)'
      BY <1>16, <1>f, <1>s, <1>w, <3>1, <3>2, <3>3, <3>4
      DEF DivideFacts, rest, quo, part, times
    <3> QED BY <3>1, <3>5 DEF DivideAt
  <2>2. CASE ~ (psr.c /\ ~ psr.z)
    <3>1. Reached(DivideCode, 4, 17)' /\ mem' = mem /\ ac' = ac
      BY <1>16, <1>r, <2>2, DivideCodeText, FallsThrough, TakenWhen
    <3>2. ac <= rest
      BY <1>16, <1>f, <1>w, <2>2, WordRange DEF DivideFacts, rest
    <3>3. DivideFacts(17)'
      BY <1>16, <1>f, <1>s, <1>w, <3>1, <3>2
      DEF DivideFacts, rest, quo, part, times
    <3> QED BY <3>1, <3>3 DEF DivideAt
  <2> QED BY <2>1, <2>2
<1>17. CASE k = 17
  <2>1. /\ Reached(DivideCode, 4, 18)' /\ ac' = ac /\ part' = ac
        /\ rest' = rest /\ quo' = quo /\ times' = times
    BY <1>17, <1>r, DivideCodeText, Store DEF rest, quo, part, times
  <2>2. part = times * Right /\ ac = part + part
    BY <1>17, <1>f DEF DivideFacts, part, times
  <2>3. ac = (times + times) * Right
    BY <1>w, <2>2, WordRange
  <2>4. DivideFacts(18)'
    BY <1>17, <1>f, <1>w, <2>1, <2>2, <2>3
    DEF DivideFacts, rest, quo, part, times
  <2> QED BY <2>1, <2>4 DEF DivideAt
<1>18. CASE k = 18
  <2>1. Reached(DivideCode, 4, 19)' /\ mem' = mem /\ ac' = times
    BY <1>18, <1>r, DivideCodeText, Load DEF times
  <2>2. DivideFacts(19)'
    BY <1>18, <1>f, <1>s, <1>w, <2>1 DEF DivideFacts, rest, quo, part, times
  <2> QED BY <2>1, <2>2 DEF DivideAt
<1>19. CASE k = 19
  <2>1. /\ Reached(DivideCode, 4, 20)' /\ mem' = mem
        /\ ac' = AddWord(ac, times)
        /\ psr'.c <=> ac + times >= WordSize
    BY <1>19, <1>r, DivideCodeText, Add DEF times
  <2>2. part = (times + times) * Right /\ part <= rest /\ ac = times
    BY <1>19, <1>f DEF DivideFacts, part, rest, times
  <2>3. part = ac' * Right
    BY <1>w, <2>1, <2>2, DoubledTimes
  <2>4. DivideFacts(20)'
    BY <1>19, <1>f, <1>s, <1>w, <2>1, <2>2, <2>3
    DEF DivideFacts, rest, quo, part, times
  <2> QED BY <2>1, <2>4 DEF DivideAt
<1>20. CASE k = 20
  <2>1. /\ Reached(DivideCode, 4, 21)' /\ ac' = ac /\ times' = ac
        /\ rest' = rest /\ quo' = quo /\ part' = part
    BY <1>20, <1>r, DivideCodeText, Store DEF rest, quo, part, times
  <2>2. DivideFacts(21)'
    BY <1>20, <1>f, <1>w, <2>1 DEF DivideFacts, rest, quo, part, times
  <2> QED BY <2>1, <2>2 DEF DivideAt
<1>21. CASE k = 21
  <2>1. Reached(DivideCode, 4, 12)' /\ mem' = mem /\ ac' = ac
    BY <1>21, <1>r, DivideCodeText, Jumps, TakenWhen
  <2>2. DivideFacts(12)'
    BY <1>21, <1>f, <1>s, <1>w, <2>1 DEF DivideFacts, rest, quo, part, times
  <2> QED BY <2>1, <2>2 DEF DivideAt
<1>22. CASE k = 22
  <2>1. Reached(DivideCode, 4, 23)' /\ mem' = mem /\ ac' = rest
    BY <1>22, <1>r, DivideCodeText, Load DEF rest
  <2>2. DivideFacts(23)'
    BY <1>22, <1>f, <1>s, <1>w, <2>1 DEF DivideFacts, rest, quo, part, times
  <2> QED BY <2>1, <2>2 DEF DivideAt
<1>23. CASE k = 23
  <2>1. Reached(DivideCode, 4, 24)' /\ mem' = mem /\ ac' = SubWord(ac, part)
    BY <1>23, <1>r, DivideCodeText, Subtract DEF part
  <2>2. ac = rest /\ part <= rest
    BY <1>23, <1>f DEF DivideFacts, rest, part
  <2>3. ac' = rest - part
    BY <1>w, <2>1, <2>2, WordRange, SubWordValue
  <2>4. DivideFacts(24)'
    BY <1>23, <1>f, <1>s, <1>w, <2>1, <2>2, <2>3
    DEF DivideFacts, rest, quo, part, times
  <2> QED BY <2>1, <2>4 DEF DivideAt
<1>24. CASE k = 24
  <2>1. /\ Reached(DivideCode, 4, 25)' /\ ac' = ac /\ rest' = ac
        /\ quo' = quo /\ part' = part /\ times' = times
    BY <1>24, <1>r, DivideCodeText, Store DEF rest, quo, part, times
  <2>2. Left = quo * Right + rest /\ part = times * Right /\ ac = rest - part
    BY <1>24, <1>f DEF DivideFacts, rest, quo, part, times
  <2>3. Left = (quo + times) * Right + ac
    BY <1>w, <2>2, WordRange
  <2>4. DivideFacts(25)'
    BY <1>24, <1>f, <1>w, <2>1, <2>2, <2>3
    DEF DivideFacts, rest, quo, part, times
  <2> QED BY <2>1, <2>4 DEF DivideAt
<1>25. CASE k = 25
  <2>1. Reached(DivideCode, 4, 26)' /\ mem' = mem /\ ac' = rest
    BY <1>25, <1>r, DivideCodeText, Load DEF rest
  <2>2. DivideFacts(26)'
    BY <1>25, <1>f, <1>s, <1>w, <2>1 DEF DivideFacts, rest, quo, part, times
  <2> QED BY <2>1, <2>2 DEF DivideAt
<1>26. CASE k = 26
  <2>1. Reached(DivideCode, 4, 27)' /\ mem' = mem /\ ac' = quo
    BY <1>26, <1>r, DivideCodeText, Load DEF quo
  <2>2. DivideFacts(27)'
    BY <1>26, <1>f, <1>s, <1>w, <2>1 DEF DivideFacts, rest, quo, part, times
  <2> QED BY <2>1, <2>2 DEF DivideAt
<1>27. CASE k = 27
  <2>1. /\ Reached(DivideCode, 4, 28)' /\ mem' = mem
        /\ ac' = AddWord(ac, times)
        /\ psr'.c <=> ac + times >= WordSize
    BY <1>27, <1>r, DivideCodeText, Add DEF times
  <2>2. Left = (quo + times) * Right + rest /\ Right # 0 /\ ac = quo
    BY <1>27, <1>f DEF DivideFacts, rest, quo, part, times
  <2>3. ac' = quo + times
    BY <1>w, <2>1, <2>2, SumFits
  <2>4. DivideFacts(28)'
    BY <1>27, <1>f, <1>s, <1>w, <2>1, <2>2, <2>3
    DEF DivideFacts, rest, quo, part, times
  <2> QED BY <2>1, <2>4 DEF DivideAt
<1>28. CASE k = 28
  <2>1. /\ Reached(DivideCode, 4, 29)' /\ ac' = ac /\ quo' = ac
        /\ rest' = rest /\ part' = part /\ times' = times
    BY <1>28, <1>r, DivideCodeText, Store DEF rest, quo, part, times
  <2>2. Left = (quo + times) * Right + rest /\ ac = quo + times
    BY <1>28, <1>f DEF DivideFacts, rest, quo, part, times
  <2>3. Left = ac * Right + rest
    BY <2>2
  <2>4. DivideFacts(29)'
    BY <1>28, <1>f, <1>w, <2>1, <2>2, <2>3
    DEF DivideFacts, rest, quo, part, times
  <2> QED BY <2>1, <2>4 DEF DivideAt
<1>29. CASE k = 29
  <2>1. Reached(DivideCode, 4, 5)' /\ mem' = mem /\ ac' = ac
    BY <1>29, <1>r, DivideCodeText, Jumps, TakenWhen
  <2>2. DivideFacts(5)'
    BY <1>29, <1>f, <1>s, <1>w, <2>1 DEF DivideFacts, rest, quo, part, times
  <2> QED BY <2>1, <2>2 DEF DivideAt
<1>30. CASE k = 30
  <2>1. Reached(DivideCode, 4, 31)' /\ mem' = mem /\ ac' = quo
    BY <1>30, <1>r, DivideCodeText, Load DEF quo
  <2>2. Left = quo * Right + rest /\ rest < Right
    BY <1>30, <1>f DEF DivideFacts, quo, rest
  <2>3. Right # 0 /\ quo = Left \div Right
    BY <1>w, <2>2, WordRange, QuotientUnique
  <2>4. DivideFacts(31)'
    BY <1>30, <1>f, <1>s, <1>w, <2>1, <2>2, <2>3
    DEF DivideFacts, rest, quo, part, times
  <2> QED BY <2>1, <2>4 DEF DivideAt
<1>31. CASE k = 31
  <2>1. /\ Reached(DivideCode, 4, 31) /\ 31 \in 0 .. Len(DivideCode) - 2
        /\ 0 = 4 - (4) /\ DivideCode[31 + 1] = Immediate("ADJSP", 4)
    BY <1>31, DivideCodeText DEF DivideAt
  <2>2. Reached(DivideCode, 0, 31 + 1)' /\ ac' = ac
    BY <2>1, FrameMoves
  <2>3. DivideFacts(32)'
    BY <1>31, <1>f, <2>2 DEF DivideFacts
  <2> QED BY <2>2, <2>3 DEF DivideAt
<1>32. CASE k = 32
  <2>1. /\ Reached(DivideCode, 0, 32) /\ 32 \in 0 .. Len(DivideCode) - 1
        /\ DivideCode[32 + 1] = Plain("RET")
    BY <1>32, DivideCodeText DEF DivideAt
  <2>2. Returned(ac)' /\ ac' = ac
    BY <2>1, Returns
  <2>3. Right # 0 /\ ac = Left \div Right
    BY <1>32, <1>f DEF DivideFacts
  <2> QED BY <2>2, <2>3 DEF Returned
<1> QED
  BY <1>0, <1>1, <1>2, <1>3, <1>4, <1>5, <1>6, <1>7, <1>8, <1>9, <1>10,
     <1>11, <1>12, <1>13, <1>14, <1>15, <1>16, <1>17, <1>18, <1>19, <1>20,
     <1>21, <1>22, <1>23, <1>24, <1>25, <1>26, <1>27, <1>28, <1>29, <1>30,
     <1>31, <1>32

LEMMA DivideNext ==
  ASSUME DivideInv, [Under(DivideCode)]_vars
  PROVE  DivideInv'
<1>0. Placed(DivideCode)
  BY DEF DivideInv
<1>1. CASE Right # 0 /\ Returned(Left \div Right)
  <2>1. ~ Under(DivideCode)
    BY <1>0, <1>1 DEF Under, Returned, Placed
  <2>2. Returned(Left \div Right)'
    BY <1>1, <2>1 DEF Returned, Cell, vars, cpuVars
  <2> QED BY <1>0, <1>1, <2>2 DEF DivideInv
<1>2. ASSUME NEW k \in 0 .. 32, DivideAt(k) PROVE DivideInv'
  <2>1. CASE Step
    BY <1>0, <1>2, <2>1, DivideStep DEF DivideInv, Returned
  <2>2. CASE Waits
    <3>1. /\ Reached(DivideCode, IF k \in {0, 32} THEN 0 ELSE 4, k)'
          /\ UNCHANGED <<mem, ac, psr>>
      BY <1>2, <2>2, WaitsKeep DEF DivideAt
    <3>2. DivideFacts(k)'
      BY <1>2, <3>1 DEF DivideAt, DivideFacts, Cell
    <3> QED BY <1>0, <3>1, <3>2 DEF DivideInv, DivideAt
  <2> QED BY <2>1, <2>2 DEF Under, Waits
<1> QED BY <1>1, <1>2 DEF DivideInv

(* __ex3_div_u32 returns the quotient, to its caller and with its stack as *)
(* it was, and never returns for a divisor of zero (runtime.asm:54).       *)
THEOREM DivideCorrect == DivideSpec => []Divides
<1>1. CalledAt(DivideCode) => DivideInv
  <2> SUFFICES ASSUME CalledAt(DivideCode) PROVE DivideInv
    OBVIOUS
  <2>1. Len(DivideCode) \in 22 .. 33 /\ DOMAIN DivideCode = 1 .. Len(DivideCode)
    BY DivideCodeText
  <2>2. Placed(DivideCode) /\ Reached(DivideCode, 0, 0)
    BY <2>1, CallStarts
  <2>3. DivideFacts(0)
    BY DEF DivideFacts
  <2> QED BY <2>2, <2>3 DEF DivideInv, DivideAt
<1>2. DivideInv => Divides
  <2> SUFFICES ASSUME DivideInv, pc \notin Inside(DivideCode)
               PROVE  Right # 0 /\ Returned(Left \div Right)
    BY DEF Divides
  <2>1. ASSUME NEW k \in 0 .. 32, DivideAt(k) PROVE FALSE
    <3>1. Placed(DivideCode) /\ k \in 0 .. 32 /\ k < Len(DivideCode)
      BY DivideCodeText DEF DivideInv
    <3> QED BY <2>1, <3>1, ReachedInside DEF DivideAt
  <2> QED BY <2>1 DEF DivideInv
<1>3. DivideInv /\ [Under(DivideCode)]_vars => DivideInv'
  BY DivideNext
<1> QED BY <1>1, <1>2, <1>3, PTL DEF DivideSpec

-----------------------------------------------------------------------------
(* The product: the largest power of two that does not exceed the rest of  *)
(* the right factor is taken from it, and as many times the left one added *)
(* to the product.                                                         *)

(* x and y are the same word when they wrap.                               *)
Same(x, y) == Multiple(x - y, WordSize)

LEMMA SameEqual ==
  ASSUME NEW x \in Int, NEW y \in Int, x = y
  PROVE  Same(x, y)
<1>1. x - y = 0 /\ WordSize \in Int
  BY SizeFacts
<1> QED BY <1>1, MultipleNone DEF Same

LEMMA SameSum ==
  ASSUME NEW x \in Int, NEW y \in Int, NEW u \in Int, NEW v \in Int,
         Same(x, y), Same(u, v)
  PROVE  Same(x + u, y + v)
<1>1. /\ Multiple(x - y, WordSize) /\ Multiple(u - v, WordSize)
      /\ x - y \in Int /\ u - v \in Int /\ WordSize \in Int
  BY SizeFacts DEF Same
<1>2. Multiple((x - y) + (u - v), WordSize)
  BY <1>1, MultipleSum
<1>3. (x - y) + (u - v) = (x + u) - (y + v)
  OBVIOUS
<1> QED BY <1>2, <1>3 DEF Same

LEMMA SameCancel ==
  ASSUME NEW x \in Int, NEW y \in Int, NEW z \in Int, NEW w \in Int,
         Same(w, y + z), w = x + z
  PROVE  Same(x, y)
<1>1. w - (y + z) = x - y
  OBVIOUS
<1> QED BY <1>1 DEF Same

(* A sum that has wrapped is the same as the sum.                          *)
LEMMA AddWordSame ==
  ASSUME NEW a \in Word, NEW b \in Word
  PROVE  Same(AddWord(a, b), a + b)
<1>1. /\ a \in Int /\ b \in Int /\ AddWord(a, b) \in Int /\ WordSize \in Int
      /\ (AddWord(a, b) = a + b \/ AddWord(a, b) = (a + b) - WordSize)
  BY WordRange, AddWordValue, SizeFacts
<1>2. CASE AddWord(a, b) = a + b
  BY <1>1, <1>2, SameEqual
<1>3. CASE AddWord(a, b) = (a + b) - WordSize
  <2>1. AddWord(a, b) - (a + b) = (-1) * WordSize
    BY <1>1, <1>3
  <2> QED BY <2>1 DEF Same, Multiple
<1> QED BY <1>1, <1>2, <1>3

LEMMA SumSameMore ==
  ASSUME NEW a \in Word, NEW b \in Word, NEW z \in Int, NEW y \in Int,
         Same((a + b) + z, y)
  PROVE  Same(AddWord(a, b) + z, y)
<1>1. a \in Int /\ b \in Int /\ AddWord(a, b) \in Int
  BY WordRange, AddWordValue
<1>2. Same(AddWord(a, b) + ((a + b) + z), (a + b) + y)
  BY <1>1, AddWordSame, SameSum
<1> DEFINE x == AddWord(a, b) + z
           s == a + b
           w == AddWord(a, b) + (s + z)
<1>3. /\ w = x + s /\ s + y = y + s
      /\ x \in Int /\ s \in Int /\ w \in Int
  BY <1>1
<1>4. Same(w, y + s)
  BY <1>2, <1>3
<1> HIDE DEF x, s, w
<1>5. Same(x, y)
  BY <1>3, <1>4, SameCancel
<1> QED BY <1>5 DEF x

LEMMA SumSame ==
  ASSUME NEW a \in Word, NEW y \in Int, Same(a + a, y)
  PROVE  Same(AddWord(a, a), y)
<1>1. a \in Int /\ AddWord(a, a) \in Int
  BY WordRange, AddWordValue
<1>2. (a + a) + 0 = a + a /\ AddWord(a, a) + 0 = AddWord(a, a)
  BY <1>1
<1> QED BY <1>2, SumSameMore

(* The word that is the same as x is x wrapped.                            *)
LEMMA SameWord ==
  ASSUME NEW w \in Word, NEW x \in Int, Same(w, x)
  PROVE  w = x % WordSize
<1>1. PICK q \in Int : w - x = q * WordSize
  BY DEF Same, Multiple
<1>2. /\ WordSize \in Nat \ {0} /\ w \in 0 .. WordSize - 1
      /\ x = WordSize * (- q) + w /\ - q \in Int
  BY <1>1, SizeFacts DEF Word
<1> QED BY <1>2, RemainderUnique

LEMMA MultiplyCodeText ==
  /\ Len(MultiplyCode) = 32 /\ DOMAIN MultiplyCode = 1 .. 32
  /\ MultiplyCode[1] = Immediate("ADJSP", -4)
  /\ MultiplyCode[2] = Plain("CLA")
  /\ MultiplyCode[3] = OnStack("ST", 0)
  /\ MultiplyCode[4] = OnStack("LD", 6)
  /\ MultiplyCode[5] = OnStack("ST", 1)
  /\ MultiplyCode[6] = OnStack("LD", 1)
  /\ MultiplyCode[7] = Immediate("CMP", 0)
  /\ Branching(MultiplyCode, 8, "BEQ", 29)
  /\ MultiplyCode[9] = Immediate("LD", 1)
  /\ MultiplyCode[10] = OnStack("ST", 2)
  /\ MultiplyCode[11] = OnStack("LD", 5)
  /\ MultiplyCode[12] = OnStack("ST", 3)
  /\ MultiplyCode[13] = OnStack("LD", 2)
  /\ MultiplyCode[14] = OnStack("ADD", 2)
  /\ Branching(MultiplyCode, 15, "BUGE", 22)
  /\ MultiplyCode[16] = OnStack("CMP", 1)
  /\ Branching(MultiplyCode, 17, "BUGT", 22)
  /\ MultiplyCode[18] = OnStack("ST", 2)
  /\ MultiplyCode[19] = OnStack("LD", 3)
  /\ MultiplyCode[20] = OnStack("ADD", 3)
  /\ MultiplyCode[21] = OnStack("ST", 3)
  /\ Branching(MultiplyCode, 22, "JMP", 12)
  /\ MultiplyCode[23] = OnStack("LD", 1)
  /\ MultiplyCode[24] = OnStack("SUB", 2)
  /\ MultiplyCode[25] = OnStack("ST", 1)
  /\ MultiplyCode[26] = OnStack("LD", 0)
  /\ MultiplyCode[27] = OnStack("ADD", 3)
  /\ MultiplyCode[28] = OnStack("ST", 0)
  /\ Branching(MultiplyCode, 29, "JMP", 5)
  /\ MultiplyCode[30] = OnStack("LD", 0)
  /\ MultiplyCode[31] = Immediate("ADJSP", 4)
  /\ MultiplyCode[32] = Plain("RET")
<1>1. Len(MultiplyCode) = 32 /\ DOMAIN MultiplyCode = 1 .. 32
  BY DEF MultiplyCode
<1>2. /\ MultiplyCode[1] = Immediate("ADJSP", -4)
      /\ MultiplyCode[2] = Plain("CLA")
      /\ MultiplyCode[3] = OnStack("ST", 0)
      /\ MultiplyCode[4] = OnStack("LD", 6)
      /\ MultiplyCode[5] = OnStack("ST", 1)
      /\ MultiplyCode[6] = OnStack("LD", 1)
      /\ MultiplyCode[7] = Immediate("CMP", 0)
      /\ Branching(MultiplyCode, 8, "BEQ", 29)
      /\ MultiplyCode[9] = Immediate("LD", 1)
      /\ MultiplyCode[10] = OnStack("ST", 2)
      /\ MultiplyCode[11] = OnStack("LD", 5)
  BY <1>1 DEF MultiplyCode, Branching
<1>3. /\ MultiplyCode[12] = OnStack("ST", 3)
      /\ MultiplyCode[13] = OnStack("LD", 2)
      /\ MultiplyCode[14] = OnStack("ADD", 2)
      /\ Branching(MultiplyCode, 15, "BUGE", 22)
      /\ MultiplyCode[16] = OnStack("CMP", 1)
      /\ Branching(MultiplyCode, 17, "BUGT", 22)
      /\ MultiplyCode[18] = OnStack("ST", 2)
      /\ MultiplyCode[19] = OnStack("LD", 3)
      /\ MultiplyCode[20] = OnStack("ADD", 3)
      /\ MultiplyCode[21] = OnStack("ST", 3)
      /\ Branching(MultiplyCode, 22, "JMP", 12)
  BY <1>1 DEF MultiplyCode, Branching
<1>4. /\ MultiplyCode[23] = OnStack("LD", 1)
      /\ MultiplyCode[24] = OnStack("SUB", 2)
      /\ MultiplyCode[25] = OnStack("ST", 1)
      /\ MultiplyCode[26] = OnStack("LD", 0)
      /\ MultiplyCode[27] = OnStack("ADD", 3)
      /\ MultiplyCode[28] = OnStack("ST", 0)
      /\ Branching(MultiplyCode, 29, "JMP", 5)
      /\ MultiplyCode[30] = OnStack("LD", 0)
      /\ MultiplyCode[31] = Immediate("ADJSP", 4)
      /\ MultiplyCode[32] = Plain("RET")
  BY <1>1 DEF MultiplyCode, Branching
<1> QED BY <1>1, <1>2, <1>3, <1>4

(* The product so far is in Cell(-4), the rest in Cell(-3), the power of   *)
(* two in Cell(-2) and so many times the left factor in Cell(-1).          *)
MultiplyFacts(k) ==
  LET product == Cell(-4)
      rest == Cell(-3)
      power == Cell(-2)
      part == Cell(-1)
  IN  /\ k = 2 => ac = 0
      /\ k \in {3, 4} => product = 0
      /\ k = 4 => ac = Right
      /\ k \in (5 .. 24) \cup {28, 29} =>
           Same(product + rest * Left, Left * Right)
      /\ k \in 25 .. 27 => Same((product + part) + rest * Left, Left * Right)
      /\ k \in {6, 23} => ac = rest
      /\ k = 7 => (psr.z <=> rest = 0)
      /\ k \in 8 .. 24 => rest # 0
      /\ k = 9 => ac = 1
      /\ k \in 10 .. 24 => power <= rest
      /\ k \in {10, 11} => power = 1
      /\ k = 11 => ac = Left
      /\ k \in (12 .. 17) \cup (21 .. 24) => Same(part, power * Left)
      /\ k = 13 => ac = power
      /\ k = 14 => /\ ac = AddWord(power, power)
                   /\ psr.c <=> power + power >= WordSize
      /\ k \in 15 .. 17 => ac = power + power
      /\ k = 16 => /\ psr.c <=> ac >= rest
                   /\ psr.z <=> ac = rest
      /\ k = 17 => ac <= rest
      /\ k \in 18 .. 20 => Same(part + part, power * Left)
      /\ k = 19 => ac = part
      /\ k = 20 => Same(ac, power * Left)
      /\ k = 24 => ac = rest - power
      /\ k = 26 => ac = product
      /\ k = 27 => ac = AddWord(product, part)
      /\ k = 29 => rest = 0
      /\ k \in {30, 31} => ac = (Left * Right) % WordSize

MultiplyAt(k) ==
  /\ Reached(MultiplyCode, IF k \in {0, 31} THEN 0 ELSE 4, k)
  /\ MultiplyFacts(k)

MultiplyInv ==
  /\ Placed(MultiplyCode)
  /\ \/ \E k \in 0 .. 31 : MultiplyAt(k)
     \/ Returned((Left * Right) % WordSize)

LEMMA MultiplyGoes ==
  ASSUME Placed(MultiplyCode), Step, NEW k \in 1 .. 30, MultiplyAt(k)
  PROVE  Goes(MultiplyCode, 4, k, k + 1)
  BY MultiplyCodeText DEF Goes, MultiplyAt

LEMMA MultiplyStep ==
  ASSUME Placed(MultiplyCode), Step, NEW k \in 0 .. 31, MultiplyAt(k)
  PROVE  \/ \E m \in 0 .. 31 : MultiplyAt(m)'
         \/ Returned((Left * Right) % WordSize)'
<1> DEFINE product == Cell(-4)
           rest == Cell(-3)
           power == Cell(-2)
           part == Cell(-1)
<1>w. /\ product \in Word /\ rest \in Word /\ power \in Word /\ part \in Word
      /\ ac \in Word /\ Left \in Word /\ Right \in Word
      /\ Cell(1) = Left /\ Cell(2) = Right
  BY FrameWords DEF MultiplyAt
<1>f. MultiplyFacts(k)
  BY DEF MultiplyAt
<1>s. ASSUME mem' = mem PROVE product' = product /\ rest' = rest /\ power' = power /\ part' = part
  BY <1>s DEF Cell
<1>r. k \notin {0, 31} => Goes(MultiplyCode, 4, k, k + 1)
  BY MultiplyGoes
<1> HIDE DEF product, rest, power, part
<1>0. CASE k = 0
  <2>1. /\ Reached(MultiplyCode, 0, 0) /\ 0 \in 0 .. Len(MultiplyCode) - 2
        /\ 4 = 0 - (-4) /\ MultiplyCode[0 + 1] = Immediate("ADJSP", -4)
    BY <1>0, MultiplyCodeText DEF MultiplyAt
  <2>2. Reached(MultiplyCode, 4, 0 + 1)' /\ ac' = ac
    BY <2>1, FrameMoves
  <2>3. MultiplyFacts(1)'
    BY <1>0, <1>f, <2>2 DEF MultiplyFacts
  <2> QED BY <2>2, <2>3 DEF MultiplyAt
<1>1. CASE k = 1
  <2>1. Reached(MultiplyCode, 4, 2)' /\ mem' = mem /\ ac' = 0
    BY <1>1, <1>r, MultiplyCodeText, Clear
  <2>2. MultiplyFacts(2)'
    BY <1>1, <1>f, <1>s, <1>w, <2>1
    DEF MultiplyFacts, product, rest, power, part
  <2> QED BY <2>1, <2>2 DEF MultiplyAt
<1>2. CASE k = 2
  <2>1. /\ Reached(MultiplyCode, 4, 3)' /\ ac' = ac /\ product' = ac
        /\ rest' = rest /\ power' = power /\ part' = part
    BY <1>2, <1>r, MultiplyCodeText, Store DEF product, rest, power, part
  <2>2. MultiplyFacts(3)'
    BY <1>2, <1>f, <1>w, <2>1 DEF MultiplyFacts, product, rest, power, part
  <2> QED BY <2>1, <2>2 DEF MultiplyAt
<1>3. CASE k = 3
  <2>1. Reached(MultiplyCode, 4, 4)' /\ mem' = mem /\ ac' = Cell(2)
    BY <1>3, <1>r, MultiplyCodeText, Load
  <2>2. MultiplyFacts(4)'
    BY <1>3, <1>f, <1>s, <1>w, <2>1
    DEF MultiplyFacts, product, rest, power, part
  <2> QED BY <2>1, <2>2 DEF MultiplyAt
<1>4. CASE k = 4
  <2>1. /\ Reached(MultiplyCode, 4, 5)' /\ ac' = ac /\ rest' = ac
        /\ product' = product /\ power' = power /\ part' = part
    BY <1>4, <1>r, MultiplyCodeText, Store DEF product, rest, power, part
  <2>2. product = 0 /\ ac = Right
    BY <1>4, <1>f DEF MultiplyFacts, product
  <2>3. product' + rest' * Left = Left * Right
    BY <1>w, <2>1, <2>2, WordRange
  <2>4. Same(product' + rest' * Left, Left * Right)
    BY <1>w, <2>1, <2>3, WordRange, SameEqual
  <2>5. MultiplyFacts(5)'
    BY <1>4, <1>f, <1>w, <2>1, <2>2, <2>3, <2>4
    DEF MultiplyFacts, product, rest, power, part
  <2> QED BY <2>1, <2>5 DEF MultiplyAt
<1>5. CASE k = 5
  <2>1. Reached(MultiplyCode, 4, 6)' /\ mem' = mem /\ ac' = rest
    BY <1>5, <1>r, MultiplyCodeText, Load DEF rest
  <2>2. MultiplyFacts(6)'
    BY <1>5, <1>f, <1>s, <1>w, <2>1
    DEF MultiplyFacts, product, rest, power, part
  <2> QED BY <2>1, <2>2 DEF MultiplyAt
<1>6. CASE k = 6
  <2>1. /\ Reached(MultiplyCode, 4, 7)' /\ mem' = mem /\ ac' = ac
        /\ psr'.z <=> ac = 0
    BY <1>6, <1>r, MultiplyCodeText, CompareConstant
  <2>2. MultiplyFacts(7)'
    BY <1>6, <1>f, <1>s, <1>w, <2>1
    DEF MultiplyFacts, product, rest, power, part
  <2> QED BY <2>1, <2>2 DEF MultiplyAt
<1>7. CASE k = 7
  <2>1. CASE psr.z
    <3>1. Reached(MultiplyCode, 4, 29)' /\ mem' = mem /\ ac' = ac
      BY <1>7, <1>r, <2>1, MultiplyCodeText, Jumps, TakenWhen
    <3>2. rest = 0
      BY <1>7, <1>f, <2>1 DEF MultiplyFacts, rest
    <3>3. MultiplyFacts(29)'
      BY <1>7, <1>f, <1>s, <1>w, <3>1, <3>2
      DEF MultiplyFacts, product, rest, power, part
    <3> QED BY <3>1, <3>3 DEF MultiplyAt
  <2>2. CASE ~ psr.z
    <3>1. Reached(MultiplyCode, 4, 8)' /\ mem' = mem /\ ac' = ac
      BY <1>7, <1>r, <2>2, MultiplyCodeText, FallsThrough, TakenWhen
    <3>2. rest # 0
      BY <1>7, <1>f, <2>2 DEF MultiplyFacts, rest
    <3>3. MultiplyFacts(8)'
      BY <1>7, <1>f, <1>s, <1>w, <3>1, <3>2
      DEF MultiplyFacts, product, rest, power, part
    <3> QED BY <3>1, <3>3 DEF MultiplyAt
  <2> QED BY <2>1, <2>2
<1>8. CASE k = 8
  <2>1. Reached(MultiplyCode, 4, 9)' /\ mem' = mem /\ ac' = 1
    BY <1>8, <1>r, MultiplyCodeText, LoadConstant
  <2>2. MultiplyFacts(9)'
    BY <1>8, <1>f, <1>s, <1>w, <2>1
    DEF MultiplyFacts, product, rest, power, part
  <2> QED BY <2>1, <2>2 DEF MultiplyAt
<1>9. CASE k = 9
  <2>1. /\ Reached(MultiplyCode, 4, 10)' /\ ac' = ac /\ power' = ac
        /\ product' = product /\ rest' = rest /\ part' = part
    BY <1>9, <1>r, MultiplyCodeText, Store DEF product, rest, power, part
  <2>2. power' <= rest'
    BY <1>9, <1>f, <1>w, <2>1, WordRange DEF MultiplyFacts, rest
  <2>3. power' = 1
    BY <1>9, <1>f, <2>1 DEF MultiplyFacts
  <2>4. MultiplyFacts(10)'
    BY <1>9, <1>f, <1>w, <2>1, <2>2, <2>3
    DEF MultiplyFacts, product, rest, power, part
  <2> QED BY <2>1, <2>4 DEF MultiplyAt
<1>10. CASE k = 10
  <2>1. Reached(MultiplyCode, 4, 11)' /\ mem' = mem /\ ac' = Cell(1)
    BY <1>10, <1>r, MultiplyCodeText, Load
  <2>2. MultiplyFacts(11)'
    BY <1>10, <1>f, <1>s, <1>w, <2>1
    DEF MultiplyFacts, product, rest, power, part
  <2> QED BY <2>1, <2>2 DEF MultiplyAt
<1>11. CASE k = 11
  <2>1. /\ Reached(MultiplyCode, 4, 12)' /\ ac' = ac /\ part' = ac
        /\ product' = product /\ rest' = rest /\ power' = power
    BY <1>11, <1>r, MultiplyCodeText, Store DEF product, rest, power, part
  <2>2. power = 1 /\ ac = Left
    BY <1>11, <1>f DEF MultiplyFacts, power
  <2>3. part' = power' * Left
    BY <1>w, <2>1, <2>2, WordRange
  <2>4. Same(part', power' * Left)
    BY <1>w, <2>1, <2>3, WordRange, SameEqual
  <2>5. MultiplyFacts(12)'
    BY <1>11, <1>f, <1>w, <2>1, <2>2, <2>3, <2>4
    DEF MultiplyFacts, product, rest, power, part
  <2> QED BY <2>1, <2>5 DEF MultiplyAt
<1>12. CASE k = 12
  <2>1. Reached(MultiplyCode, 4, 13)' /\ mem' = mem /\ ac' = power
    BY <1>12, <1>r, MultiplyCodeText, Load DEF power
  <2>2. MultiplyFacts(13)'
    BY <1>12, <1>f, <1>s, <1>w, <2>1
    DEF MultiplyFacts, product, rest, power, part
  <2> QED BY <2>1, <2>2 DEF MultiplyAt
<1>13. CASE k = 13
  <2>1. /\ Reached(MultiplyCode, 4, 14)' /\ mem' = mem
        /\ ac' = AddWord(ac, power)
        /\ psr'.c <=> ac + power >= WordSize
    BY <1>13, <1>r, MultiplyCodeText, Add DEF power
  <2>2. MultiplyFacts(14)'
    BY <1>13, <1>f, <1>s, <1>w, <2>1
    DEF MultiplyFacts, product, rest, power, part
  <2> QED BY <2>1, <2>2 DEF MultiplyAt
<1>14. CASE k = 14
  <2>1. CASE psr.c
    <3>1. Reached(MultiplyCode, 4, 22)' /\ mem' = mem /\ ac' = ac
      BY <1>14, <1>r, <2>1, MultiplyCodeText, Jumps, TakenWhen
    <3>2. MultiplyFacts(22)'
      BY <1>14, <1>f, <1>s, <1>w, <3>1
      DEF MultiplyFacts, product, rest, power, part
    <3> QED BY <3>1, <3>2 DEF MultiplyAt
  <2>2. CASE ~ psr.c
    <3>1. Reached(MultiplyCode, 4, 15)' /\ mem' = mem /\ ac' = ac
      BY <1>14, <1>r, <2>2, MultiplyCodeText, FallsThrough, TakenWhen
    <3>2. ac = AddWord(power, power) /\ ~ (power + power >= WordSize)
      BY <1>14, <1>f, <2>2 DEF MultiplyFacts, power
    <3>3. ac = power + power
      BY <1>w, <3>2, AddWordValue
    <3>4. MultiplyFacts(15)'
      BY <1>14, <1>f, <1>s, <1>w, <3>1, <3>2, <3>3
      DEF MultiplyFacts, product, rest, power, part
    <3> QED BY <3>1, <3>4 DEF MultiplyAt
  <2> QED BY <2>1, <2>2
<1>15. CASE k = 15
  <2>1. /\ Reached(MultiplyCode, 4, 16)' /\ mem' = mem /\ ac' = ac
        /\ psr'.c <=> ac >= rest
        /\ psr'.z <=> ac = rest
    BY <1>15, <1>r, MultiplyCodeText, Compare DEF rest
  <2>2. MultiplyFacts(16)'
    BY <1>15, <1>f, <1>s, <1>w, <2>1
    DEF MultiplyFacts, product, rest, power, part
  <2> QED BY <2>1, <2>2 DEF MultiplyAt
<1>16. CASE k = 16
  <2>1. CASE psr.c /\ ~ psr.z
    <3>1. Reached(MultiplyCode, 4, 22)' /\ mem' = mem /\ ac' = ac
      BY <1>16, <1>r, <2>1, MultiplyCodeText, Jumps, TakenWhen
    <3>2. MultiplyFacts(22)'
      BY <1>16, <1>f, <1>s, <1>w, <3>1
      DEF MultiplyFacts, product, rest, power, part
    <3> QED BY <3>1, <3>2 DEF MultiplyAt
  <2>2. CASE ~ (psr.c /\ ~ psr.z)
    <3>1. Reached(MultiplyCode, 4, 17)' /\ mem' = mem /\ ac' = ac
      BY <1>16, <1>r, <2>2, MultiplyCodeText, FallsThrough, TakenWhen
    <3>2. ac <= rest
      BY <1>16, <1>f, <1>w, <2>2, WordRange DEF MultiplyFacts, rest
    <3>3. MultiplyFacts(17)'
      BY <1>16, <1>f, <1>s, <1>w, <3>1, <3>2
      DEF MultiplyFacts, product, rest, power, part
    <3> QED BY <3>1, <3>3 DEF MultiplyAt
  <2> QED BY <2>1, <2>2
<1>17. CASE k = 17
  <2>1. /\ Reached(MultiplyCode, 4, 18)' /\ ac' = ac /\ power' = ac
        /\ product' = product /\ rest' = rest /\ part' = part
    BY <1>17, <1>r, MultiplyCodeText, Store DEF product, rest, power, part
  <2>2. Same(part, power * Left) /\ ac = power + power
    BY <1>17, <1>f DEF MultiplyFacts, part, power
  <2>3. Same(part + part, power * Left + power * Left)
    BY <1>w, <2>2, WordRange, SameSum
  <2>4. power * Left + power * Left = ac * Left
    BY <1>w, <2>2, WordRange
  <2>5. Same(part' + part', power' * Left)
    BY <2>1, <2>3, <2>4
  <2>6. MultiplyFacts(18)'
    BY <1>17, <1>f, <1>w, <2>1, <2>2, <2>3, <2>4, <2>5
    DEF MultiplyFacts, product, rest, power, part
  <2> QED BY <2>1, <2>6 DEF MultiplyAt
<1>18. CASE k = 18
  <2>1. Reached(MultiplyCode, 4, 19)' /\ mem' = mem /\ ac' = part
    BY <1>18, <1>r, MultiplyCodeText, Load DEF part
  <2>2. MultiplyFacts(19)'
    BY <1>18, <1>f, <1>s, <1>w, <2>1
    DEF MultiplyFacts, product, rest, power, part
  <2> QED BY <2>1, <2>2 DEF MultiplyAt
<1>19. CASE k = 19
  <2>1. /\ Reached(MultiplyCode, 4, 20)' /\ mem' = mem
        /\ ac' = AddWord(ac, part)
        /\ psr'.c <=> ac + part >= WordSize
    BY <1>19, <1>r, MultiplyCodeText, Add DEF part
  <2>2. Same(part + part, power * Left) /\ ac = part
    BY <1>19, <1>f DEF MultiplyFacts, part, power
  <2>3. Same(ac', power * Left)
    BY <1>w, <2>1, <2>2, WordRange, SumSame
  <2>4. MultiplyFacts(20)'
    BY <1>19, <1>f, <1>s, <1>w, <2>1, <2>2, <2>3
    DEF MultiplyFacts, product, rest, power, part
  <2> QED BY <2>1, <2>4 DEF MultiplyAt
<1>20. CASE k = 20
  <2>1. /\ Reached(MultiplyCode, 4, 21)' /\ ac' = ac /\ part' = ac
        /\ product' = product /\ rest' = rest /\ power' = power
    BY <1>20, <1>r, MultiplyCodeText, Store DEF product, rest, power, part
  <2>2. MultiplyFacts(21)'
    BY <1>20, <1>f, <1>w, <2>1 DEF MultiplyFacts, product, rest, power, part
  <2> QED BY <2>1, <2>2 DEF MultiplyAt
<1>21. CASE k = 21
  <2>1. Reached(MultiplyCode, 4, 12)' /\ mem' = mem /\ ac' = ac
    BY <1>21, <1>r, MultiplyCodeText, Jumps, TakenWhen
  <2>2. MultiplyFacts(12)'
    BY <1>21, <1>f, <1>s, <1>w, <2>1
    DEF MultiplyFacts, product, rest, power, part
  <2> QED BY <2>1, <2>2 DEF MultiplyAt
<1>22. CASE k = 22
  <2>1. Reached(MultiplyCode, 4, 23)' /\ mem' = mem /\ ac' = rest
    BY <1>22, <1>r, MultiplyCodeText, Load DEF rest
  <2>2. MultiplyFacts(23)'
    BY <1>22, <1>f, <1>s, <1>w, <2>1
    DEF MultiplyFacts, product, rest, power, part
  <2> QED BY <2>1, <2>2 DEF MultiplyAt
<1>23. CASE k = 23
  <2>1. Reached(MultiplyCode, 4, 24)' /\ mem' = mem /\ ac' = SubWord(ac, power)
    BY <1>23, <1>r, MultiplyCodeText, Subtract DEF power
  <2>2. ac = rest /\ power <= rest
    BY <1>23, <1>f DEF MultiplyFacts, rest, power
  <2>3. ac' = rest - power
    BY <1>w, <2>1, <2>2, WordRange, SubWordValue
  <2>4. MultiplyFacts(24)'
    BY <1>23, <1>f, <1>s, <1>w, <2>1, <2>2, <2>3
    DEF MultiplyFacts, product, rest, power, part
  <2> QED BY <2>1, <2>4 DEF MultiplyAt
<1>24. CASE k = 24
  <2>1. /\ Reached(MultiplyCode, 4, 25)' /\ ac' = ac /\ rest' = ac
        /\ product' = product /\ power' = power /\ part' = part
    BY <1>24, <1>r, MultiplyCodeText, Store DEF product, rest, power, part
  <2>2. /\ Same(product + rest * Left, Left * Right)
        /\ Same(part, power * Left) /\ ac = rest - power
    BY <1>24, <1>f DEF MultiplyFacts, product, rest, power, part
  <2>3. Same((product + rest * Left) + part, Left * Right + power * Left)
    BY <1>w, <2>2, WordRange, SameSum
  <2>4. (product + rest * Left) + part = ((product + part) + ac * Left) + power * Left
    BY <1>w, <2>2, WordRange
  <2>5. /\ (product + rest * Left) + part \in Int /\ power * Left \in Int
        /\ (product + part) + ac * Left \in Int /\ Left * Right \in Int
    BY <1>w, <2>2, WordRange
  <2>6. Same((product + part) + ac * Left, Left * Right)
    BY <2>3, <2>4, <2>5, SameCancel
  <2>7. Same((product' + part') + rest' * Left, Left * Right)
    BY <2>1, <2>6
  <2>8. MultiplyFacts(25)'
    BY <1>24, <1>f, <1>w, <2>1, <2>2, <2>3, <2>4, <2>5, <2>6, <2>7
    DEF MultiplyFacts, product, rest, power, part
  <2> QED BY <2>1, <2>8 DEF MultiplyAt
<1>25. CASE k = 25
  <2>1. Reached(MultiplyCode, 4, 26)' /\ mem' = mem /\ ac' = product
    BY <1>25, <1>r, MultiplyCodeText, Load DEF product
  <2>2. MultiplyFacts(26)'
    BY <1>25, <1>f, <1>s, <1>w, <2>1
    DEF MultiplyFacts, product, rest, power, part
  <2> QED BY <2>1, <2>2 DEF MultiplyAt
<1>26. CASE k = 26
  <2>1. /\ Reached(MultiplyCode, 4, 27)' /\ mem' = mem
        /\ ac' = AddWord(ac, part)
        /\ psr'.c <=> ac + part >= WordSize
    BY <1>26, <1>r, MultiplyCodeText, Add DEF part
  <2>2. MultiplyFacts(27)'
    BY <1>26, <1>f, <1>s, <1>w, <2>1
    DEF MultiplyFacts, product, rest, power, part
  <2> QED BY <2>1, <2>2 DEF MultiplyAt
<1>27. CASE k = 27
  <2>1. /\ Reached(MultiplyCode, 4, 28)' /\ ac' = ac /\ product' = ac
        /\ rest' = rest /\ power' = power /\ part' = part
    BY <1>27, <1>r, MultiplyCodeText, Store DEF product, rest, power, part
  <2>2. /\ Same((product + part) + rest * Left, Left * Right)
        /\ ac = AddWord(product, part)
    BY <1>27, <1>f DEF MultiplyFacts, product, rest, power, part
  <2>3. rest * Left \in Int /\ Left * Right \in Int
    BY <1>w, WordRange
  <2>4. Same(ac + rest * Left, Left * Right)
    BY <1>w, <2>2, <2>3, SumSameMore
  <2>5. Same(product' + rest' * Left, Left * Right)
    BY <2>1, <2>4
  <2>6. MultiplyFacts(28)'
    BY <1>27, <1>f, <1>w, <2>1, <2>2, <2>3, <2>4, <2>5
    DEF MultiplyFacts, product, rest, power, part
  <2> QED BY <2>1, <2>6 DEF MultiplyAt
<1>28. CASE k = 28
  <2>1. Reached(MultiplyCode, 4, 5)' /\ mem' = mem /\ ac' = ac
    BY <1>28, <1>r, MultiplyCodeText, Jumps, TakenWhen
  <2>2. MultiplyFacts(5)'
    BY <1>28, <1>f, <1>s, <1>w, <2>1
    DEF MultiplyFacts, product, rest, power, part
  <2> QED BY <2>1, <2>2 DEF MultiplyAt
<1>29. CASE k = 29
  <2>1. Reached(MultiplyCode, 4, 30)' /\ mem' = mem /\ ac' = product
    BY <1>29, <1>r, MultiplyCodeText, Load DEF product
  <2>2. Same(product + rest * Left, Left * Right) /\ rest = 0
    BY <1>29, <1>f DEF MultiplyFacts, product, rest
  <2>3. Same(product, Left * Right)
    BY <1>w, <2>2, WordRange
  <2>4. product = (Left * Right) % WordSize
    BY <1>w, <2>3, WordRange, SameWord
  <2>5. MultiplyFacts(30)'
    BY <1>29, <1>f, <1>s, <1>w, <2>1, <2>2, <2>3, <2>4
    DEF MultiplyFacts, product, rest, power, part
  <2> QED BY <2>1, <2>5 DEF MultiplyAt
<1>30. CASE k = 30
  <2>1. /\ Reached(MultiplyCode, 4, 30) /\ 30 \in 0 .. Len(MultiplyCode) - 2
        /\ 0 = 4 - (4) /\ MultiplyCode[30 + 1] = Immediate("ADJSP", 4)
    BY <1>30, MultiplyCodeText DEF MultiplyAt
  <2>2. Reached(MultiplyCode, 0, 30 + 1)' /\ ac' = ac
    BY <2>1, FrameMoves
  <2>3. MultiplyFacts(31)'
    BY <1>30, <1>f, <2>2 DEF MultiplyFacts
  <2> QED BY <2>2, <2>3 DEF MultiplyAt
<1>31. CASE k = 31
  <2>1. /\ Reached(MultiplyCode, 0, 31) /\ 31 \in 0 .. Len(MultiplyCode) - 1
        /\ MultiplyCode[31 + 1] = Plain("RET")
    BY <1>31, MultiplyCodeText DEF MultiplyAt
  <2>2. Returned(ac)' /\ ac' = ac
    BY <2>1, Returns
  <2>3. ac = (Left * Right) % WordSize
    BY <1>31, <1>f DEF MultiplyFacts
  <2> QED BY <2>2, <2>3 DEF Returned
<1> QED
  BY <1>0, <1>1, <1>2, <1>3, <1>4, <1>5, <1>6, <1>7, <1>8, <1>9, <1>10,
     <1>11, <1>12, <1>13, <1>14, <1>15, <1>16, <1>17, <1>18, <1>19, <1>20,
     <1>21, <1>22, <1>23, <1>24, <1>25, <1>26, <1>27, <1>28, <1>29, <1>30,
     <1>31

LEMMA MultiplyNext ==
  ASSUME MultiplyInv, [Under(MultiplyCode)]_vars
  PROVE  MultiplyInv'
<1>0. Placed(MultiplyCode)
  BY DEF MultiplyInv
<1>1. CASE Returned((Left * Right) % WordSize)
  <2>1. ~ Under(MultiplyCode)
    BY <1>0, <1>1 DEF Under, Returned, Placed
  <2>2. Returned((Left * Right) % WordSize)'
    BY <1>1, <2>1 DEF Returned, Cell, vars, cpuVars
  <2> QED BY <1>0, <1>1, <2>2 DEF MultiplyInv
<1>2. ASSUME NEW k \in 0 .. 31, MultiplyAt(k) PROVE MultiplyInv'
  <2>1. CASE Step
    BY <1>0, <1>2, <2>1, MultiplyStep DEF MultiplyInv, Returned
  <2>2. CASE Waits
    <3>1. /\ Reached(MultiplyCode, IF k \in {0, 31} THEN 0 ELSE 4, k)'
          /\ UNCHANGED <<mem, ac, psr>>
      BY <1>2, <2>2, WaitsKeep DEF MultiplyAt
    <3>2. MultiplyFacts(k)'
      BY <1>2, <3>1 DEF MultiplyAt, MultiplyFacts, Cell
    <3> QED BY <1>0, <3>1, <3>2 DEF MultiplyInv, MultiplyAt
  <2> QED BY <2>1, <2>2 DEF Under, Waits
<1> QED BY <1>1, <1>2 DEF MultiplyInv

(* __ex3_mul_u32 returns the product as a word wraps, to its caller and    *)
(* with its stack as it was (runtime.asm:17).                              *)
THEOREM MultiplyCorrect == MultiplySpec => []Multiplies
<1>1. CalledAt(MultiplyCode) => MultiplyInv
  <2> SUFFICES ASSUME CalledAt(MultiplyCode) PROVE MultiplyInv
    OBVIOUS
  <2>1. Len(MultiplyCode) \in 22 .. 33 /\ DOMAIN MultiplyCode = 1 .. Len(MultiplyCode)
    BY MultiplyCodeText
  <2>2. Placed(MultiplyCode) /\ Reached(MultiplyCode, 0, 0)
    BY <2>1, CallStarts
  <2>3. MultiplyFacts(0)
    BY DEF MultiplyFacts
  <2> QED BY <2>2, <2>3 DEF MultiplyInv, MultiplyAt
<1>2. MultiplyInv => Multiplies
  <2> SUFFICES ASSUME MultiplyInv, pc \notin Inside(MultiplyCode)
               PROVE  Returned((Left * Right) % WordSize)
    BY DEF Multiplies
  <2>1. ASSUME NEW k \in 0 .. 31, MultiplyAt(k) PROVE FALSE
    <3>1. Placed(MultiplyCode) /\ k \in 0 .. 32 /\ k < Len(MultiplyCode)
      BY MultiplyCodeText DEF MultiplyInv
    <3> QED BY <2>1, <3>1, ReachedInside DEF MultiplyAt
  <2> QED BY <2>1 DEF MultiplyInv
<1>3. MultiplyInv /\ [Under(MultiplyCode)]_vars => MultiplyInv'
  BY MultiplyNext
<1> QED BY <1>1, <1>2, <1>3, PTL DEF MultiplySpec
=============================================================================
