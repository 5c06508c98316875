---------------------------- MODULE AssemblerProofs ----------------------------
(***************************************************************************)
(* Encoder and assembler, for every size of the fields and every text:     *)
(* what decode makes of the word that encode made is the instruction it    *)
(* was made from (isa.rs); the two passes agree where a line begins, and   *)
(* what they assemble is whole and means what the text says                *)
(* (assembler.rs).                                                         *)
(***************************************************************************)
EXTENDS AssemblerPasses, ValueProofs, WellFoundedInduction

(* Quotient and remainder of a number put together from them.              *)
LEMMA DivMod ==
  ASSUME NEW n \in Nat \ {0}, NEW q \in Nat, NEW r \in 0 .. n - 1
  PROVE  (q * n + r) \div n = q /\ (q * n + r) % n = r
<1> DEFINE d == (q * n + r) \div n
           m == (q * n + r) % n
<1>1. q * n \in Nat /\ q * n + r \in Nat
  OBVIOUS
<1>2. d \in Int /\ m \in 0 .. n - 1 /\ q * n + r = d * n + m
  BY <1>1
<1> HIDE DEF d, m
<1>3. (q - d) * n = m - r
  BY <1>2
<1>4. q - d \in Int /\ m - r < n /\ m - r > -n
  BY <1>2
<1>5. ~ q - d >= 1
  <2>1. q - d >= 1 => (q - d) * n >= n
    BY <1>4
  <2> QED BY <2>1, <1>3, <1>4
<1>6. ~ q - d <= -1
  <2>1. q - d <= -1 => (q - d) * n <= -n
    BY <1>4
  <2> QED BY <2>1, <1>3, <1>4
<1>7. q = d
  BY <1>2, <1>4, <1>5, <1>6
<1>8. m = r
  BY <1>2, <1>3, <1>7
<1> QED BY <1>7, <1>8 DEF d, m

-----------------------------------------------------------------------------
(* Every opcode fits its field.                                            *)
LEMMA OpcodesFit ==
  /\ \A o \in MemoryOps \cup ImmediateOps \cup SpOps : AccumulatorOpcode(o) \in 0 .. 13
  /\ \A o \in BranchOps : BranchOpcode(o) \in 0 .. 13
  /\ \A o \in SystemOps : SystemOpcode(o) \in 0 .. 13
<1>1. \A o \in MemoryOps \cup ImmediateOps \cup SpOps : AccumulatorOpcode(o) \in 0 .. 13
  BY DEF MemoryOps, ImmediateOps, SpOps, AluOps, AccumulatorOpcode
<1>2. \A o \in BranchOps : BranchOpcode(o) \in 0 .. 13
  BY DEF BranchOps, BranchOpcode
<1>3. \A o \in SystemOps : SystemOpcode(o) \in 0 .. 13
  BY DEF SystemOps, SystemOpcode
<1> QED BY <1>1, <1>2, <1>3

(* The parts of an instruction fit their fields.                           *)
LEMMA FieldsFit ==
  ASSUME NEW i \in Instruction
  PROVE  /\ FormatNumber(i.fmt) \in 0 .. FormatSize - 1
         /\ Opcode(i) \in 0 .. OpcodeSize - 1
         /\ Modifier(i) \in 0 .. ModifierSize - 1
         /\ Operand(i) \in Address
<1>1. /\ 0 .. 13 \subseteq 0 .. OpcodeSize - 1
      /\ 0 \in 0 .. ModifierSize - 1 /\ 1 \in 0 .. ModifierSize - 1
      /\ 0 \in Address
  BY EncodingAssumption, SizeFacts DEF Address
<1>2. Modifier(i) \in 0 .. ModifierSize - 1
  BY <1>1 DEF Modifier
<1>3. CASE i \in [fmt : {"memory"}, op : MemoryOps, address : Address, indirect : BOOLEAN]
  <2>1. i.fmt = "memory" /\ i.op \in MemoryOps /\ i.address \in Address
    BY <1>3
  <2>2. FormatNumber(i.fmt) = 0 /\ Opcode(i) = AccumulatorOpcode(i.op) /\ Operand(i) = i.address
    BY <2>1 DEF FormatNumber, Opcode, Operand
  <2>3. Opcode(i) \in 0 .. 13
    BY <2>1, <2>2, OpcodesFit
  <2> QED BY <1>1, <1>2, <2>1, <2>2, <2>3 DEF FormatSize
<1>4. CASE i \in [fmt : {"immediate"}, op : ImmediateOps, value : Address]
  <2>1. i.fmt = "immediate" /\ i.op \in ImmediateOps /\ i.value \in Address
    BY <1>4
  <2>2. FormatNumber(i.fmt) = 1 /\ Opcode(i) = AccumulatorOpcode(i.op) /\ Operand(i) = i.value
    BY <2>1 DEF FormatNumber, Opcode, Operand
  <2>3. Opcode(i) \in 0 .. 13
    BY <2>1, <2>2, OpcodesFit
  <2> QED BY <1>1, <1>2, <2>1, <2>2, <2>3 DEF FormatSize
<1>5. CASE i \in [fmt : {"sp"}, op : SpOps, offset : Address]
  <2>1. i.fmt = "sp" /\ i.op \in SpOps /\ i.offset \in Address
    BY <1>5
  <2>2. FormatNumber(i.fmt) = 2 /\ Opcode(i) = AccumulatorOpcode(i.op) /\ Operand(i) = i.offset
    BY <2>1 DEF FormatNumber, Opcode, Operand
  <2>3. Opcode(i) \in 0 .. 13
    BY <2>1, <2>2, OpcodesFit
  <2> QED BY <1>1, <1>2, <2>1, <2>2, <2>3 DEF FormatSize
<1>6. CASE i \in [fmt : {"branch"}, op : BranchOps, target : Address]
  <2>1. i.fmt = "branch" /\ i.op \in BranchOps /\ i.target \in Address
    BY <1>6
  <2>2. FormatNumber(i.fmt) = 3 /\ Opcode(i) = BranchOpcode(i.op) /\ Operand(i) = i.target
    BY <2>1 DEF FormatNumber, Opcode, Operand
  <2>3. Opcode(i) \in 0 .. 13
    BY <2>1, <2>2, OpcodesFit
  <2> QED BY <1>1, <1>2, <2>1, <2>2, <2>3 DEF FormatSize
<1>7. CASE i \in [fmt : {"system"}, op : SystemOps]
  <2>1. i.fmt = "system" /\ i.op \in SystemOps
    BY <1>7
  <2>2. FormatNumber(i.fmt) = 4 /\ Opcode(i) = SystemOpcode(i.op) /\ Operand(i) = 0
    BY <2>1 DEF FormatNumber, Opcode, Operand
  <2>3. Opcode(i) \in 0 .. 13
    BY <2>1, <2>2, OpcodesFit
  <2> QED BY <1>1, <1>2, <2>1, <2>2, <2>3 DEF FormatSize
<1> QED BY <1>3, <1>4, <1>5, <1>6, <1>7 DEF Instruction

(* The control half of a word falls apart into the fields it is made of.   *)
LEMMA ControlFields ==
  ASSUME NEW f \in 0 .. FormatSize - 1, NEW o \in 0 .. OpcodeSize - 1,
         NEW d \in 0 .. ModifierSize - 1
  PROVE  LET h == Control(f, o, d)
         IN  /\ h \in Address
             /\ h \div (OpcodeSize * ModifierSize) = f
             /\ (h \div ModifierSize) % OpcodeSize = o
             /\ h % ModifierSize = d
<1> DEFINE P == OpcodeSize * ModifierSize
           q == f * OpcodeSize + o
           r == o * ModifierSize + d
           h == Control(f, o, d)
<1>1. /\ OpcodeSize \in Nat \ {0} /\ ModifierSize \in Nat \ {0}
      /\ f \in Nat /\ f <= 7 /\ o \in Nat /\ d \in Nat
      /\ HalfSize = 8 * P
  BY EncodingAssumption DEF FormatSize
<1>2. h = q * ModifierSize + d /\ q \in Nat
  BY <1>1 DEF Control
<1>3. P \in Nat \ {0}
  BY <1>1
<1>4. r \in 0 .. P - 1
  <2>1. o * ModifierSize <= (OpcodeSize - 1) * ModifierSize
    BY <1>1
  <2>2. (OpcodeSize - 1) * ModifierSize = P - ModifierSize
    BY <1>1
  <2>3. o * ModifierSize \in Nat
    BY <1>1
  <2> QED BY <1>1, <1>3, <2>1, <2>2, <2>3
<1>5. h = f * P + r
  BY <1>1, <1>2
<1>6. q % OpcodeSize = o
  BY <1>1, DivMod
<1>7. f * P <= 7 * P /\ f * P \in Nat
  BY <1>1, <1>3
<1> HIDE DEF P, q, r, h
<1>8. h \div ModifierSize = q /\ h % ModifierSize = d
  BY <1>1, <1>2, DivMod
<1>9. h \div P = f
  BY <1>1, <1>3, <1>4, <1>5, DivMod
<1>10. h \in Address
  BY <1>1, <1>3, <1>4, <1>5, <1>7 DEF Address
<1> QED BY <1>6, <1>8, <1>9, <1>10 DEF P, h

(* What the decoder finds in the word of an instruction.                   *)
LEMMA EncodedFields ==
  ASSUME NEW i \in Instruction
  PROVE  LET w == Encode(i)
         IN  /\ w \in Word
             /\ FormatOf(w) = FormatNumber(i.fmt) /\ OpcodeOf(w) = Opcode(i)
             /\ ModifierOf(w) = Modifier(i) /\ Low(w) = Operand(i)
<1> DEFINE h == Control(FormatNumber(i.fmt), Opcode(i), Modifier(i))
           w == Encode(i)
<1>1. /\ h \in Address
      /\ h \div (OpcodeSize * ModifierSize) = FormatNumber(i.fmt)
      /\ (h \div ModifierSize) % OpcodeSize = Opcode(i)
      /\ h % ModifierSize = Modifier(i)
  BY FieldsFit, ControlFields
<1>2. w = h * HalfSize + Operand(i)
  BY DEF Encode
<1>3. Operand(i) \in 0 .. HalfSize - 1 /\ HalfSize \in Nat \ {0} /\ h \in Nat
  BY <1>1, FieldsFit, SizeFacts DEF Address
<1> HIDE DEF h, w
<1>4. w \div HalfSize = h /\ w % HalfSize = Operand(i)
  BY <1>2, <1>3, DivMod
<1>5. w \in Word
  BY <1>1, <1>2, FieldsFit, ComposeType
<1> QED BY <1>1, <1>4, <1>5 DEF w, FormatOf, OpcodeOf, ModifierOf, High, Low

-----------------------------------------------------------------------------
(* One operation for each opcode of a format.                              *)
LEMMA OpcodesDiffer ==
  /\ \A a, b \in MemoryOps : AccumulatorOpcode(a) = AccumulatorOpcode(b) => a = b
  /\ \A a, b \in ImmediateOps : AccumulatorOpcode(a) = AccumulatorOpcode(b) => a = b
  /\ \A a, b \in SpOps : AccumulatorOpcode(a) = AccumulatorOpcode(b) => a = b
  /\ \A a, b \in BranchOps : BranchOpcode(a) = BranchOpcode(b) => a = b
  /\ \A a, b \in SystemOps : SystemOpcode(a) = SystemOpcode(b) => a = b
<1>1. \A a, b \in MemoryOps : AccumulatorOpcode(a) = AccumulatorOpcode(b) => a = b
  BY DEF MemoryOps, AluOps, AccumulatorOpcode
<1>2. \A a, b \in ImmediateOps : AccumulatorOpcode(a) = AccumulatorOpcode(b) => a = b
  BY DEF ImmediateOps, AluOps, AccumulatorOpcode
<1>3. \A a, b \in SpOps : AccumulatorOpcode(a) = AccumulatorOpcode(b) => a = b
  BY DEF SpOps, AluOps, AccumulatorOpcode
<1>4. \A a, b \in BranchOps : BranchOpcode(a) = BranchOpcode(b) => a = b
  BY DEF BranchOps, BranchOpcode
<1>5. \A a, b \in SystemOps : SystemOpcode(a) = SystemOpcode(b) => a = b
  BY DEF SystemOps, SystemOpcode
<1> QED BY <1>1, <1>2, <1>3, <1>4, <1>5

(* The word of an instruction has that reading and no other.               *)
LEMMA OneReading ==
  ASSUME NEW i \in Instruction
  PROVE  Readings(Encode(i)) = {i}
<1> DEFINE w == Encode(i)
<1>1. /\ FormatOf(w) = FormatNumber(i.fmt) /\ OpcodeOf(w) = Opcode(i)
      /\ ModifierOf(w) = Modifier(i) /\ Low(w) = Operand(i)
  BY EncodedFields
<1> HIDE DEF w
<1>2. CASE i \in [fmt : {"memory"}, op : MemoryOps, address : Address, indirect : BOOLEAN]
  <2>1. /\ i.fmt = "memory" /\ i.op \in MemoryOps /\ i.indirect \in BOOLEAN
        /\ i = [fmt |-> "memory", address |-> i.address, indirect |-> i.indirect, op |-> i.op]
    BY <1>2
  <2>2. FormatOf(w) = 0 /\ OpcodeOf(w) = AccumulatorOpcode(i.op) /\ Low(w) = i.address
    BY <1>1, <2>1 DEF FormatNumber, Opcode, Operand
  <2>3. ModifierOf(w) \in {0, 1} /\ (ModifierOf(w) = 1) = i.indirect
    BY <1>1, <2>1 DEF Modifier
  <2>4. {o \in MemoryOps : AccumulatorOpcode(o) = OpcodeOf(w)} = {i.op}
    BY <2>1, <2>2, OpcodesDiffer
  <2>5. ASSUME NEW x
        PROVE  x \in Readings(w) <=>
                 x \in [fmt : {"memory"}, address : {Low(w)}, indirect : {ModifierOf(w) = 1},
                        op : {o \in MemoryOps : AccumulatorOpcode(o) = OpcodeOf(w)}]
    BY <2>2, <2>3 DEF Readings
  <2>6. ASSUME NEW x
        PROVE  x \in Readings(w) <=>
                 x \in [fmt : {"memory"}, address : {i.address}, indirect : {i.indirect}, op : {i.op}]
    BY <2>2, <2>3, <2>4, <2>5
  <2>7. ASSUME NEW x \in [fmt : {"memory"}, address : {i.address}, indirect : {i.indirect}, op : {i.op}]
        PROVE  x = i
    BY <2>1
  <2>8. i \in [fmt : {"memory"}, address : {i.address}, indirect : {i.indirect}, op : {i.op}]
    BY <2>1
  <2> QED BY <2>6, <2>7, <2>8 DEF w
<1>3. CASE i \in [fmt : {"immediate"}, op : ImmediateOps, value : Address]
  <2>1. /\ i.fmt = "immediate" /\ i.op \in ImmediateOps
        /\ i = [fmt |-> "immediate", value |-> i.value, op |-> i.op]
    BY <1>3
  <2>2. FormatOf(w) = 1 /\ OpcodeOf(w) = AccumulatorOpcode(i.op) /\ Low(w) = i.value
    BY <1>1, <2>1 DEF FormatNumber, Opcode, Operand
  <2>3. ModifierOf(w) = 0
    BY <1>1, <2>1 DEF Modifier
  <2>4. {o \in ImmediateOps : AccumulatorOpcode(o) = OpcodeOf(w)} = {i.op}
    BY <2>1, <2>2, OpcodesDiffer
  <2>5. ASSUME NEW x
        PROVE  x \in Readings(w) <=>
                 x \in [fmt : {"immediate"}, value : {Low(w)},
                        op : {o \in ImmediateOps : AccumulatorOpcode(o) = OpcodeOf(w)}]
    BY <2>2, <2>3 DEF Readings
  <2>6. ASSUME NEW x
        PROVE  x \in Readings(w) <=>
                 x \in [fmt : {"immediate"}, value : {i.value}, op : {i.op}]
    BY <2>2, <2>3, <2>4, <2>5
  <2>7. ASSUME NEW x \in [fmt : {"immediate"}, value : {i.value}, op : {i.op}]
        PROVE  x = i
    BY <2>1
  <2>8. i \in [fmt : {"immediate"}, value : {i.value}, op : {i.op}]
    BY <2>1
  <2> QED BY <2>6, <2>7, <2>8 DEF w
<1>4. CASE i \in [fmt : {"sp"}, op : SpOps, offset : Address]
  <2>1. /\ i.fmt = "sp" /\ i.op \in SpOps
        /\ i = [fmt |-> "sp", offset |-> i.offset, op |-> i.op]
    BY <1>4
  <2>2. FormatOf(w) = 2 /\ OpcodeOf(w) = AccumulatorOpcode(i.op) /\ Low(w) = i.offset
    BY <1>1, <2>1 DEF FormatNumber, Opcode, Operand
  <2>3. ModifierOf(w) = 0
    BY <1>1, <2>1 DEF Modifier
  <2>4. {o \in SpOps : AccumulatorOpcode(o) = OpcodeOf(w)} = {i.op}
    BY <2>1, <2>2, OpcodesDiffer
  <2>5. ASSUME NEW x
        PROVE  x \in Readings(w) <=>
                 x \in [fmt : {"sp"}, offset : {Low(w)},
                        op : {o \in SpOps : AccumulatorOpcode(o) = OpcodeOf(w)}]
    BY <2>2, <2>3 DEF Readings
  <2>6. ASSUME NEW x
        PROVE  x \in Readings(w) <=>
                 x \in [fmt : {"sp"}, offset : {i.offset}, op : {i.op}]
    BY <2>2, <2>3, <2>4, <2>5
  <2>7. ASSUME NEW x \in [fmt : {"sp"}, offset : {i.offset}, op : {i.op}]
        PROVE  x = i
    BY <2>1
  <2>8. i \in [fmt : {"sp"}, offset : {i.offset}, op : {i.op}]
    BY <2>1
  <2> QED BY <2>6, <2>7, <2>8 DEF w
<1>5. CASE i \in [fmt : {"branch"}, op : BranchOps, target : Address]
  <2>1. /\ i.fmt = "branch" /\ i.op \in BranchOps
        /\ i = [fmt |-> "branch", target |-> i.target, op |-> i.op]
    BY <1>5
  <2>2. FormatOf(w) = 3 /\ OpcodeOf(w) = BranchOpcode(i.op) /\ Low(w) = i.target
    BY <1>1, <2>1 DEF FormatNumber, Opcode, Operand
  <2>3. ModifierOf(w) = 0
    BY <1>1, <2>1 DEF Modifier
  <2>4. {o \in BranchOps : BranchOpcode(o) = OpcodeOf(w)} = {i.op}
    BY <2>1, <2>2, OpcodesDiffer
  <2>5. ASSUME NEW x
        PROVE  x \in Readings(w) <=>
                 x \in [fmt : {"branch"}, target : {Low(w)},
                        op : {o \in BranchOps : BranchOpcode(o) = OpcodeOf(w)}]
    BY <2>2, <2>3 DEF Readings
  <2>6. ASSUME NEW x
        PROVE  x \in Readings(w) <=>
                 x \in [fmt : {"branch"}, target : {i.target}, op : {i.op}]
    BY <2>2, <2>3, <2>4, <2>5
  <2>7. ASSUME NEW x \in [fmt : {"branch"}, target : {i.target}, op : {i.op}]
        PROVE  x = i
    BY <2>1
  <2>8. i \in [fmt : {"branch"}, target : {i.target}, op : {i.op}]
    BY <2>1
  <2> QED BY <2>6, <2>7, <2>8 DEF w
<1>6. CASE i \in [fmt : {"system"}, op : SystemOps]
  <2>1. /\ i.fmt = "system" /\ i.op \in SystemOps
        /\ i = [fmt |-> "system", op |-> i.op]
    BY <1>6
  <2>2. FormatOf(w) = 4 /\ OpcodeOf(w) = SystemOpcode(i.op) /\ Low(w) = 0
    BY <1>1, <2>1 DEF FormatNumber, Opcode, Operand
  <2>3. ModifierOf(w) = 0
    BY <1>1, <2>1 DEF Modifier
  <2>4. {o \in SystemOps : SystemOpcode(o) = OpcodeOf(w)} = {i.op}
    BY <2>1, <2>2, OpcodesDiffer
  <2>5. ASSUME NEW x
        PROVE  x \in Readings(w) <=>
                 x \in [fmt : {"system"}, op : {o \in SystemOps : SystemOpcode(o) = OpcodeOf(w)}]
    BY <2>2, <2>3 DEF Readings
  <2>6. ASSUME NEW x
        PROVE  x \in Readings(w) <=>
                 x \in [fmt : {"system"}, op : {i.op}]
    BY <2>2, <2>3, <2>4, <2>5
  <2>7. ASSUME NEW x \in [fmt : {"system"}, op : {i.op}]
        PROVE  x = i
    BY <2>1
  <2>8. i \in [fmt : {"system"}, op : {i.op}]
    BY <2>1
  <2> QED BY <2>6, <2>7, <2>8 DEF w
<1> QED BY <1>2, <1>3, <1>4, <1>5, <1>6 DEF Instruction

(* Decoding the word of an instruction gives the instruction back          *)
(* (isa.rs:315 and 359).                                                   *)
THEOREM DecodeEncode == \A i \in Instruction : DecodeWord(Encode(i)) = i
<1>1. ASSUME NEW i \in Instruction
      PROVE  DecodeWord(Encode(i)) = i
  BY OneReading DEF DecodeWord
<1> QED BY <1>1

-----------------------------------------------------------------------------
(* A control half is put together again from its fields.                   *)
LEMMA ControlOfFields ==
  ASSUME NEW h \in Address
  PROVE  Control(h \div (OpcodeSize * ModifierSize), (h \div ModifierSize) % OpcodeSize,
                 h % ModifierSize) = h
<1> DEFINE P == OpcodeSize * ModifierSize
           q == h \div ModifierSize
           d == h % ModifierSize
           a == q \div OpcodeSize
           o == q % OpcodeSize
           r == o * ModifierSize + d
<1>1. /\ OpcodeSize \in Nat \ {0} /\ ModifierSize \in Nat \ {0} /\ h \in Nat
  BY EncodingAssumption, SizeFacts DEF Address
<1>2. h = q * ModifierSize + d /\ q \in Nat /\ d \in 0 .. ModifierSize - 1
  BY <1>1
<1> HIDE DEF q, d
<1>3. q = a * OpcodeSize + o /\ a \in Nat /\ o \in 0 .. OpcodeSize - 1
  BY <1>1, <1>2
<1> HIDE DEF a, o
<1>4. P \in Nat \ {0}
  BY <1>1
<1>5. r \in 0 .. P - 1
  <2>1. o * ModifierSize <= (OpcodeSize - 1) * ModifierSize
    BY <1>1, <1>3
  <2>2. (OpcodeSize - 1) * ModifierSize = P - ModifierSize
    BY <1>1
  <2>3. o * ModifierSize \in Nat
    BY <1>1, <1>3
  <2> QED BY <1>1, <1>2, <1>4, <2>1, <2>2, <2>3
<1>6. h = a * P + r
  BY <1>1, <1>2, <1>3
<1> HIDE DEF P, r
<1>7. h \div P = a
  BY <1>3, <1>4, <1>5, <1>6, DivMod
<1>8. Control(a, o, d) = h
  BY <1>2, <1>3 DEF Control
<1> QED BY <1>7, <1>8 DEF P, q, d, o

(* A reading is an instruction with the fields of the word.                *)
LEMMA ReadingFields ==
  ASSUME NEW w \in Word, NEW i \in Readings(w)
  PROVE  /\ i \in Instruction
         /\ FormatNumber(i.fmt) = FormatOf(w) /\ Opcode(i) = OpcodeOf(w)
         /\ Modifier(i) = ModifierOf(w) /\ Operand(i) = Low(w)
<1>1. Low(w) \in Address
  BY HalvesType
<1>2. CASE FormatOf(w) = 0
  <2>1. /\ ModifierOf(w) \in {0, 1}
        /\ i \in [fmt : {"memory"}, address : {Low(w)}, indirect : {ModifierOf(w) = 1}, op : {o \in MemoryOps : AccumulatorOpcode(o) = OpcodeOf(w)}]
    BY <1>2 DEF Readings
  <2>2. /\ i.fmt = "memory" /\ i.op \in MemoryOps /\ AccumulatorOpcode(i.op) = OpcodeOf(w)
        /\ i.address = Low(w)
        /\ i.indirect = (ModifierOf(w) = 1)
    BY <2>1
  <2>3. i \in Instruction
    BY <1>1, <2>1, <2>2 DEF Instruction
  <2>4. FormatNumber(i.fmt) = 0 /\ Opcode(i) = OpcodeOf(w) /\ Operand(i) = Low(w)
    BY <2>1, <2>2 DEF FormatNumber, Opcode, Operand
  <2>5. Modifier(i) = ModifierOf(w)
    BY <2>1, <2>2 DEF Modifier
  <2> QED BY <1>2, <2>3, <2>4, <2>5
<1>3. CASE FormatOf(w) = 1
  <2>1. /\ ModifierOf(w) = 0
        /\ i \in [fmt : {"immediate"}, value : {Low(w)}, op : {o \in ImmediateOps : AccumulatorOpcode(o) = OpcodeOf(w)}]
    BY <1>3 DEF Readings
  <2>2. /\ i.fmt = "immediate" /\ i.op \in ImmediateOps /\ AccumulatorOpcode(i.op) = OpcodeOf(w)
        /\ i.value = Low(w)
    BY <2>1
  <2>3. i \in Instruction
    BY <1>1, <2>1, <2>2 DEF Instruction
  <2>4. FormatNumber(i.fmt) = 1 /\ Opcode(i) = OpcodeOf(w) /\ Operand(i) = Low(w)
    BY <2>1, <2>2 DEF FormatNumber, Opcode, Operand
  <2>5. Modifier(i) = ModifierOf(w)
    BY <2>1, <2>2 DEF Modifier
  <2> QED BY <1>3, <2>3, <2>4, <2>5
<1>4. CASE FormatOf(w) = 2
  <2>1. /\ ModifierOf(w) = 0
        /\ i \in [fmt : {"sp"}, offset : {Low(w)}, op : {o \in SpOps : AccumulatorOpcode(o) = OpcodeOf(w)}]
    BY <1>4 DEF Readings
  <2>2. /\ i.fmt = "sp" /\ i.op \in SpOps /\ AccumulatorOpcode(i.op) = OpcodeOf(w)
        /\ i.offset = Low(w)
    BY <2>1
  <2>3. i \in Instruction
    BY <1>1, <2>1, <2>2 DEF Instruction
  <2>4. FormatNumber(i.fmt) = 2 /\ Opcode(i) = OpcodeOf(w) /\ Operand(i) = Low(w)
    BY <2>1, <2>2 DEF FormatNumber, Opcode, Operand
  <2>5. Modifier(i) = ModifierOf(w)
    BY <2>1, <2>2 DEF Modifier
  <2> QED BY <1>4, <2>3, <2>4, <2>5
<1>5. CASE FormatOf(w) = 3
  <2>1. /\ ModifierOf(w) = 0
        /\ i \in [fmt : {"branch"}, target : {Low(w)}, op : {o \in BranchOps : BranchOpcode(o) = OpcodeOf(w)}]
    BY <1>5 DEF Readings
  <2>2. /\ i.fmt = "branch" /\ i.op \in BranchOps /\ BranchOpcode(i.op) = OpcodeOf(w)
        /\ i.target = Low(w)
    BY <2>1
  <2>3. i \in Instruction
    BY <1>1, <2>1, <2>2 DEF Instruction
  <2>4. FormatNumber(i.fmt) = 3 /\ Opcode(i) = OpcodeOf(w) /\ Operand(i) = Low(w)
    BY <2>1, <2>2 DEF FormatNumber, Opcode, Operand
  <2>5. Modifier(i) = ModifierOf(w)
    BY <2>1, <2>2 DEF Modifier
  <2> QED BY <1>5, <2>3, <2>4, <2>5
<1>6. CASE FormatOf(w) = 4
  <2>1. /\ ModifierOf(w) = 0 /\ Low(w) = 0
        /\ i \in [fmt : {"system"}, op : {o \in SystemOps : SystemOpcode(o) = OpcodeOf(w)}]
    BY <1>6 DEF Readings
  <2>2. /\ i.fmt = "system" /\ i.op \in SystemOps /\ SystemOpcode(i.op) = OpcodeOf(w)
    BY <2>1
  <2>3. i \in Instruction
    BY <1>1, <2>1, <2>2 DEF Instruction
  <2>4. FormatNumber(i.fmt) = 4 /\ Opcode(i) = OpcodeOf(w) /\ Operand(i) = Low(w)
    BY <2>1, <2>2 DEF FormatNumber, Opcode, Operand
  <2>5. Modifier(i) = ModifierOf(w)
    BY <2>1, <2>2 DEF Modifier
  <2> QED BY <1>6, <2>3, <2>4, <2>5
<1>7. FormatOf(w) \in {0, 1, 2, 3, 4}
  BY DEF Readings
<1> QED BY <1>2, <1>3, <1>4, <1>5, <1>6, <1>7

(* decode rejects every word but the one encoding of each instruction: a   *)
(* word it accepts has no bits that the instruction it returns does not    *)
(* have (isa.rs:359).                                                      *)
THEOREM DecodeCanonical ==
  \A w \in Word :
    DecodeWord(w) # Illegal => DecodeWord(w) \in Instruction /\ Encode(DecodeWord(w)) = w
<1>1. ASSUME NEW w \in Word, DecodeWord(w) # Illegal
      PROVE  DecodeWord(w) \in Instruction /\ Encode(DecodeWord(w)) = w
  <2> DEFINE i == DecodeWord(w)
             h == High(w)
  <2>1. i \in Readings(w)
    BY <1>1 DEF DecodeWord
  <2> HIDE DEF i
  <2>2. /\ i \in Instruction
        /\ FormatNumber(i.fmt) = FormatOf(w) /\ Opcode(i) = OpcodeOf(w)
        /\ Modifier(i) = ModifierOf(w) /\ Operand(i) = Low(w)
    BY <2>1, ReadingFields
  <2>3. h \in Address /\ w = h * HalfSize + Low(w)
    <3>1. HalfSize \in Nat \ {0} /\ w \in Nat
      BY SizeFacts DEF Word
    <3>2. w = (w \div HalfSize) * HalfSize + (w % HalfSize)
      BY <3>1
    <3> QED BY <3>2, HalvesType DEF High, Low
  <2>4. Control(FormatOf(w), OpcodeOf(w), ModifierOf(w)) = h
    BY <2>3, ControlOfFields DEF FormatOf, OpcodeOf, ModifierOf
  <2> HIDE DEF h
  <2>5. Encode(i) = w
    BY <2>2, <2>3, <2>4 DEF Encode
  <2> QED BY <2>2, <2>5 DEF i
<1> QED BY <1>1

(* The decoder of isa.rs is one that the theorems about the processor are  *)
(* for: every word is an instruction or is rejected (CpuAssumption).       *)
THEOREM DecoderTotal == DecodeTable \in [Word -> Instruction \cup {Illegal}]
  BY DecodeCanonical DEF DecodeTable

-----------------------------------------------------------------------------
(* What an instruction resolves to.                                        *)

SymbolTable(symbols) ==
  /\ symbols = [l \in DOMAIN symbols |-> symbols[l]]
  /\ \A l \in DOMAIN symbols : symbols[l] \in Address

(* Results with and without an error.                                      *)
LEMMA Outcomes ==
  /\ \A v : Read(v).error = NoError /\ Read(v).v = v
  /\ \A e : Refuse(e).error = e
  /\ \A is : Instructions(is).error = NoError /\ Instructions(is).is = is
  /\ \A e : Reject(e).error = e
BY DEF Read, Refuse, Instructions, Reject

(* Every other error is an error.                                          *)
USE DEF NoError

(* A reading without an error is an address.                               *)
LEMMA SymbolOrAddressType ==
  ASSUME NEW o \in Operands, NEW symbols, SymbolTable(symbols),
         SymbolOrAddress(o, symbols).error = NoError
  PROVE  SymbolOrAddress(o, symbols).v \in Address
<1>1. CASE o \in [k : {"number"}, v : Int, hex : BOOLEAN, at : BOOLEAN]
  <2>1. o.k = "number" /\ o.at \in BOOLEAN
    BY <1>1
  <2>2. CASE o.at
    <3>1. SymbolOrAddress(o, symbols) = Refuse("InvalidNumber")
      BY <2>1, <2>2 DEF SymbolOrAddress
    <3> QED BY <3>1, Outcomes
  <2>3. CASE ~ o.at
    <3>1. SymbolOrAddress(o, symbols)
            = IF o.v \in Address THEN Read(o.v) ELSE Refuse("AddressOutOfRange")
      BY <2>1, <2>3 DEF SymbolOrAddress
    <3> QED BY <3>1, Outcomes
  <2> QED BY <2>1, <2>2, <2>3
<1>2. CASE o \in [k : {"name"}, name : STRING]
  <2>1. o.k = "name"
    BY <1>2
  <2>2. SymbolOrAddress(o, symbols)
          = IF o.name \in DOMAIN symbols THEN Read(symbols[o.name])
            ELSE Refuse("UndefinedSymbol")
    BY <2>1 DEF SymbolOrAddress
  <2> QED BY <2>2, Outcomes DEF SymbolTable
<1> QED BY <1>1, <1>2 DEF Operands

(* Nor does a number that fits leave the half word.                        *)
LEMMA FittingType ==
  ASSUME NEW o \in Operands, NEW fits, Fitting(o, fits).error = NoError
  PROVE  Fitting(o, fits).v \in Address
<1>1. o.k # "name" => o.v \in Int
  BY DEF Operands
<1>2. HalfSize \in Nat \ {0} /\ Address = 0 .. HalfSize - 1
  BY SizeFacts DEF Address
<1>3. CASE o.k = "name" \/ (o.k = "number" /\ o.at)
  BY <1>3, Outcomes DEF Fitting
<1>4. CASE ~ (o.k = "name" \/ (o.k = "number" /\ o.at)) /\ fits
  <2>1. Fitting(o, fits) = Read(o.v % HalfSize)
    BY <1>4 DEF Fitting
  <2>2. o.v \in Int
    BY <1>1, <1>4
  <2>3. o.v % HalfSize \in Address
    BY <1>2, <2>2
  <2> QED BY <2>1, <2>3, Outcomes
<1>5. CASE ~ (o.k = "name" \/ (o.k = "number" /\ o.at)) /\ ~ fits
  BY <1>5, Outcomes DEF Fitting
<1> QED BY <1>3, <1>4, <1>5

(* A resolution to a memory operation, direct or indirect.                 *)
ResolvedMemory(r, m, o, symbols) ==
  r = Memory(m, o, TRUE, symbols) \/ r = Memory(m, o, FALSE, symbols)

LEMMA MemoryType ==
  ASSUME NEW m, NEW o \in Operands, NEW symbols, SymbolTable(symbols), NEW r,
         ResolvedMemory(r, m, o, symbols), r.error = NoError
  PROVE  \E i \in Instruction : r = Instructions(<<i>>)
<1> DEFINE p == IF o.k = "number" THEN [o EXCEPT !.at = FALSE] ELSE o
           a == SymbolOrAddress(p, symbols)
           op == OpNamed(m, MemoryOps, Mnemonic)
           i(d) == [fmt |-> "memory", op |-> op, address |-> a.v, indirect |-> d]
<1>1. p \in Operands
  BY DEF Operands
<1>2. m \in Names(MemoryOps, Mnemonic)
  <2>1. m \notin Names(MemoryOps, Mnemonic) => r = Reject("UnknownMnemonic")
    BY DEF ResolvedMemory, Memory
  <2> QED BY <2>1, Outcomes
<1>3. op \in MemoryOps
  BY <1>2 DEF OpNamed, Names
<1>4. \/ r = IF a.error # NoError THEN Reject(a.error) ELSE Instructions(<<i(TRUE)>>)
      \/ r = IF a.error # NoError THEN Reject(a.error) ELSE Instructions(<<i(FALSE)>>)
  BY <1>2 DEF ResolvedMemory, Memory, Apply
<1> HIDE DEF p, op
<1>5. a.error = NoError
  BY <1>4, Outcomes
<1>6. a.v \in Address
  BY <1>1, <1>5, SymbolOrAddressType
<1> HIDE DEF a
<1>7. i(TRUE) \in Instruction /\ i(FALSE) \in Instruction
  BY <1>3, <1>6 DEF Instruction
<1> QED BY <1>4, <1>5, <1>7

LEMMA ImmediateType ==
  ASSUME NEW m, NEW o \in Operands, NEW r, r = Immediate(m, o), r.error = NoError
  PROVE  \E i \in Instruction : r = Instructions(<<i>>)
<1> DEFINE a == IF m \in {"AND", "OR", "XOR", "LDHI", "LDLO"} THEN Raw16(o) ELSE Signed16(o)
           op == OpNamed(m, ImmediateOps, Mnemonic)
           i == [fmt |-> "immediate", op |-> op, value |-> a.v]
<1>1. m \in Names(ImmediateOps, Mnemonic)
  BY DEF Immediate, Reject
<1>2. op \in ImmediateOps
  BY <1>1 DEF OpNamed, Names
<1>3. r = IF a.error # NoError THEN Reject(a.error) ELSE Instructions(<<i>>)
  BY <1>1 DEF Immediate, Apply
<1>4. a.error = NoError => a.v \in Address
  BY FittingType DEF Raw16, Signed16
<1> HIDE DEF a, op
<1>5. a.error = NoError
  BY <1>3, Outcomes
<1>6. i \in Instruction
  BY <1>2, <1>4, <1>5 DEF Instruction
<1> QED BY <1>3, <1>5, <1>6

(* An instruction that is resolved stands for two words if it is PUSH or   *)
(* POP and for one otherwise, instructions of the processor all of them.   *)
Expands(r, m) ==
  /\ m \in {"PUSH", "POP"} => \E i, j \in Instruction : r = Instructions(<<i, j>>)
  /\ m \notin {"PUSH", "POP"} => \E i \in Instruction : r = Instructions(<<i>>)

LEMMA ResolveInstructionType ==
  ASSUME NEW m \in STRING, NEW os \in Seq(Operands), NEW symbols, SymbolTable(symbols),
         NEW r, r = ResolveInstruction(m, os, symbols), r.error = NoError
  PROVE  Expands(r, m)
<1> USE DEF Expands
<1> DEFINE indirect == Len(os) = 2
           o == os[1]
<1>1. CASE m \in {"PUSH", "POP"}
  <2>1. r = Instructions(Expansion(m))
    BY <1>1 DEF ResolveInstruction, Reject
  <2>2. AdjSp(-1) \in Instruction /\ AdjSp(1) \in Instruction
    <3>1. (-1) % HalfSize \in Address /\ 1 % HalfSize \in Address
      <4>1. HalfSize \in Nat \ {0} /\ Address = 0 .. HalfSize - 1
        BY SizeFacts DEF Address
      <4> QED BY <4>1
    <3> QED BY <3>1 DEF AdjSp, Instruction, ImmediateOps
  <2>3. AtSp("ST") \in Instruction /\ AtSp("LD") \in Instruction
    <3>1. 0 \in Address
      <4>1. HalfSize \in Nat \ {0} /\ Address = 0 .. HalfSize - 1
        BY SizeFacts DEF Address
      <4> QED BY <4>1
    <3> QED BY <3>1 DEF AtSp, Instruction, SpOps, AluOps
  <2>4. CASE m = "PUSH"
    BY <2>1, <2>2, <2>3, <2>4 DEF Expansion
  <2>5. CASE m = "POP"
    BY <2>1, <2>2, <2>3, <2>5 DEF Expansion
  <2> QED BY <1>1, <2>4, <2>5
<1>2. CASE m \notin {"PUSH", "POP"} /\ m \in SystemOps
  <2>1. r = Instructions(<<[fmt |-> "system", op |-> m]>>)
    BY <1>2 DEF ResolveInstruction, Reject
  <2>2. [fmt |-> "system", op |-> m] \in Instruction
    BY <1>2 DEF Instruction
  <2> QED BY <1>2, <2>1, <2>2
<1>3. CASE m \notin {"PUSH", "POP"} /\ m \notin SystemOps
  <2>1. ~ (Len(os) \notin {1, 2} \/ (indirect /\ os[2] # Name("I")))
    BY <1>3 DEF ResolveInstruction, Reject
  <2>2. o \in Operands
    <3>1. Len(os) \in Nat /\ 1 <= Len(os)
      BY <2>1
    <3> QED BY <3>1
  <2> DEFINE relative == m \in Names(SpOps, SpMnemonic)
  <2>3. CASE m \in BranchOps
    <3> DEFINE a == SymbolOrAddress(o, symbols)
               i == [fmt |-> "branch", op |-> m, target |-> a.v]
    <3>1. ~ indirect
      BY <1>3, <2>1, <2>3 DEF ResolveInstruction, Reject
    <3>2. r = IF a.error # NoError THEN Reject(a.error) ELSE Instructions(<<i>>)
      BY <1>3, <2>1, <2>3, <3>1 DEF ResolveInstruction, Apply
    <3>3. a.error = NoError
      BY <3>2, Outcomes
    <3>4. a.v \in Address
      BY <2>2, <3>3, SymbolOrAddressType
    <3> HIDE DEF a
    <3>5. i \in Instruction
      BY <2>3, <3>4 DEF Instruction
    <3> QED BY <1>3, <3>2, <3>3, <3>5
  <2>4. CASE m \notin BranchOps /\ relative
    <3> DEFINE a == Signed16(o)
               op == OpNamed(m, SpOps, SpMnemonic)
               i == [fmt |-> "sp", op |-> op, offset |-> a.v]
    <3>1. ~ indirect
      BY <1>3, <2>1, <2>4 DEF ResolveInstruction, Reject
    <3>2. r = IF a.error # NoError THEN Reject(a.error) ELSE Instructions(<<i>>)
      BY <1>3, <2>1, <2>4, <3>1 DEF ResolveInstruction, Apply
    <3>3. op \in SpOps
      BY <2>4 DEF OpNamed, Names
    <3>4. a.error = NoError => a.v \in Address
      BY <2>2, FittingType DEF Signed16
    <3> HIDE DEF a, op
    <3>5. a.error = NoError
      BY <3>2, Outcomes
    <3>6. i \in Instruction
      BY <3>3, <3>4, <3>5 DEF Instruction
    <3> QED BY <1>3, <3>2, <3>5, <3>6
  <2>5. CASE m \notin BranchOps /\ ~ relative
    <3>1. r = Immediate(m, o) \/ ResolvedMemory(r, m, o, symbols)
      BY <1>3, <2>1, <2>5 DEF ResolveInstruction, Reject, ResolvedMemory
    <3>2. CASE r = Immediate(m, o)
      BY <1>3, <2>2, <3>2, ImmediateType
    <3>3. CASE ResolvedMemory(r, m, o, symbols)
      BY <1>3, <2>2, <3>3, MemoryType
    <3> QED BY <1>3, <3>1, <3>2, <3>3
  <2> HIDE DEF relative
  <2> QED BY <2>3, <2>4, <2>5
<1> QED BY <1>1, <1>2, <1>3

-----------------------------------------------------------------------------
(* What a statement resolves to.                                           *)

CellKind == {"instruction", "data", "symbol"}
Cells    == [word : Word, kind : CellKind, instruction : Instruction \cup {Illegal}]

(* The words of an instruction, each with the instruction it decodes to.   *)
LEMMA InstructionCells ==
  ASSUME NEW i \in Instruction
  PROVE  /\ Cell(Encode(i), "instruction", DecodeWord(Encode(i))) \in Cells
         /\ DecodeWord(Cell(Encode(i), "instruction", DecodeWord(Encode(i))).word) = i
<1>1. Encode(i) \in Word
  BY EncodedFields
<1>2. DecodeWord(Encode(i)) = i
  BY DecodeEncode
<1> QED BY <1>1, <1>2 DEF Cell, Cells, CellKind

(* A cell means what a statement says at this place of its expansion.      *)
CellMeans(c, st, symbols, e) ==
  c.kind = "instruction" =>
    DecodeWord(c.word) = ResolveInstruction(st.m, st.operands, symbols).is[e + 1]

LEMMA DataCellType ==
  ASSUME NEW fits, NEW v \in Int, DataCell(fits, v).error = NoError
  PROVE  /\ DataCell(fits, v).cells = <<Cell(v % WordSize, "data", Illegal)>>
         /\ Cell(v % WordSize, "data", Illegal) \in Cells
<1>1. v % WordSize \in Word
  <2>1. WordSize \in Nat \ {0} /\ Word = 0 .. WordSize - 1
    BY SizeFacts DEF Word
  <2> QED BY <2>1
<1>2. CASE fits
  BY <1>1, <1>2 DEF DataCell, Resolved, Cell, Cells, CellKind
<1>3. CASE ~ fits
  BY <1>3 DEF DataCell, Unresolvable
<1> QED BY <1>2, <1>3

(* A statement that is resolved has as many words as the first pass counts *)
(* for it.                                                                 *)
LEMMA ResolveType ==
  ASSUME NEW st \in Statements, st # NoStatement, NEW symbols, SymbolTable(symbols),
         NEW r, r = Resolve(st, symbols), r.error = NoError
  PROVE  /\ Words(st) \in {1, 2}
         /\ r.cells \in Seq(Cells) /\ Len(r.cells) = Words(st)
         /\ \A e \in 0 .. Words(st) - 1 :
              CellMeans(r.cells[e + 1], st, symbols, e)
<1>1. CASE st \in [k : {"hex"}, v : Int]
  <2>1. st.k = "hex" /\ st.v \in Int
    BY <1>1
  <2>2. r = DataCell(st.v \in Word, st.v)
    BY <2>1 DEF Resolve
  <2> DEFINE c == Cell(st.v % WordSize, "data", Illegal)
  <2>3. r.cells = <<c>> /\ c \in Cells
    BY <2>1, <2>2, DataCellType
  <2>4. c.kind = "data"
    BY DEF Cell
  <2>5. Words(st) = 1
    BY <2>1 DEF Words
  <2> HIDE DEF c
  <2> QED BY <2>3, <2>4, <2>5 DEF CellMeans
<1>2. CASE st \in [k : {"dec"}, v : Int]
  <2>1. st.k = "dec" /\ st.v \in Int
    BY <1>2
  <2>2. r = DataCell(st.v \in -HalfWord .. HalfWord - 1, st.v)
    BY <2>1 DEF Resolve
  <2> DEFINE c == Cell(st.v % WordSize, "data", Illegal)
  <2>3. r.cells = <<c>> /\ c \in Cells
    BY <2>1, <2>2, DataCellType
  <2>4. c.kind = "data"
    BY DEF Cell
  <2>5. Words(st) = 1
    BY <2>1 DEF Words
  <2> HIDE DEF c
  <2> QED BY <2>3, <2>4, <2>5 DEF CellMeans
<1>3. CASE st \in [k : {"sym"}, operand : Operands]
  <2>1. st.k = "sym" /\ st.operand \in Operands
    BY <1>3
  <2> DEFINE a == SymbolOrAddress(st.operand, symbols)
             c == Cell(a.v, "symbol", Illegal)
  <2>2. r = IF a.error # NoError THEN Unresolvable(a.error) ELSE Resolved(<<c>>)
    BY <2>1 DEF Resolve
  <2>3. Words(st) = 1
    BY <2>1 DEF Words
  <2>4. c.kind = "symbol"
    BY DEF Cell
  <2>5. a.error = NoError => a.v \in Address
    BY <2>1, SymbolOrAddressType
  <2> HIDE DEF a
  <2>6. a.error = NoError
    BY <2>2 DEF Unresolvable
  <2>7. r.cells = <<c>>
    BY <2>2, <2>6 DEF Resolved
  <2>8. c \in Cells
    BY <2>5, <2>6, AddressIsWord DEF Cell, Cells, CellKind
  <2> HIDE DEF c
  <2> QED BY <2>3, <2>4, <2>7, <2>8 DEF CellMeans
<1>4. CASE st \in [k : {"instruction"}, m : STRING, operands : Seq(Operands)]
  <2>1. st.k = "instruction" /\ st.m \in STRING /\ st.operands \in Seq(Operands)
    BY <1>4
  <2> DEFINE is == ResolveInstruction(st.m, st.operands, symbols)
             c(i) == Cell(Encode(i), "instruction", DecodeWord(Encode(i)))
  <2>2. r = IF is.error # NoError THEN Unresolvable(is.error)
            ELSE Resolved([n \in DOMAIN is.is |-> c(is.is[n])])
    BY <2>1 DEF Resolve
  <2>3. is.error = NoError => Expands(is, st.m)
    <3> DEFINE m == st.m
               os == st.operands
    <3>1. m \in STRING /\ os \in Seq(Operands) /\ is = ResolveInstruction(m, os, symbols)
      BY <2>1
    <3> HIDE DEF is, m, os
    <3> QED BY <3>1, ResolveInstructionType DEF m
  <2>4. \A i \in Instruction : c(i) \in Cells /\ DecodeWord(c(i).word) = i
    BY InstructionCells
  <2>5. \A d, e : DecodeWord(d.word) = is.is[e + 1] => CellMeans(d, st, symbols, e)
    BY DEF CellMeans
  <2> HIDE DEF is, c
  <2>7. is.error = NoError
    BY <2>2 DEF Unresolvable
  <2>8. r.cells = [n \in DOMAIN is.is |-> c(is.is[n])]
    BY <2>2, <2>7 DEF Resolved
  <2>9. CASE st.m \in {"PUSH", "POP"}
    <3>1. PICK i \in Instruction, j \in Instruction : is = Instructions(<<i, j>>)
      BY <2>3, <2>7, <2>9 DEF Expands
    <3>2. is.is = <<i, j>>
      BY <3>1, Outcomes
    <3>3. r.cells = <<c(i), c(j)>>
      BY <2>8, <3>2
    <3>4. Words(st) = 2
      BY <2>1, <2>9 DEF Words
    <3>5. /\ c(i) \in Cells /\ c(j) \in Cells
          /\ DecodeWord(c(i).word) = i /\ DecodeWord(c(j).word) = j
      BY <2>4
    <3>6. CellMeans(c(i), st, symbols, 0)
      BY <2>5, <3>2, <3>5
    <3>7. CellMeans(c(j), st, symbols, 1)
      BY <2>5, <3>2, <3>5
    <3>8. r.cells \in Seq(Cells) /\ Len(r.cells) = 2
      BY <3>3, <3>5
    <3>9. ASSUME NEW e \in 0 .. Words(st) - 1
          PROVE  CellMeans(r.cells[e + 1], st, symbols, e)
      <4>1. CASE e = 0
        BY <3>3, <3>6, <4>1
      <4>2. CASE e = 1
        BY <3>3, <3>7, <4>2
      <4> QED BY <3>4, <3>9, <4>1, <4>2
    <3> QED BY <3>4, <3>8, <3>9
  <2>10. CASE st.m \notin {"PUSH", "POP"}
    <3>1. PICK i \in Instruction : is = Instructions(<<i>>)
      BY <2>3, <2>7, <2>10 DEF Expands
    <3>2. is.is = <<i>>
      BY <3>1, Outcomes
    <3>3. r.cells = <<c(i)>>
      BY <2>8, <3>2
    <3>4. Words(st) = 1
      BY <2>1, <2>10 DEF Words
    <3>5. c(i) \in Cells /\ DecodeWord(c(i).word) = i
      BY <2>4
    <3>6. CellMeans(c(i), st, symbols, 0)
      BY <2>5, <3>2, <3>5
    <3>7. r.cells \in Seq(Cells) /\ Len(r.cells) = 1
      BY <3>3, <3>5
    <3>8. ASSUME NEW e \in 0 .. Words(st) - 1
          PROVE  CellMeans(r.cells[e + 1], st, symbols, e)
      <4>1. e = 0
        BY <3>4, <3>8
      <4> QED BY <3>3, <3>6, <4>1
    <3> QED BY <3>4, <3>7, <3>8
  <2> QED BY <2>9, <2>10
<1> QED BY <1>1, <1>2, <1>3, <1>4 DEF Statements

-----------------------------------------------------------------------------
(* Induction over the natural numbers, for a set of them.                  *)

Before == OpToRel(<, Nat)

LEMMA SetInduction ==
  ASSUME NEW S, 0 \in S, \A n \in Nat : n \in S => n + 1 \in S
  PROVE  Nat \subseteq S
<1> DEFINE T == Nat \ S
<1>1. SUFFICES ASSUME T # {} PROVE FALSE
  OBVIOUS
<1>2. IsWellFoundedOn(Before, Nat)
  BY NatLessThanWellFounded DEF OpToRel, Before
<1>3. PICK n \in T : \A m \in T : <<m, n>> \notin Before
  <2>1. T \in SUBSET Nat
    OBVIOUS
  <2> HIDE DEF T
  <2> QED BY <1>1, <1>2, <2>1, WFMin
<1>4. n \in Nat /\ n # 0 /\ n \notin S
  OBVIOUS
<1>5. n - 1 \in Nat /\ n - 1 < n
  BY <1>4
<1>6. n - 1 \notin T
  BY <1>3, <1>4, <1>5 DEF Before, OpToRel
<1>7. (n - 1) + 1 \in S
  BY <1>5, <1>6
<1> QED BY <1>4, <1>5, <1>7

-----------------------------------------------------------------------------
(* Where the lines of a text begin: the location counter the two passes    *)
(* share, and behind the ORG of a line.                                    *)

Here(at, line)   == IF line.org \in Address THEN line.org ELSE at
Behind(at, line) == Here(at, line) + WordsOf(line)

Starts(text) ==
  LET start[k \in 0 .. Len(text)] ==
        IF k = 0 THEN 0 ELSE Behind(start[k - 1], text[k])
  IN  start

(* The counter before line k.                                              *)
Start(text, k) == Starts(text)[k - 1]

LEMMA WordsType ==
  ASSUME NEW line \in SourceLine
  PROVE  WordsOf(line) \in {0, 1, 2} /\ (line.st # NoStatement => WordsOf(line) = Words(line.st))
BY DEF WordsOf, Words

LEMMA BehindType ==
  ASSUME NEW line \in SourceLine, NEW at \in Nat
  PROVE  Here(at, line) \in Nat /\ Behind(at, line) \in Nat
<1>1. Address \subseteq Nat
  BY SizeFacts DEF Address
<1>2. Here(at, line) \in Nat
  BY <1>1 DEF Here
<1>3. WordsOf(line) \in {0, 1, 2}
  BY WordsType
<1> QED BY <1>2, <1>3 DEF Behind

LEMMA StartsFacts ==
  ASSUME NEW text \in Seq(SourceLine)
  PROVE  /\ Start(text, 1) = 0
         /\ \A k \in 1 .. Len(text) :
              Start(text, k + 1) = Behind(Start(text, k), text[k])
         /\ \A k \in 1 .. Len(text) + 1 : Start(text, k) \in Nat
<1> DEFINE start[k \in 0 .. Len(text)] ==
             IF k = 0 THEN 0 ELSE Behind(start[k - 1], text[k])
           Table(f, n) ==
             f = [k \in 0 .. n |-> IF k = 0 THEN 0 ELSE Behind(f[k - 1], text[k])]
           S == {n \in Nat : \E f : Table(f, n)}
<1>1. Starts(text) = start
  BY DEF Starts
<1>2. start = CHOOSE f : Table(f, Len(text))
  OBVIOUS
<1> HIDE DEF start
<1>3. 0 \in S
  <2>1. Table([k \in 0 .. 0 |-> 0], 0)
    OBVIOUS
  <2> HIDE DEF Table
  <2> QED BY <2>1
<1>4. ASSUME NEW n \in Nat, n \in S
      PROVE  n + 1 \in S
  <2>1. PICK f : Table(f, n)
    BY <1>4
  <2> DEFINE g == [k \in 0 .. n + 1 |-> IF k <= n THEN f[k] ELSE Behind(f[n], text[n + 1])]
  <2>2. \A k \in 0 .. n : g[k] = f[k]
    OBVIOUS
  <2>3. g[n + 1] = Behind(f[n], text[n + 1])
    OBVIOUS
  <2>4. ASSUME NEW k \in 0 .. n + 1
        PROVE  g[k] = IF k = 0 THEN 0 ELSE Behind(g[k - 1], text[k])
    <3>1. CASE k = 0
      BY <2>1, <2>2, <3>1
    <3>2. CASE k \in 1 .. n
      <4>1. f[k] = Behind(f[k - 1], text[k])
        BY <2>1, <3>2
      <4>2. g[k] = f[k] /\ g[k - 1] = f[k - 1]
        BY <2>2, <3>2
      <4> HIDE DEF g
      <4> QED BY <3>2, <4>1, <4>2
    <3>3. CASE k = n + 1
      <4>1. g[k - 1] = f[n]
        BY <2>2, <3>3
      <4> HIDE DEF g
      <4> QED BY <2>3, <3>3, <4>1
    <3> QED BY <3>1, <3>2, <3>3
  <2>5. g = [k \in 0 .. n + 1 |-> g[k]]
    OBVIOUS
  <2> HIDE DEF g
  <2>6. Table(g, n + 1)
    BY <2>4, <2>5
  <2> HIDE DEF Table
  <2> QED BY <2>6
<1>5. Len(text) \in S
  <2> HIDE DEF S
  <2> QED BY <1>3, <1>4, SetInduction
<1>6. Table(start, Len(text))
  <2> HIDE DEF Table
  <2> QED BY <1>2, <1>5
<1>7. /\ start[0] = 0
      /\ \A k \in 1 .. Len(text) : start[k] = Behind(start[k - 1], text[k])
  BY <1>6
<1> HIDE DEF S, Table
<1> DEFINE R == {n \in Nat : n <= Len(text) => start[n] \in Nat}
<1>8. 0 \in R
  BY <1>7
<1>9. ASSUME NEW n \in Nat, n \in R
      PROVE  n + 1 \in R
  <2>1. SUFFICES ASSUME n + 1 <= Len(text) PROVE start[n + 1] \in Nat
    OBVIOUS
  <2>2. start[n] \in Nat /\ n + 1 \in 1 .. Len(text)
    BY <1>9, <2>1
  <2>3. start[n + 1] = Behind(start[n], text[n + 1])
    BY <1>7, <2>2
  <2>4. text[n + 1] \in SourceLine
    BY <2>2
  <2> QED BY <2>2, <2>3, <2>4, BehindType
<1>10. Nat \subseteq R
  <2> HIDE DEF R
  <2> QED BY <1>8, <1>9, SetInduction
<1>11. \A k \in 1 .. Len(text) + 1 : start[k - 1] \in Nat
  BY <1>10
<1>12. \A k \in 1 .. Len(text) : start[(k + 1) - 1] = Behind(start[k - 1], text[k])
  BY <1>7
<1> QED BY <1>1, <1>7, <1>11, <1>12 DEF Start

-----------------------------------------------------------------------------
(* The state of a pass, and what the parts of a line do to it.             *)

Placed == [address : Address, word : Word, kind : CellKind, line : Nat,
           expansion : {0, 1}, instruction : Instruction \cup {Illegal}]

AssemblyType(s) ==
  /\ s = [lc |-> s.lc, symbols |-> s.symbols, cells |-> s.cells, errors |-> s.errors]
  /\ s.lc \in Nat
  /\ SymbolTable(s.symbols)
  /\ s.cells \in Seq(Placed)
  /\ \E E : s.errors \in Seq(E)

(* t is s with perhaps more errors and another location counter.           *)
SameWork(s, t) ==
  /\ t.symbols = s.symbols /\ t.cells = s.cells
  /\ t.errors = << >> => s.errors = << >>

LEMMA FailEffect ==
  ASSUME NEW s, AssemblyType(s), NEW e, NEW t, t = Fail(s, e)
  PROVE  AssemblyType(t) /\ SameWork(s, t) /\ t.lc = s.lc /\ t.errors # << >>
<1>1. t = [lc |-> s.lc, symbols |-> s.symbols, cells |-> s.cells,
           errors |-> Append(s.errors, e)]
  BY DEF Fail, AssemblyType
<1>2. /\ t.lc = s.lc /\ t.symbols = s.symbols /\ t.cells = s.cells
      /\ t.errors = Append(s.errors, e)
      /\ t = [lc |-> t.lc, symbols |-> t.symbols, cells |-> t.cells, errors |-> t.errors]
  BY <1>1
<1>3. PICK E : s.errors \in Seq(E)
  BY DEF AssemblyType
<1>4. s.errors \in Seq(E \cup {e}) /\ e \in E \cup {e}
  BY <1>3
<1>5. t.errors \in Seq(E \cup {e}) /\ t.errors # << >>
  <2> DEFINE q == s.errors
             S == E \cup {e}
  <2>1. q \in Seq(S) /\ e \in S /\ t.errors = Append(q, e)
    BY <1>2, <1>4
  <2> HIDE DEF q, S
  <2>2. Append(q, e) \in Seq(S) /\ Append(q, e) # << >>
    BY <2>1, AppendProperties
  <2> QED BY <2>1, <2>2 DEF S
<1> QED BY <1>2, <1>5 DEF AssemblyType, SameWork

(* Moving the location counter.                                            *)
LEMMA MoveEffect ==
  ASSUME NEW s, AssemblyType(s), NEW a \in Nat, NEW t, t = [s EXCEPT !.lc = a]
  PROVE  AssemblyType(t) /\ SameWork(s, t) /\ t.lc = a /\ t.errors = s.errors
<1>1. t = [lc |-> a, symbols |-> s.symbols, cells |-> s.cells, errors |-> s.errors]
  BY DEF AssemblyType
<1>2. /\ t.lc = a /\ t.symbols = s.symbols /\ t.cells = s.cells
      /\ t.errors = s.errors
      /\ t = [lc |-> t.lc, symbols |-> t.symbols, cells |-> t.cells, errors |-> t.errors]
  BY <1>1
<1> QED BY <1>2 DEF AssemblyType, SameWork

LEMMA OrgEffect ==
  ASSUME NEW s, AssemblyType(s), NEW line \in SourceLine, NEW t, t = Org(s, line)
  PROVE  AssemblyType(t) /\ SameWork(s, t) /\ t.lc = Here(s.lc, line)
<1>1. Address \subseteq Nat /\ NoOrg \notin Address
  BY SizeFacts DEF Address, NoOrg
<1>2. CASE line.org = NoOrg
  <2>1. t = s /\ Here(s.lc, line) = s.lc
    BY <1>1, <1>2 DEF Org, Here
  <2> QED BY <2>1 DEF SameWork
<1>3. CASE line.org # NoOrg /\ line.org \in Address
  <2>1. t = [s EXCEPT !.lc = line.org] /\ Here(s.lc, line) = line.org
    BY <1>3 DEF Org, Here
  <2>2. line.org \in Nat
    BY <1>1, <1>3
  <2> QED BY <2>1, <2>2, MoveEffect
<1>4. CASE line.org # NoOrg /\ line.org \notin Address
  <2>1. t = Fail(s, "AddressOutOfRange") /\ Here(s.lc, line) = s.lc
    BY <1>4 DEF Org, Here
  <2> QED BY <2>1, FailEffect
<1> QED BY <1>2, <1>3, <1>4

(* A label that is defined means the location counter, and no label that   *)
(* was there changes its meaning.                                          *)
Keeps(s, t) ==
  \A x \in DOMAIN s.symbols : x \in DOMAIN t.symbols /\ t.symbols[x] = s.symbols[x]

LEMMA LabelEffect ==
  ASSUME NEW s, AssemblyType(s), NEW l, NEW t, t = DefineLabel(s, l)
  PROVE  /\ AssemblyType(t) /\ t.lc = s.lc /\ t.cells = s.cells /\ Keeps(s, t)
         /\ t.errors = << >> =>
              s.errors = << >> /\ l \in DOMAIN t.symbols /\ t.symbols[l] = s.lc
<1>1. ASSUME NEW e, t = Fail(s, e)
      PROVE  /\ AssemblyType(t) /\ t.lc = s.lc /\ t.cells = s.cells /\ Keeps(s, t)
             /\ t.errors # << >>
  BY <1>1, FailEffect DEF SameWork, Keeps
<1>2. CASE t = [s EXCEPT !.symbols = WithSymbol(@, l, s.lc)] /\ s.lc \in Address
           /\ l \notin DOMAIN s.symbols
  <2> DEFINE new == WithSymbol(s.symbols, l, s.lc)
  <2>1. t = [lc |-> s.lc, symbols |-> new, cells |-> s.cells, errors |-> s.errors]
    BY <1>2 DEF AssemblyType
  <2>2. /\ new = [x \in DOMAIN new |-> new[x]]
        /\ DOMAIN new = DOMAIN s.symbols \cup {l}
        /\ new[l] = s.lc
        /\ \A x \in DOMAIN s.symbols : x # l /\ new[x] = s.symbols[x]
    BY <1>2 DEF WithSymbol
  <2> HIDE DEF new
  <2>3. SymbolTable(new)
    <3>1. \A x \in DOMAIN new : new[x] \in Address
      BY <1>2, <2>2 DEF AssemblyType, SymbolTable
    <3> QED BY <2>2, <3>1 DEF SymbolTable
  <2>4. /\ t.lc = s.lc /\ t.symbols = new /\ t.cells = s.cells /\ t.errors = s.errors
        /\ t = [lc |-> t.lc, symbols |-> t.symbols, cells |-> t.cells, errors |-> t.errors]
    BY <2>1
  <2> QED BY <2>2, <2>3, <2>4 DEF AssemblyType, Keeps
<1>3. CASE l = "I"
  <2>1. t = Fail(s, "Syntax")
    BY <1>3 DEF DefineLabel
  <2> QED BY <1>1, <2>1
<1>4. CASE l # "I" /\ l \in DOMAIN s.symbols
  <2>1. t = Fail(s, "DuplicateLabel")
    BY <1>4 DEF DefineLabel
  <2> QED BY <1>1, <2>1
<1>5. CASE l # "I" /\ l \notin DOMAIN s.symbols /\ s.lc \notin Address
  <2>1. t = Fail(s, "AddressOutOfRange")
    BY <1>5 DEF DefineLabel
  <2> QED BY <1>1, <2>1
<1>6. CASE l # "I" /\ l \notin DOMAIN s.symbols /\ s.lc \in Address
  <2>1. t = [s EXCEPT !.symbols = WithSymbol(@, l, s.lc)]
    BY <1>6 DEF DefineLabel
  <2> QED BY <1>2, <1>6, <2>1
<1> QED BY <1>3, <1>4, <1>5, <1>6

(* All labels of a line mean the location counter.                         *)
LEMMA LabelsEffect ==
  ASSUME NEW s, AssemblyType(s), NEW labels \in Seq(STRING), NEW t, t = DefineLabels(s, labels)
  PROVE  /\ AssemblyType(t) /\ t.lc = s.lc /\ t.cells = s.cells /\ Keeps(s, t)
         /\ t.errors = << >> =>
              /\ s.errors = << >>
              /\ \A i \in DOMAIN labels :
                   labels[i] \in DOMAIN t.symbols /\ t.symbols[labels[i]] = s.lc
<1> DEFINE after[n \in 0 .. Len(labels)] ==
             IF n = 0 THEN s ELSE DefineLabel(after[n - 1], labels[n])
           Table(f, n) ==
             f = [k \in 0 .. n |-> IF k = 0 THEN s ELSE DefineLabel(f[k - 1], labels[k])]
           S == {n \in Nat : \E f : Table(f, n)}
<1>1. t = after[Len(labels)]
  BY DEF DefineLabels
<1>2. after = CHOOSE f : Table(f, Len(labels))
  OBVIOUS
<1> HIDE DEF after
<1>3. 0 \in S
  <2>1. Table([k \in 0 .. 0 |-> s], 0)
    OBVIOUS
  <2> HIDE DEF Table
  <2> QED BY <2>1
<1>4. ASSUME NEW n \in Nat, n \in S
      PROVE  n + 1 \in S
  <2>1. PICK f : Table(f, n)
    BY <1>4
  <2> DEFINE g == [k \in 0 .. n + 1 |-> IF k <= n THEN f[k] ELSE DefineLabel(f[n], labels[n + 1])]
  <2>2. \A k \in 0 .. n : g[k] = f[k]
    OBVIOUS
  <2>3. g[n + 1] = DefineLabel(f[n], labels[n + 1])
    OBVIOUS
  <2>4. ASSUME NEW k \in 0 .. n + 1
        PROVE  g[k] = IF k = 0 THEN s ELSE DefineLabel(g[k - 1], labels[k])
    <3>1. CASE k = 0
      BY <2>1, <2>2, <3>1
    <3>2. CASE k \in 1 .. n
      <4>1. f[k] = DefineLabel(f[k - 1], labels[k])
        BY <2>1, <3>2
      <4>2. g[k] = f[k] /\ g[k - 1] = f[k - 1]
        BY <2>2, <3>2
      <4> HIDE DEF g
      <4> QED BY <3>2, <4>1, <4>2
    <3>3. CASE k = n + 1
      <4>1. g[k - 1] = f[n]
        BY <2>2, <3>3
      <4> HIDE DEF g
      <4> QED BY <2>3, <3>3, <4>1
    <3> QED BY <3>1, <3>2, <3>3
  <2>5. g = [k \in 0 .. n + 1 |-> g[k]]
    OBVIOUS
  <2> HIDE DEF g
  <2>6. Table(g, n + 1)
    BY <2>4, <2>5
  <2> HIDE DEF Table
  <2> QED BY <2>6
<1>5. Len(labels) \in S
  <2> HIDE DEF S
  <2> QED BY <1>3, <1>4, SetInduction
<1>6. Table(after, Len(labels))
  <2> HIDE DEF Table
  <2> QED BY <1>2, <1>5
<1>7. /\ after[0] = s
      /\ \A k \in 1 .. Len(labels) : after[k] = DefineLabel(after[k - 1], labels[k])
  BY <1>6
<1> HIDE DEF S, Table
<1> DEFINE Good(n, u) ==
             /\ AssemblyType(u) /\ u.lc = s.lc /\ u.cells = s.cells /\ Keeps(s, u)
             /\ u.errors = << >> =>
                  /\ s.errors = << >>
                  /\ \A i \in 1 .. n :
                       labels[i] \in DOMAIN u.symbols /\ u.symbols[labels[i]] = s.lc
           R == {n \in Nat : n <= Len(labels) => Good(n, after[n])}
<1>8. 0 \in R
  BY <1>7 DEF Keeps
<1>9. ASSUME NEW n \in Nat, n \in R
      PROVE  n + 1 \in R
  <2> DEFINE u == after[n]
             v == after[n + 1]
             l == labels[n + 1]
  <2>1. SUFFICES ASSUME n + 1 <= Len(labels) PROVE Good(n + 1, v)
    OBVIOUS
  <2>2. Good(n, u) /\ n + 1 \in 1 .. Len(labels)
    BY <1>9, <2>1
  <2>3. v = DefineLabel(u, l)
    BY <1>7, <2>2
  <2> HIDE DEF u, v, l
  <2>4. /\ AssemblyType(v) /\ v.lc = u.lc /\ v.cells = u.cells /\ Keeps(u, v)
        /\ v.errors = << >> =>
             u.errors = << >> /\ l \in DOMAIN v.symbols /\ v.symbols[l] = u.lc
    BY <2>2, <2>3, LabelEffect
  <2>5. Keeps(s, v)
    BY <2>2, <2>4 DEF Keeps
  <2>6. ASSUME v.errors = << >>, NEW i \in 1 .. n + 1
        PROVE  labels[i] \in DOMAIN v.symbols /\ v.symbols[labels[i]] = s.lc
    <3>1. CASE i = n + 1
      BY <2>2, <2>4, <2>6, <3>1 DEF l
    <3>2. CASE i \in 1 .. n
      <4>1. labels[i] \in DOMAIN u.symbols /\ u.symbols[labels[i]] = s.lc
        BY <2>2, <2>4, <2>6, <3>2
      <4> QED BY <2>4, <4>1 DEF Keeps
    <3> QED BY <3>1, <3>2
  <2> QED BY <2>2, <2>4, <2>5, <2>6
<1>10. Nat \subseteq R
  <2> HIDE DEF R
  <2> QED BY <1>8, <1>9, SetInduction
<1>11. Good(Len(labels), t) /\ DOMAIN labels = 1 .. Len(labels)
  BY <1>1, <1>10
<1> QED BY <1>11

LEMMA Pass1Effect ==
  ASSUME NEW s, AssemblyType(s), NEW line \in SourceLine, NEW t, t = Pass1Line(s, line)
  PROVE  /\ AssemblyType(t) /\ t.lc = Behind(s.lc, line) /\ t.cells = s.cells /\ Keeps(s, t)
         /\ t.errors = << >> =>
              /\ s.errors = << >>
              /\ \A i \in DOMAIN line.labels :
                   /\ line.labels[i] \in DOMAIN t.symbols
                   /\ t.symbols[line.labels[i]] = Here(s.lc, line)
<1> DEFINE u == Org(s, line)
           v == DefineLabels(u, line.labels)
<1>1. t = [v EXCEPT !.lc = @ + WordsOf(line)]
  BY DEF Pass1Line
<1>2. line.labels \in Seq(STRING)
  BY DEF SourceLine
<1> HIDE DEF u
<1>3. AssemblyType(u) /\ SameWork(s, u) /\ u.lc = Here(s.lc, line)
  BY OrgEffect DEF u
<1> HIDE DEF v
<1>4. /\ AssemblyType(v) /\ v.lc = u.lc /\ v.cells = u.cells /\ Keeps(u, v)
      /\ v.errors = << >> =>
           /\ u.errors = << >>
           /\ \A i \in DOMAIN line.labels :
                /\ line.labels[i] \in DOMAIN v.symbols
                /\ v.symbols[line.labels[i]] = u.lc
  BY <1>2, <1>3, LabelsEffect DEF v
<1>5. v.lc + WordsOf(line) \in Nat /\ v.lc + WordsOf(line) = Behind(s.lc, line)
  <2>1. v.lc \in Nat /\ WordsOf(line) \in {0, 1, 2}
    BY <1>4, WordsType DEF AssemblyType
  <2> QED BY <1>3, <1>4, <2>1 DEF Behind
<1>6. t = [v EXCEPT !.lc = v.lc + WordsOf(line)]
  BY <1>1
<1>7. AssemblyType(t) /\ SameWork(v, t) /\ t.lc = v.lc + WordsOf(line)
  BY <1>4, <1>5, <1>6, MoveEffect
<1>8. t.cells = s.cells /\ Keeps(s, t)
  BY <1>3, <1>4, <1>7 DEF SameWork, Keeps
<1>9. ASSUME t.errors = << >>
      PROVE  /\ s.errors = << >>
             /\ \A i \in DOMAIN line.labels :
                  /\ line.labels[i] \in DOMAIN t.symbols
                  /\ t.symbols[line.labels[i]] = Here(s.lc, line)
  <2>1. v.errors = << >> /\ t.symbols = v.symbols
    BY <1>7, <1>9 DEF SameWork
  <2>2. u.errors = << >>
    BY <1>4, <2>1
  <2> QED BY <1>3, <1>4, <2>1, <2>2 DEF SameWork
<1> QED BY <1>5, <1>7, <1>8, <1>9

-----------------------------------------------------------------------------
(* What the second pass has placed.                                        *)

PlacedCell(a, c, line, e) ==
  [address |-> a, word |-> c.word, kind |-> c.kind, line |-> line, expansion |-> e,
   instruction |-> c.instruction]

(* A cell stands where the text puts it, and means what it says there.     *)
Rightly(text, symbols, n, c) ==
  /\ c.line \in 1 .. n /\ text[c.line].st # NoStatement
  /\ c.expansion \in 0 .. Words(text[c.line].st) - 1
  /\ c.address = Here(Start(text, c.line), text[c.line]) + c.expansion
  /\ CellMeans(c, text[c.line].st, symbols, c.expansion)

(* The cells are of the first n lines and no two have an address.          *)
Sound(text, s, n) ==
  /\ \A a, b \in DOMAIN s.cells : s.cells[a].address = s.cells[b].address => a = b
  /\ \A a \in DOMAIN s.cells : Rightly(text, s.symbols, n, s.cells[a])

(* The first n lines have all their cells.                                 *)
Has(s, k, e) == \E a \in DOMAIN s.cells : s.cells[a].line = k /\ s.cells[a].expansion = e

Complete(text, s, n) ==
  \A k \in 1 .. n :
    text[k].st # NoStatement => \A e \in 0 .. Words(text[k].st) - 1 : Has(s, k, e)

(* t is s with an error or with the cell placed.                           *)
Places(s, t, p) ==
  /\ AssemblyType(t) /\ t.lc = s.lc + 1 /\ t.symbols = s.symbols
  /\ \/ t.errors # << >> /\ t.cells = s.cells
     \/ /\ t.errors = s.errors /\ s.lc \in Address /\ ~ Used(s, s.lc)
        /\ t.cells = Append(s.cells, p)

LEMMA PlaceEffect ==
  ASSUME NEW s, AssemblyType(s), NEW c \in Cells, NEW line \in Nat, NEW e \in {0, 1},
         NEW t, t = Place(s, c, line, e)
  PROVE  Places(s, t, PlacedCell(s.lc, c, line, e))
<1> DEFINE next == [s EXCEPT !.lc = @ + 1]
           p    == PlacedCell(s.lc, c, line, e)
<1>1. s.lc \in Nat /\ s.lc + 1 \in Nat /\ next = [s EXCEPT !.lc = s.lc + 1]
  BY DEF AssemblyType
<1> HIDE DEF next
<1>2. AssemblyType(next) /\ SameWork(s, next) /\ next.lc = s.lc + 1 /\ next.errors = s.errors
  BY <1>1, MoveEffect
<1>3. ASSUME NEW err, t = Fail(next, err)
      PROVE  /\ AssemblyType(t) /\ t.lc = s.lc + 1 /\ t.symbols = s.symbols
             /\ t.errors # << >> /\ t.cells = s.cells
  BY <1>2, <1>3, FailEffect DEF SameWork
<1>4. CASE s.lc \notin Address
  <2>1. t = Fail(next, "AddressOutOfRange")
    BY <1>4 DEF Place, next
  <2> QED BY <1>3, <2>1 DEF Places
<1>5. CASE s.lc \in Address /\ Used(s, s.lc)
  <2>1. t = Fail(next, "OverlappingAddress")
    BY <1>5 DEF Place, next
  <2> QED BY <1>3, <2>1 DEF Places
<1>6. CASE s.lc \in Address /\ ~ Used(s, s.lc)
  <2>1. t = [next EXCEPT !.cells = Append(@, p)]
    BY <1>6 DEF Place, next, PlacedCell
  <2>2. p \in Placed
    BY <1>6 DEF Cells, Placed, PlacedCell
  <2> HIDE DEF p
  <2>3. t = [lc |-> next.lc, symbols |-> next.symbols, cells |-> Append(next.cells, p),
             errors |-> next.errors]
    BY <1>2, <2>1 DEF AssemblyType
  <2>4. /\ t.lc = next.lc /\ t.symbols = next.symbols /\ t.cells = Append(next.cells, p)
        /\ t.errors = next.errors
        /\ t = [lc |-> t.lc, symbols |-> t.symbols, cells |-> t.cells, errors |-> t.errors]
    BY <2>3
  <2>5. next.cells \in Seq(Placed) /\ Append(next.cells, p) \in Seq(Placed)
    BY <1>2, <2>2 DEF AssemblyType
  <2>6. AssemblyType(t)
    BY <1>2, <2>4, <2>5 DEF AssemblyType
  <2>7. t.errors = s.errors /\ t.cells = Append(s.cells, p) /\ t.symbols = s.symbols
    BY <1>2, <2>4 DEF SameWork
  <2> QED BY <1>2, <1>6, <2>4, <2>6, <2>7 DEF p, Places
<1> QED BY <1>4, <1>5, <1>6

(* Placing a cell where it belongs keeps the cells sound, and whatever was *)
(* placed stays.                                                           *)
LEMMA PlaceSound ==
  ASSUME NEW s, AssemblyType(s), NEW c \in Cells, NEW line \in Nat, NEW e \in {0, 1},
         NEW t, t = Place(s, c, line, e), NEW text, NEW n,
         Sound(text, s, n), Rightly(text, s.symbols, n, PlacedCell(s.lc, c, line, e))
  PROVE  /\ Sound(text, t, n)
         /\ \A k, x : Has(s, k, x) => Has(t, k, x)
         /\ t.errors = << >> => s.errors = << >> /\ Has(t, line, e)
<1> DEFINE p == PlacedCell(s.lc, c, line, e)
<1>1. /\ t.symbols = s.symbols
      /\ \/ t.errors # << >> /\ t.cells = s.cells
         \/ /\ t.errors = s.errors /\ s.lc \in Address /\ ~ Used(s, s.lc)
            /\ t.cells = Append(s.cells, p)
  <2>1. Places(s, t, p)
    BY PlaceEffect
  <2> QED BY <2>1 DEF Places
<1>2. p.address = s.lc /\ p.line = line /\ p.expansion = e /\ Rightly(text, s.symbols, n, p)
  BY DEF PlacedCell
<1> HIDE DEF p
<1>3. CASE t.errors # << >> /\ t.cells = s.cells
  BY <1>1, <1>3 DEF Sound, Has
<1>4. CASE t.errors = s.errors /\ ~ Used(s, s.lc) /\ t.cells = Append(s.cells, p)
  <2> DEFINE q == s.cells
             r == t.cells
  <2>1. q \in Seq(Placed)
    BY DEF AssemblyType
  <2>2. /\ Len(q) \in Nat /\ DOMAIN q = 1 .. Len(q)
        /\ DOMAIN r = 1 .. Len(q) + 1
        /\ r[Len(q) + 1] = p
        /\ \A a \in 1 .. Len(q) : r[a] = q[a]
    <3>1. r = Append(q, p)
      BY <1>4
    <3> HIDE DEF q, r
    <3> QED BY <2>1, <3>1
  <2>3. \A a \in 1 .. Len(q) : q[a].address # p.address
    BY <1>2, <1>4, <2>2 DEF Used
  <2>4. /\ \A a, b \in DOMAIN q : q[a].address = q[b].address => a = b
        /\ \A a \in DOMAIN q : Rightly(text, t.symbols, n, q[a])
    BY <1>1 DEF Sound
  <2>5. \A a \in DOMAIN r : a \in DOMAIN q \/ (a = Len(q) + 1 /\ r[a] = p)
    BY <2>2
  <2>6. Rightly(text, t.symbols, n, p)
    BY <1>1, <1>2
  <2> HIDE DEF q, r, p
  <2>7. \A a, b \in DOMAIN r : r[a].address = r[b].address => a = b
    BY <2>2, <2>3, <2>4, <2>5
  <2>8. \A a \in DOMAIN r : Rightly(text, t.symbols, n, r[a])
    BY <2>2, <2>4, <2>5, <2>6
  <2>9. Sound(text, t, n)
    BY <2>7, <2>8 DEF Sound, r
  <2>10. ASSUME NEW k, NEW x, Has(s, k, x) PROVE Has(t, k, x)
    <3>1. PICK a \in DOMAIN q : q[a].line = k /\ q[a].expansion = x
      BY <2>10 DEF Has, q
    <3>2. a \in DOMAIN r /\ r[a] = q[a]
      BY <2>2
    <3> QED BY <3>1, <3>2 DEF Has, r
  <2>11. Has(t, line, e)
    <3>1. Len(q) + 1 \in DOMAIN r /\ r[Len(q) + 1] = p
      BY <2>2
    <3> QED BY <1>2, <3>1 DEF Has, r
  <2> QED BY <1>4, <2>9, <2>10, <2>11
<1> QED BY <1>1, <1>3, <1>4

(* One line of the second pass: the counter goes where the first pass saw  *)
(* it go, with an error or without, and a line without error has all its   *)
(* words.                                                                  *)
SecondPassed(text, s, t, k) ==
  /\ AssemblyType(t) /\ t.lc = Start(text, k + 1) /\ t.symbols = s.symbols
  /\ Sound(text, t, k)
  /\ t.errors = << >> => s.errors = << >> /\ Complete(text, t, k)

LEMMA Pass2Effect ==
  ASSUME NEW text \in Seq(SourceLine), NEW k \in 1 .. Len(text), NEW s, AssemblyType(s),
         s.lc = Start(text, k), Sound(text, s, k - 1),
         s.errors = << >> => Complete(text, s, k - 1),
         NEW t, t = Pass2Line(s, text[k], k)
  PROVE  SecondPassed(text, s, t, k)
<1> DEFINE line == text[k]
           u == Org(s, line)
           r == Resolve(line.st, s.symbols)
           here == Here(s.lc, line)
<1>1. line \in SourceLine /\ line.st \in Statements /\ line.org \in Int /\ k \in Nat
  <2>1. line \in SourceLine
    OBVIOUS
  <2> HIDE DEF line
  <2> QED BY <2>1 DEF SourceLine
<1>2. AssemblyType(u) /\ SameWork(s, u) /\ u.lc = here
  <2> HIDE DEF line, u
  <2> QED BY <1>1, OrgEffect DEF u
<1>3. Start(text, k + 1) = here + WordsOf(line)
  BY StartsFacts DEF Behind
<1>4. Sound(text, u, k)
  <2>1. ASSUME NEW c, Rightly(text, s.symbols, k - 1, c)
        PROVE  Rightly(text, s.symbols, k, c)
    BY <1>1, <2>1 DEF Rightly
  <2>2. u.symbols = s.symbols /\ u.cells = s.cells
    BY <1>2 DEF SameWork
  <2> QED BY <2>1, <2>2 DEF Sound
<1>5. u.errors = << >> => s.errors = << >> /\ Complete(text, u, k - 1)
  <2>1. u.cells = s.cells /\ (u.errors = << >> => s.errors = << >>)
    BY <1>2 DEF SameWork
  <2> QED BY <2>1 DEF Complete, Has
<1>6. u.symbols = s.symbols
  BY <1>2 DEF SameWork
<1>7. SymbolTable(s.symbols)
  BY DEF AssemblyType
<1>8. ASSUME NEW v, Complete(text, u, k - 1), \A j, x : Has(u, j, x) => Has(v, j, x),
             line.st # NoStatement => \A e \in 0 .. Words(line.st) - 1 : Has(v, k, e)
      PROVE  Complete(text, v, k)
  <2>1. SUFFICES ASSUME NEW j \in 1 .. k, text[j].st # NoStatement,
                        NEW e \in 0 .. Words(text[j].st) - 1
                 PROVE  Has(v, j, e)
    BY DEF Complete
  <2>2. CASE j = k
    BY <1>8, <2>1, <2>2
  <2>3. CASE j \in 1 .. k - 1
    <3>1. Has(u, j, e)
      BY <1>8, <2>1, <2>3 DEF Complete
    <3> QED BY <1>8, <3>1
  <2> QED BY <1>1, <2>2, <2>3
<1> HIDE DEF u
<1>9. CASE line.st = NoStatement
  <2>1. t = u
    BY <1>9 DEF Pass2Line, u
  <2>2. Start(text, k + 1) = here
    <3>1. WordsOf(line) = 0
      BY <1>9 DEF WordsOf
    <3>2. here \in Nat
      BY <1>2 DEF AssemblyType
    <3> HIDE DEF here, line
    <3> QED BY <1>3, <3>1, <3>2
  <2>3. u.errors = << >> => Complete(text, u, k)
    BY <1>5, <1>8, <1>9
  <2> QED BY <1>2, <1>4, <1>5, <1>6, <2>1, <2>2, <2>3 DEF SecondPassed
<1>10. CASE line.st # NoStatement /\ r.error # NoError
  <2> DEFINE v == Fail(u, r.error)
  <2>1. t = [v EXCEPT !.lc = @ + Words(line.st)]
    BY <1>10 DEF Pass2Line, u
  <2> HIDE DEF v, r
  <2>2. AssemblyType(v) /\ SameWork(u, v) /\ v.lc = u.lc /\ v.errors # << >>
    BY <1>2, FailEffect DEF v
  <2>3. /\ v.lc + Words(line.st) \in Nat /\ v.lc + Words(line.st) = Start(text, k + 1)
    <3>1. Words(line.st) \in {0, 1, 2} /\ WordsOf(line) = Words(line.st)
      BY <1>1, <1>10, WordsType
    <3>2. v.lc \in Nat /\ v.lc = here
      BY <1>2, <2>2 DEF AssemblyType
    <3> HIDE DEF here
    <3> QED BY <1>3, <3>1, <3>2
  <2>4. t = [v EXCEPT !.lc = v.lc + Words(line.st)]
    BY <2>1
  <2>5. /\ AssemblyType(t) /\ SameWork(v, t) /\ t.lc = v.lc + Words(line.st)
        /\ t.errors = v.errors
    BY <2>2, <2>3, <2>4, MoveEffect
  <2>6. t.symbols = u.symbols /\ t.cells = u.cells /\ t.errors # << >>
    BY <2>2, <2>5 DEF SameWork
  <2>7. Sound(text, t, k)
    BY <1>4, <2>6 DEF Sound
  <2> QED BY <1>6, <2>3, <2>5, <2>6, <2>7 DEF SecondPassed
<1>11. CASE line.st # NoStatement /\ r.error = NoError
  <2>1. t = PlaceWords(u, r.cells, k)
    BY <1>11 DEF Pass2Line, u
  <2> DEFINE st == line.st
             w  == Words(st)
             c1 == r.cells[1]
             c2 == r.cells[2]
             v  == Place(u, c1, k, 0)
             p1 == PlacedCell(u.lc, c1, k, 0)
             p2 == PlacedCell(v.lc, c2, k, 1)
  <2>2. /\ w \in {1, 2} /\ r.cells \in Seq(Cells) /\ Len(r.cells) = w
        /\ \A e \in 0 .. w - 1 : CellMeans(r.cells[e + 1], st, s.symbols, e)
    <3> DEFINE symbols == s.symbols
    <3>1. st \in Statements /\ st # NoStatement /\ SymbolTable(symbols) /\ r.error = NoError
      BY <1>1, <1>7, <1>11
    <3>2. r = Resolve(st, symbols)
      OBVIOUS
    <3> HIDE DEF st, symbols, r
    <3>3. /\ Words(st) \in {1, 2} /\ r.cells \in Seq(Cells) /\ Len(r.cells) = Words(st)
          /\ \A e \in 0 .. Words(st) - 1 : CellMeans(r.cells[e + 1], st, symbols, e)
      BY <3>1, <3>2, ResolveType
    <3> QED BY <3>3 DEF symbols
  <2>3. WordsOf(line) = w
    BY <1>1, <1>11, WordsType
  <2>4. t = IF w = 1 THEN v ELSE Place(v, c2, k, 1)
    BY <2>1, <2>2 DEF PlaceWords
  <2>5. c1 \in Cells /\ (w = 2 => c2 \in Cells)
    <3> HIDE DEF r, w
    <3> QED BY <2>2
  <2>6. /\ CellMeans(c1, st, s.symbols, 0)
        /\ w = 2 => CellMeans(c2, st, s.symbols, 1)
    <3> DEFINE Means(d, e) == CellMeans(d, st, s.symbols, e)
    <3>1. \A e \in 0 .. w - 1 : Means(r.cells[e + 1], e)
      BY <2>2
    <3>2. w \in {1, 2}
      BY <2>2
    <3> HIDE DEF r, w, Means
    <3>3. Means(r.cells[1], 0)
      BY <3>1, <3>2
    <3>4. w = 2 => Means(r.cells[2], 1)
      BY <3>1, <3>2
    <3> QED BY <3>3, <3>4 DEF Means
  <2>7. \A d, e : PlacedCell(u.lc, d, k, e).kind = d.kind /\ PlacedCell(u.lc, d, k, e).word = d.word
    BY DEF PlacedCell
  <2>8. s.lc = Start(text, k) /\ here \in Nat
    BY <1>2 DEF AssemblyType
  <2> HIDE DEF r, c1, c2, v
  <2>9. Rightly(text, u.symbols, k, p1)
    <3>1. /\ p1.line = k /\ p1.expansion = 0 /\ p1.address = here
          /\ p1.kind = c1.kind /\ p1.word = c1.word
      BY <1>2 DEF PlacedCell
    <3> HIDE DEF p1
    <3>2. CellMeans(p1, st, u.symbols, 0)
      BY <1>6, <2>6, <3>1 DEF CellMeans
    <3>3. 0 \in 0 .. w - 1 /\ k \in 1 .. k
      BY <1>1, <2>2
    <3>4. here = Here(Start(text, k), line) + 0
      BY <2>8
    <3> QED BY <1>11, <3>1, <3>2, <3>3, <3>4 DEF Rightly
  <2>10. Places(u, v, p1)
    BY <1>1, <1>2, <2>5, PlaceEffect DEF v
  <2>11. /\ Sound(text, v, k)
         /\ \A j, x : Has(u, j, x) => Has(v, j, x)
         /\ v.errors = << >> => u.errors = << >> /\ Has(v, k, 0)
    <3> HIDE DEF p1
    <3>1. v = Place(u, c1, k, 0) /\ Rightly(text, u.symbols, k, PlacedCell(u.lc, c1, k, 0))
      BY <2>9 DEF v, p1
    <3> QED BY <1>1, <1>2, <1>4, <2>5, <3>1, PlaceSound
  <2>12. AssemblyType(v) /\ v.symbols = u.symbols /\ v.lc = here + 1
    BY <1>2, <2>10 DEF Places
  <2>13. CASE w = 1
    <3>1. t = v
      BY <2>4, <2>13
    <3>2. v.lc = Start(text, k + 1)
      BY <1>3, <2>3, <2>12, <2>13
    <3>3. v.errors = << >> => Complete(text, v, k)
      <4>1. ASSUME NEW e \in 0 .. w - 1, v.errors = << >> PROVE Has(v, k, e)
        <5>1. e = 0
          BY <2>13
        <5> QED BY <2>11, <4>1, <5>1
      <4> QED BY <1>5, <1>8, <2>11, <4>1
    <3> QED BY <1>5, <1>6, <2>11, <2>12, <3>1, <3>2, <3>3 DEF SecondPassed
  <2>14. CASE w = 2
    <3>1. t = Place(v, c2, k, 1) /\ c2 \in Cells
      BY <2>4, <2>5, <2>14
    <3>2. Rightly(text, v.symbols, k, p2)
      <4>1. /\ p2.line = k /\ p2.expansion = 1 /\ p2.address = here + 1
            /\ p2.kind = c2.kind /\ p2.word = c2.word
        BY <2>12 DEF PlacedCell
      <4> HIDE DEF p2
      <4>2. CellMeans(p2, st, v.symbols, 1)
        BY <1>6, <2>6, <2>12, <2>14, <4>1 DEF CellMeans
      <4>3. 1 \in 0 .. w - 1 /\ k \in 1 .. k
        BY <1>1, <2>14
      <4>4. here + 1 = Here(Start(text, k), line) + 1
        BY <2>8
      <4> QED BY <1>11, <4>1, <4>2, <4>3, <4>4 DEF Rightly
    <3>3. Places(v, t, p2)
      BY <1>1, <2>12, <3>1, PlaceEffect
    <3>4. /\ Sound(text, t, k)
          /\ \A j, x : Has(v, j, x) => Has(t, j, x)
          /\ t.errors = << >> => v.errors = << >> /\ Has(t, k, 1)
      BY <1>1, <2>11, <2>12, <3>1, <3>2, PlaceSound
    <3>5. AssemblyType(t) /\ t.symbols = v.symbols /\ t.lc = v.lc + 1
      BY <3>3 DEF Places
    <3>6. t.lc = Start(text, k + 1)
      BY <1>3, <2>3, <2>8, <2>12, <2>14, <3>5
    <3>7. t.errors = << >> => Complete(text, t, k)
      <4>1. ASSUME NEW e \in 0 .. w - 1, t.errors = << >> PROVE Has(t, k, e)
        <5>1. e = 0 \/ e = 1
          BY <2>14
        <5> QED BY <2>11, <3>4, <4>1, <5>1
      <4>2. \A j, x : Has(u, j, x) => Has(t, j, x)
        BY <2>11, <3>4
      <4> QED BY <1>5, <1>8, <2>11, <3>4, <4>1, <4>2
    <3> QED BY <1>5, <1>6, <2>11, <2>12, <3>4, <3>5, <3>6, <3>7 DEF SecondPassed
  <2> QED BY <2>2, <2>13, <2>14
<1> QED BY <1>9, <1>10, <1>11

-----------------------------------------------------------------------------
(* The invariant of the two passes: each counts to the same place, the     *)
(* labels seen so far mean their lines, and the cells placed so far are    *)
(* those of the lines behind.                                              *)

Labelled(text, s, n) ==
  \A k \in 1 .. n : \A i \in DOMAIN text[k].labels :
    /\ text[k].labels[i] \in DOMAIN s.symbols
    /\ s.symbols[text[k].labels[i]] = Here(Start(text, k), text[k])

PassTypes ==
  /\ source \in Seq(SourceLine) /\ pass \in 1 .. 3 /\ todo \in 1 .. Len(source) + 1
  /\ AssemblyType(assembly)

FirstPassInv ==
  pass = 1 =>
    /\ assembly.lc = Start(source, todo) /\ assembly.cells = << >>
    /\ assembly.errors = << >> => Labelled(source, assembly, todo - 1)

SecondPassInv ==
  pass = 2 =>
    /\ assembly.lc = Start(source, todo)
    /\ Labelled(source, assembly, Len(source))
    /\ Sound(source, assembly, todo - 1)
    /\ assembly.errors = << >> => Complete(source, assembly, todo - 1)

ResultInv ==
  pass = 3 =>
    /\ Sound(source, assembly, Len(source))
    /\ assembly.errors = << >> =>
         /\ Labelled(source, assembly, Len(source))
         /\ Complete(source, assembly, Len(source))

PassInv == PassTypes /\ FirstPassInv /\ SecondPassInv /\ ResultInv

LEMMA InitPassInv == PassInit => PassInv
<1>1. SUFFICES ASSUME PassInit PROVE PassInv
  OBVIOUS
<1>2. /\ source \in Seq(SourceLine) /\ pass = 1 /\ todo = 1 /\ assembly = Assembly
  BY <1>1, TextAssumption DEF PassInit
<1>3. /\ assembly.lc = 0 /\ assembly.cells = << >> /\ assembly.errors = << >>
      /\ assembly.symbols = << >>
      /\ assembly = [lc |-> assembly.lc, symbols |-> assembly.symbols,
                     cells |-> assembly.cells, errors |-> assembly.errors]
  BY <1>2 DEF Assembly
<1>4. SymbolTable(assembly.symbols)
  BY <1>3 DEF SymbolTable
<1>5. AssemblyType(assembly)
  <2>1. << >> \in Seq(Placed) /\ << >> \in Seq({})
    OBVIOUS
  <2> QED BY <1>3, <1>4, <2>1 DEF AssemblyType
<1>6. PassTypes
  BY <1>2, <1>5 DEF PassTypes
<1>7. Start(source, 1) = 0
  BY <1>2, StartsFacts
<1>8. FirstPassInv
  BY <1>2, <1>3, <1>7 DEF FirstPassInv, Labelled
<1> QED BY <1>2, <1>6, <1>8 DEF PassInv, SecondPassInv, ResultInv

LEMMA FirstPassStep ==
  ASSUME PassInv, FirstPass
  PROVE  PassInv'
<1> DEFINE line == source[todo]
<1>1. /\ source \in Seq(SourceLine) /\ todo \in 1 .. Len(source)
      /\ AssemblyType(assembly) /\ assembly.lc = Start(source, todo)
      /\ assembly.cells = << >>
      /\ assembly.errors = << >> => Labelled(source, assembly, todo - 1)
  BY DEF PassInv, PassTypes, FirstPassInv, FirstPass
<1>2. /\ pass = 1 /\ pass' = 1 /\ source' = source /\ todo' = todo + 1
      /\ assembly' = Pass1Line(assembly, line)
  BY DEF FirstPass
<1>3. line \in SourceLine /\ todo \in Nat
  BY <1>1
<1>4. /\ AssemblyType(assembly') /\ assembly'.lc = Behind(assembly.lc, line)
      /\ assembly'.cells = assembly.cells /\ Keeps(assembly, assembly')
      /\ assembly'.errors = << >> =>
           /\ assembly.errors = << >>
           /\ \A i \in DOMAIN line.labels :
                /\ line.labels[i] \in DOMAIN assembly'.symbols
                /\ assembly'.symbols[line.labels[i]] = Here(assembly.lc, line)
  <2> HIDE DEF line
  <2> QED BY <1>1, <1>2, <1>3, Pass1Effect
<1>5. PassTypes'
  BY <1>1, <1>2, <1>4 DEF PassTypes
<1>6. assembly'.lc = Start(source, todo + 1)
  BY <1>1, <1>4, StartsFacts
<1>7. ASSUME assembly'.errors = << >>
      PROVE  Labelled(source, assembly', todo)
  <2>1. SUFFICES ASSUME NEW k \in 1 .. todo, NEW i \in DOMAIN source[k].labels
                 PROVE  /\ source[k].labels[i] \in DOMAIN assembly'.symbols
                        /\ assembly'.symbols[source[k].labels[i]]
                             = Here(Start(source, k), source[k])
    BY DEF Labelled
  <2>2. CASE k = todo
    BY <1>1, <1>4, <1>7, <2>1, <2>2
  <2>3. CASE k \in 1 .. todo - 1
    <3>1. /\ source[k].labels[i] \in DOMAIN assembly.symbols
          /\ assembly.symbols[source[k].labels[i]] = Here(Start(source, k), source[k])
      BY <1>1, <1>4, <1>7, <2>1, <2>3 DEF Labelled
    <3> QED BY <1>4, <3>1 DEF Keeps
  <2> QED BY <1>3, <2>2, <2>3
<1>8. FirstPassInv'
  <2>1. (todo + 1) - 1 = todo
    BY <1>3
  <2> QED BY <1>1, <1>2, <1>4, <1>6, <1>7, <2>1 DEF FirstPassInv
<1> QED BY <1>2, <1>5, <1>8 DEF PassInv, SecondPassInv, ResultInv

LEMMA BetweenPassesStep ==
  ASSUME PassInv, BetweenPasses
  PROVE  PassInv'
<1>1. /\ source \in Seq(SourceLine) /\ todo = Len(source) + 1 /\ Len(source) \in Nat
      /\ AssemblyType(assembly) /\ assembly.cells = << >>
      /\ assembly.errors = << >> => Labelled(source, assembly, todo - 1)
  BY DEF PassInv, PassTypes, FirstPassInv, BetweenPasses
<1>2. /\ pass = 1 /\ source' = source
      /\ IF assembly.errors # << >> THEN pass' = 3 /\ todo' = todo /\ assembly' = assembly
         ELSE pass' = 2 /\ todo' = 1 /\ assembly' = [assembly EXCEPT !.lc = 0]
  BY DEF BetweenPasses
<1>3. ASSUME NEW s, s.cells = << >>, NEW n
      PROVE  Sound(source, s, n)
  BY <1>3 DEF Sound
<1>4. CASE assembly.errors # << >>
  <2>1. pass' = 3 /\ todo' = todo /\ assembly' = assembly
    BY <1>2, <1>4
  <2>2. PassTypes'
    BY <1>1, <1>2, <2>1 DEF PassTypes
  <2>3. ResultInv'
    BY <1>1, <1>2, <1>3, <1>4, <2>1 DEF ResultInv
  <2> QED BY <2>1, <2>2, <2>3 DEF PassInv, FirstPassInv, SecondPassInv
<1>5. CASE assembly.errors = << >>
  <2>1. pass' = 2 /\ todo' = 1 /\ assembly' = [assembly EXCEPT !.lc = 0]
    BY <1>2, <1>5
  <2>2. /\ AssemblyType(assembly') /\ SameWork(assembly, assembly') /\ assembly'.lc = 0
    BY <1>1, <2>1, MoveEffect
  <2>3. PassTypes'
    BY <1>1, <1>2, <2>1, <2>2 DEF PassTypes
  <2>4. assembly'.cells = << >> /\ assembly'.symbols = assembly.symbols
    BY <1>1, <2>2 DEF SameWork
  <2>5. assembly'.lc = Start(source, 1)
    BY <1>1, <2>2, StartsFacts
  <2>6. Labelled(source, assembly', Len(source))
    <3>1. todo - 1 = Len(source)
      BY <1>1
    <3>2. Labelled(source, assembly, Len(source))
      BY <1>1, <1>5, <3>1
    <3> QED BY <2>4, <3>2 DEF Labelled
  <2>7. Sound(source, assembly', 0)
    BY <1>3, <2>4
  <2>8. Complete(source, assembly', 0)
    BY DEF Complete
  <2>9. SecondPassInv'
    <3>1. 1 - 1 = 0
      OBVIOUS
    <3> QED BY <1>2, <2>1, <2>5, <2>6, <2>7, <2>8, <3>1 DEF SecondPassInv
  <2> QED BY <2>1, <2>3, <2>9 DEF PassInv, FirstPassInv, ResultInv
<1> QED BY <1>4, <1>5

LEMMA SecondPassStep ==
  ASSUME PassInv, SecondPass
  PROVE  PassInv'
<1>1. /\ source \in Seq(SourceLine) /\ todo \in 1 .. Len(source)
      /\ AssemblyType(assembly) /\ assembly.lc = Start(source, todo)
      /\ Labelled(source, assembly, Len(source))
      /\ Sound(source, assembly, todo - 1)
      /\ assembly.errors = << >> => Complete(source, assembly, todo - 1)
  BY DEF PassInv, PassTypes, SecondPassInv, SecondPass
<1>2. /\ pass = 2 /\ pass' = 2 /\ source' = source /\ todo' = todo + 1
      /\ assembly' = Pass2Line(assembly, source[todo], todo)
  BY DEF SecondPass
<1>3. SecondPassed(source, assembly, assembly', todo)
  BY <1>1, <1>2, Pass2Effect
<1>4. /\ AssemblyType(assembly') /\ assembly'.lc = Start(source, todo + 1)
      /\ assembly'.symbols = assembly.symbols /\ Sound(source, assembly', todo)
      /\ assembly'.errors = << >> => Complete(source, assembly', todo)
  BY <1>3 DEF SecondPassed
<1>5. PassTypes'
  BY <1>1, <1>2, <1>4 DEF PassTypes
<1>6. Labelled(source, assembly', Len(source))
  BY <1>1, <1>4 DEF Labelled
<1>7. (todo + 1) - 1 = todo
  BY <1>1
<1>8. SecondPassInv'
  BY <1>2, <1>4, <1>6, <1>7 DEF SecondPassInv
<1> QED BY <1>2, <1>5, <1>8 DEF PassInv, FirstPassInv, ResultInv

LEMMA FinishStep ==
  ASSUME PassInv, Finish
  PROVE  PassInv'
<1>1. /\ source \in Seq(SourceLine) /\ todo = Len(source) + 1 /\ Len(source) \in Nat
      /\ Labelled(source, assembly, Len(source))
      /\ Sound(source, assembly, todo - 1)
      /\ assembly.errors = << >> => Complete(source, assembly, todo - 1)
  BY DEF PassInv, PassTypes, SecondPassInv, Finish
<1>2. pass' = 3 /\ source' = source /\ todo' = todo /\ assembly' = assembly
  BY DEF Finish
<1>3. todo - 1 = Len(source)
  BY <1>1
<1>4. PassTypes'
  BY <1>2 DEF PassInv, PassTypes
<1>5. ResultInv'
  BY <1>1, <1>2, <1>3 DEF ResultInv
<1> QED BY <1>2, <1>4, <1>5 DEF PassInv, FirstPassInv, SecondPassInv

LEMMA PassInvariant == PassSpec => []PassInv
<1>1. PassInit => PassInv
  BY InitPassInv
<1>2. PassInv /\ [PassNext]_passVars => PassInv'
  <2>1. SUFFICES ASSUME PassInv, [PassNext]_passVars PROVE PassInv'
    OBVIOUS
  <2>2. CASE FirstPass
    BY <2>1, <2>2, FirstPassStep
  <2>3. CASE BetweenPasses
    BY <2>1, <2>3, BetweenPassesStep
  <2>4. CASE SecondPass
    BY <2>1, <2>4, SecondPassStep
  <2>5. CASE Finish
    BY <2>1, <2>5, FinishStep
  <2>6. CASE UNCHANGED passVars
    BY <2>1, <2>6 DEF passVars, PassInv, PassTypes, FirstPassInv, SecondPassInv, ResultInv
  <2> QED BY <2>1, <2>2, <2>3, <2>4, <2>5, <2>6 DEF PassNext
<1> QED BY <1>1, <1>2, PTL DEF PassSpec

-----------------------------------------------------------------------------
(* Both passes of every text count the same words before a line, so that   *)
(* its labels mean the place where the second pass is when it comes to it  *)
(* (assembler.rs:146 and 183).                                             *)
THEOREM LabelsMeanCellsAlways == PassSpec => []LabelsMeanCells
<1>1. PassInv => LabelsMeanCells
  <2>1. SUFFICES ASSUME PassInv, pass = 2, todo <= Len(source),
                        NEW l \in ToSet(source[todo].labels)
                 PROVE  assembly.symbols[l] = Org(assembly, source[todo]).lc
    BY DEF LabelsMeanCells
  <2>2. /\ source \in Seq(SourceLine) /\ todo \in 1 .. Len(source)
        /\ AssemblyType(assembly) /\ assembly.lc = Start(source, todo)
        /\ Labelled(source, assembly, Len(source))
    BY <2>1 DEF PassInv, PassTypes, SecondPassInv
  <2> DEFINE line == source[todo]
  <2>3. PICK i \in DOMAIN line.labels : l = line.labels[i]
    BY <2>1 DEF ToSet
  <2>4. assembly.symbols[l] = Here(Start(source, todo), line)
    BY <2>2, <2>3 DEF Labelled
  <2>5. line \in SourceLine
    BY <2>2
  <2> HIDE DEF line
  <2>6. Org(assembly, line).lc = Here(assembly.lc, line)
    BY <2>2, <2>5, OrgEffect
  <2> QED BY <2>2, <2>4, <2>6 DEF line
<1> QED BY <1>1, PassInvariant, PTL

(* Every program that is assembled is whole: no address is written twice,  *)
(* every statement has all its words and no others, from where its labels  *)
(* are (assembler.rs:183).                                                 *)
THEOREM ImageCompleteAlways == PassSpec => []ImageComplete
<1>1. ASSUME PassInv, Assembled
      PROVE  ImageComplete
  <2>1. /\ source \in Seq(SourceLine) /\ Len(source) \in Nat
        /\ Sound(source, assembly, Len(source))
        /\ Labelled(source, assembly, Len(source))
        /\ Complete(source, assembly, Len(source))
    BY <1>1 DEF PassInv, PassTypes, ResultInv, Assembled
  <2>2. IsInjective([n \in DOMAIN assembly.cells |-> assembly.cells[n].address])
    BY <2>1 DEF Sound, IsInjective
  <2>3. ASSUME NEW n \in DOMAIN source, NEW c \in CellsOf(n)
        PROVE  /\ c.line = n /\ source[n].st # NoStatement
               /\ c.expansion \in 0 .. Words(source[n].st) - 1
               /\ c.address = Here(Start(source, n), source[n]) + c.expansion
    <3>1. PICK a \in DOMAIN assembly.cells : c = assembly.cells[a] /\ c.line = n
      BY <2>3 DEF CellsOf, ToSet
    <3> QED BY <2>1, <3>1 DEF Sound, Rightly
  <2>4. ASSUME NEW n \in DOMAIN source, source[n].st = NoStatement
        PROVE  CellsOf(n) = {}
    BY <2>3, <2>4
  <2>5. ASSUME NEW n \in DOMAIN source, source[n].st # NoStatement
        PROVE  \E first \in CellsOf(n) :
                 /\ {<<c.address, c.expansion>> : c \in CellsOf(n)}
                      = {<<first.address + k, k>> : k \in 0 .. Words(source[n].st) - 1}
                 /\ \A l \in ToSet(source[n].labels) : assembly.symbols[l] = first.address
    <3> DEFINE w == Words(source[n].st)
               here == Here(Start(source, n), source[n])
               Of == CellsOf(n)
    <3>1. w \in {1, 2} /\ n \in 1 .. Len(source)
      BY <2>1 DEF Words
    <3>2. ASSUME NEW e \in 0 .. w - 1
          PROVE  \E c \in Of : c.expansion = e
      <4>1. Has(assembly, n, e)
        BY <2>1, <2>5, <3>1, <3>2 DEF Complete
      <4>2. PICK a \in DOMAIN assembly.cells :
              assembly.cells[a].line = n /\ assembly.cells[a].expansion = e
        BY <4>1 DEF Has
      <4>3. assembly.cells[a] \in Of
        BY <4>2 DEF CellsOf, ToSet
      <4> QED BY <4>2, <4>3
    <3>3. here \in Nat
      <4>1. source[n] \in SourceLine /\ Start(source, n) \in Nat
        BY <2>1, <3>1, StartsFacts
      <4> QED BY <4>1, BehindType
    <3>4. \A c \in Of : c.expansion \in 0 .. w - 1 /\ c.address = here + c.expansion
      BY <2>3
    <3>5. \A l \in ToSet(source[n].labels) : assembly.symbols[l] = here
      BY <2>1, <3>1 DEF Labelled, ToSet
    <3> HIDE DEF w, here, Of
    <3>6. 0 \in 0 .. w - 1
      BY <3>1
    <3>7. PICK first \in Of : first.expansion = 0
      BY <3>2, <3>6
    <3>8. first.address = here
      BY <3>3, <3>4, <3>7
    <3>9. ASSUME NEW c \in Of
          PROVE  <<c.address, c.expansion>> \in {<<first.address + k, k>> : k \in 0 .. w - 1}
      BY <3>4, <3>8
    <3>10. ASSUME NEW k \in 0 .. w - 1
           PROVE  <<first.address + k, k>> \in {<<c.address, c.expansion>> : c \in Of}
      <4>1. PICK c \in Of : c.expansion = k
        BY <3>2
      <4>2. c.address = first.address + k
        BY <3>4, <3>8, <4>1
      <4> QED BY <4>1, <4>2
    <3>11. {<<c.address, c.expansion>> : c \in Of} = {<<first.address + k, k>> : k \in 0 .. w - 1}
      BY <3>9, <3>10
    <3> QED BY <3>5, <3>8, <3>11 DEF w, Of
  <2> QED BY <2>2, <2>4, <2>5 DEF ImageComplete
<1>2. PassInv => ImageComplete
  BY <1>1 DEF ImageComplete
<1> QED BY <1>2, PassInvariant, PTL

(* Every word of an instruction, of every text and at every moment, is     *)
(* decoded to the instruction its line stands for there (assembler.rs:199, *)
(* isa.rs:315 and 359).                                                    *)
THEOREM WordsDecodeAlways == PassSpec => []WordsDecode
<1>1. PassInv => WordsDecode
  <2>1. SUFFICES ASSUME PassInv, NEW a \in DOMAIN assembly.cells,
                        assembly.cells[a].kind = "instruction"
                 PROVE  LET c  == assembly.cells[a]
                            st == source[c.line].st
                        IN  DecodeWord(c.word)
                              = ResolveInstruction(st.m, st.operands, assembly.symbols).is[c.expansion + 1]
    BY DEF WordsDecode
  <2>2. pass \in 1 .. 3
    BY <2>1 DEF PassInv, PassTypes
  <2>3. pass # 1
    BY <2>1 DEF PassInv, FirstPassInv
  <2>4. \E n : Sound(source, assembly, n)
    BY <2>1, <2>2, <2>3 DEF PassInv, SecondPassInv, ResultInv
  <2> QED BY <2>1, <2>4 DEF Sound, Rightly, CellMeans
<1> QED BY <1>1, PassInvariant, PTL
=============================================================================
