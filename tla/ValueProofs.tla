----------------------------- MODULE ValueProofs ------------------------------
(***************************************************************************)
(* The values the machine is made of: what the operations on words, flags  *)
(* and addresses return, and that the operations of a bus keep it a bus,   *)
(* for every word size, every set of bytes and every longest countdown.    *)
(***************************************************************************)
EXTENDS Alu, IoBus, SequenceTheorems, TLAPS

(* Only the multiple zero of m lies strictly between -m and m.             *)
LEMMA NoMultiple ==
  ASSUME NEW m \in Nat \ {0}, NEW d \in Int, m * d < m, - m < m * d
  PROVE  d = 0
<1>1. ASSUME d >= 1 PROVE FALSE
  <2>1. m * d = m + m * (d - 1)
    OBVIOUS
  <2>2. m * (d - 1) >= 0
    BY <1>1
  <2> QED BY <2>1, <2>2
<1>2. ASSUME d <= -1 PROVE FALSE
  <2>1. m * d = - m - m * (- d - 1)
    OBVIOUS
  <2>2. m * (- d - 1) >= 0
    BY <1>2
  <2> QED BY <2>1, <2>2
<1> QED BY <1>1, <1>2

(* A remainder is the only number of its kind.                             *)
LEMMA RemainderUnique ==
  ASSUME NEW m \in Nat \ {0}, NEW q \in Int, NEW r \in 0 .. m - 1
  PROVE  (m * q + r) % m = r
<1> DEFINE x == m * q + r
           p == x \div m
           s == x % m
<1>1. x \in Int
  OBVIOUS
<1>2. x = m * p + s /\ s \in 0 .. m - 1 /\ p \in Int
  BY <1>1
<1>3. m * (q - p) = s - r
  BY <1>2
<1> HIDE DEF p, s
<1>4. q - p \in Int /\ m * (q - p) < m /\ - m < m * (q - p)
  BY <1>2, <1>3
<1>5. q - p = 0
  BY <1>4, NoMultiple
<1>6. m * (q - p) = 0
  BY <1>5
<1>7. s = r
  BY <1>2, <1>3, <1>6
<1> QED BY <1>7 DEF s

(* Wrapping twice is wrapping once.                                        *)
LEMMA RemainderAdd ==
  ASSUME NEW m \in Nat \ {0}, NEW x \in Int, NEW y \in Int
  PROVE  ((x % m) + y) % m = (x + y) % m
<1> DEFINE q == x \div m
           r == x % m
           p == (r + y) \div m
           s == (r + y) % m
<1>1. x = m * q + r /\ r \in 0 .. m - 1 /\ q \in Int
  OBVIOUS
<1> HIDE DEF q, r
<1>2. r + y = m * p + s /\ s \in 0 .. m - 1 /\ p \in Int
  BY <1>1
<1> HIDE DEF p, s
<1>3. x + y = m * q + m * p + s
  BY <1>1, <1>2
<1>4. m * q + m * p = m * (q + p)
  BY <1>1, <1>2
<1>5. x + y = m * (q + p) + s /\ q + p \in Int
  BY <1>1, <1>2, <1>3, <1>4
<1>6. (x + y) % m = s
  BY <1>2, <1>5, RemainderUnique
<1> QED BY <1>6 DEF r, s

(* A word has an even, positive number of values.                          *)
LEMMA SizeFacts ==
  /\ HalfSize \in Nat \ {0} /\ WordSize \in Nat \ {0}
  /\ HalfSize > 4 /\ HalfSize % 2 = 0
  /\ HalfWord \in Nat \ {0} /\ WordSize = 2 * HalfWord
  /\ ByteSize \in Nat \ {0}
<1>1. /\ HalfSize \in Nat \ {0} /\ HalfSize > 4 /\ HalfSize % 2 = 0
      /\ ByteSize \in Nat \ {0} /\ WordSize = HalfSize * HalfSize
  BY SizeAssumption
<1>2. PICK m \in Nat : HalfSize = 2 * m
  <2>1. HalfSize \div 2 \in Nat /\ HalfSize = 2 * (HalfSize \div 2)
    BY <1>1
  <2> QED BY <2>1
<1>3. WordSize = 2 * (m * HalfSize) /\ m * HalfSize \in Nat
  BY <1>1, <1>2
<1>4. m * HalfSize > 0
  BY <1>1, <1>2
<1>5. HalfWord = m * HalfSize
  BY <1>3 DEF HalfWord
<1> QED BY <1>1, <1>3, <1>4, <1>5

-----------------------------------------------------------------------------
(* Words: sums and differences wrap at most once.                          *)

(* wrapping_add and wrapping_sub of two words.                             *)
LEMMA AddWordValue ==
  ASSUME NEW a \in Word, NEW b \in Word
  PROVE  /\ AddWord(a, b) \in Word
         /\ AddWord(a, b) = IF a + b >= WordSize THEN a + b - WordSize ELSE a + b
  BY SizeFacts DEF AddWord, Word

LEMMA SubWordValue ==
  ASSUME NEW a \in Word, NEW b \in Word
  PROVE  /\ SubWord(a, b) \in Word
         /\ SubWord(a, b) = IF a >= b THEN a - b ELSE a - b + WordSize
  BY SizeFacts DEF SubWord, Word

(* Halves, bytes and complements of a word (LDHI, LDLO, INP, CMA).         *)
LEMMA HalvesType ==
  ASSUME NEW w \in Word
  PROVE  Low(w) \in Address /\ High(w) \in Address
<1>1. /\ HalfSize \in Nat \ {0} /\ WordSize = HalfSize * HalfSize
      /\ w \in 0 .. (HalfSize * HalfSize) - 1
  BY SizeAssumption, SizeFacts DEF Word
<1>2. w % HalfSize \in 0 .. HalfSize - 1
  BY <1>1
<1>3. w \div HalfSize \in 0 .. HalfSize - 1
  BY <1>1
<1> QED BY <1>2, <1>3 DEF Low, High, Address

LEMMA ComposeType ==
  ASSUME NEW h \in Address, NEW l \in Address
  PROVE  h * HalfSize + l \in Word
  BY SizeAssumption, SizeFacts DEF Address, Word

LEMMA WithHighType ==
  ASSUME NEW w \in Word, NEW h \in Address
  PROVE  WithHigh(w, h) \in Word
  BY HalvesType, ComposeType DEF WithHigh

LEMMA AddressIsWord == Address \subseteq Word
  BY SizeAssumption, SizeFacts DEF Address, Word

LEMMA WithLowType ==
  ASSUME NEW w \in Word, NEW h \in Address
  PROVE  WithLow(w, h) \in Word
<1>1. w = High(w) * HalfSize + Low(w)
  BY SizeFacts DEF High, Low, Word
<1>2. WithLow(w, h) = High(w) * HalfSize + h
  BY <1>1, HalvesType, SizeFacts DEF WithLow, Address
<1> QED BY <1>2, HalvesType, ComposeType

LEMMA BitwiseType ==
  ASSUME NEW a \in Word, NEW b \in Word
  PROVE  BitAnd(a, b) \in Word /\ BitOr(a, b) \in Word /\ BitXor(a, b) \in Word
<1>1. /\ Low(a) \in Address /\ Low(b) \in Address
      /\ High(a) \in Address /\ High(b) \in Address
  BY HalvesType
<1>2. /\ HalfAnd(Low(a), Low(b)) \in Word /\ HalfOr(Low(a), Low(b)) \in Word
      /\ HalfXor(Low(a), Low(b)) \in Word
  BY <1>1, BitwiseAssumption, AddressIsWord
<1>3. /\ HalfAnd(High(a), High(b)) \in Address /\ HalfOr(High(a), High(b)) \in Address
      /\ HalfXor(High(a), High(b)) \in Address
  BY <1>1, BitwiseAssumption
<1> QED BY <1>2, <1>3, WithHighType DEF BitAnd, BitOr, BitXor

LEMMA ComplementType ==
  ASSUME NEW a \in Word
  PROVE  Complement(a) \in Word
  BY SizeFacts DEF Complement, Word

LEMMA SignExtendedType ==
  ASSUME NEW h \in Address
  PROVE  SignExtended(h) \in Word /\ SignedHalf(h) \in Int
<1>1. SignedHalf(h) \in Int
  BY SizeFacts DEF SignedHalf, Address
<1> QED BY <1>1, SizeFacts DEF SignExtended, Word

LEMMA WrapAddrType ==
  ASSUME NEW a \in Address, NEW d \in Int
  PROVE  WrapAddr(a, d) \in Address
  BY SizeFacts DEF WrapAddr, Address

LEMMA WrapTwice ==
  ASSUME NEW a \in Int, NEW n \in Int, NEW k \in Int
  PROVE  WrapAddr(WrapAddr(a, n), k) = WrapAddr(a, n + k)
<1>1. /\ HalfSize \in Nat \ {0} /\ a + n \in Int
      /\ (a + n) + k = a + (n + k)
  BY SizeFacts
<1>2. (((a + n) % HalfSize) + k) % HalfSize = ((a + n) + k) % HalfSize
  BY <1>1, RemainderAdd
<1> QED BY <1>1, <1>2 DEF WrapAddr

(* INP replaces the low byte and keeps the rest of the word.               *)
LEMMA WithByteType ==
  ASSUME NEW w \in Word, NEW v \in 0 .. ByteSize - 1
  PROVE  WithByte(w, v) \in Word /\ LowByte(w) \in 0 .. ByteSize - 1
<1>1. ByteSize \in Nat \ {0} /\ WordSize % ByteSize = 0 /\ WordSize \in Nat
  BY SizeAssumption, SizeFacts
<1>2. PICK m \in Nat : WordSize = ByteSize * m
  BY <1>1
<1> DEFINE q == w \div ByteSize
<1>3. /\ w = ByteSize * q + LowByte(w) /\ q \in Int
      /\ LowByte(w) \in 0 .. ByteSize - 1 /\ w \in 0 .. WordSize - 1
  BY <1>1 DEF LowByte, Word
<1> HIDE DEF q
<1>4. 0 <= q /\ q < m
  <2>1. ASSUME q >= m PROVE FALSE
    <3>1. ByteSize * q >= ByteSize * m
      BY <1>1, <1>2, <1>3, <2>1
    <3> QED BY <1>1, <1>2, <1>3, <3>1
  <2>2. ASSUME q < 0 PROVE FALSE
    <3>1. ByteSize * q <= ByteSize * (-1)
      BY <1>1, <1>3, <2>2
    <3> QED BY <1>1, <1>3, <3>1
  <2> QED BY <1>3, <2>1, <2>2
<1>5. /\ WithByte(w, v) = ByteSize * q + v
      /\ ByteSize * q >= 0 /\ ByteSize * q <= ByteSize * (m - 1)
  BY <1>1, <1>2, <1>3, <1>4 DEF WithByte
<1> QED BY <1>1, <1>2, <1>3, <1>5 DEF Word

-----------------------------------------------------------------------------
(* Results and flags.                                                      *)

(* Every operation of the accumulator leaves a word and a PSR.             *)
LEMMA AluResultType ==
  ASSUME NEW op \in AluOps, NEW a \in Word, NEW b \in Word
  PROVE  AluResult(op, a, b) \in Word
  BY AddWordValue, SubWordValue, BitwiseType DEF AluResult, AluOps

LEMMA UpdateNZType ==
  ASSUME NEW p \in Psr, NEW r \in Word
  PROVE  UpdateNZ(p, r) \in Psr
<1>1. Negative(r) \in BOOLEAN
  BY DEF Negative
<1> QED BY <1>1 DEF UpdateNZ, Psr

LEMMA SetCarryOverflowType ==
  ASSUME NEW p \in Psr, NEW c \in BOOLEAN, NEW v \in BOOLEAN
  PROVE  [p EXCEPT !.c = c, !.v = v] \in Psr
  BY DEF Psr

LEMMA AluFlagsType ==
  ASSUME NEW op \in AluOps, NEW p \in Psr, NEW a \in Word, NEW b \in Word
  PROVE  AluFlags(op, p, a, b) \in Psr
<1>1. AddFlags(p, a, b) \in Psr
  <2>1. UpdateNZ(p, AddWord(a, b)) \in Psr
    BY AddWordValue, UpdateNZType
  <2>2. (a + b >= WordSize) \in BOOLEAN
    OBVIOUS
  <2>3. (Negative(a) = Negative(b) /\ Negative(a) # Negative(AddWord(a, b)))
          \in BOOLEAN
    BY Zenon
  <2> QED BY <2>1, <2>2, <2>3, SetCarryOverflowType, Zenon DEF AddFlags
<1>2. SubtractionFlags(p, a, b) \in Psr
  <2>1. UpdateNZ(p, SubWord(a, b)) \in Psr
    BY SubWordValue, UpdateNZType
  <2>2. (a >= b) \in BOOLEAN
    OBVIOUS
  <2>3. (Negative(a) # Negative(b) /\ Negative(a) # Negative(SubWord(a, b)))
          \in BOOLEAN
    BY Zenon
  <2> QED BY <2>1, <2>2, <2>3, SetCarryOverflowType, Zenon DEF SubtractionFlags
<1>3. UpdateNZ(p, AluResult(op, a, b)) \in Psr
  BY AluResultType, UpdateNZType
<1> QED BY <1>1, <1>2, <1>3 DEF AluFlags

(* What SUB and CMP leave in the flags, in terms of the operands           *)
(* (Cpu::subtraction_flags): Z is equality, C the unsigned order and N # V *)
(* the signed one, also when the difference wraps.                         *)
LEMMA SubtractionMeaning ==
  ASSUME NEW p \in Psr, NEW a \in Word, NEW b \in Word
  PROVE  LET f == SubtractionFlags(p, a, b)
         IN  /\ f.z <=> a = b
             /\ f.c <=> a >= b
             /\ f.n # f.v <=> Signed(a) < Signed(b)
<1> DEFINE f == SubtractionFlags(p, a, b)
           r == SubWord(a, b)
<1>1. /\ f.z <=> r = 0
      /\ f.c <=> a >= b
      /\ f.n = Negative(r)
      /\ f.v = (Negative(a) # Negative(b) /\ Negative(a) # Negative(r))
  BY DEF SubtractionFlags, UpdateNZ, Psr
<1>2. /\ r \in Word
      /\ r = IF a >= b THEN a - b ELSE a - b + WordSize
  BY SubWordValue
<1> HIDE DEF f, r
<1>3. f.z <=> a = b
  BY <1>1, <1>2, SizeFacts DEF Word
<1>4. f.n # f.v <=> Signed(a) < Signed(b)
  <2>1. /\ a \in Int /\ b \in Int /\ r \in Int
        /\ 0 <= a /\ a < WordSize /\ 0 <= b /\ b < WordSize
        /\ 0 <= r /\ r < WordSize
    BY <1>2, SizeFacts DEF Word
  <2>2. (f.n # f.v) <=> (Negative(r) # (Negative(a) # Negative(b)
                                       /\ Negative(a) # Negative(r)))
    BY <1>1
  <2> QED BY <1>2, <2>1, <2>2, SizeFacts DEF Negative, Signed
<1>5. f.c <=> a >= b
  BY <1>1
<1> QED BY <1>3, <1>4, <1>5 DEF f

(* What ADD leaves in the flags (Cpu::add): C says the unsigned sum did    *)
(* not fit, V the signed one.                                              *)
LEMMA AddMeaning ==
  ASSUME NEW p \in Psr, NEW a \in Word, NEW b \in Word
  PROVE  LET f == AddFlags(p, a, b)
             r == AddWord(a, b)
         IN  /\ f.c <=> a + b # r
             /\ f.v <=> Signed(a) + Signed(b) # Signed(r)
<1> DEFINE f == AddFlags(p, a, b)
           r == AddWord(a, b)
<1>1. /\ f.c <=> a + b >= WordSize
      /\ f.v <=> (Negative(a) = Negative(b) /\ Negative(a) # Negative(r))
  BY DEF AddFlags, UpdateNZ, Psr
<1>2. /\ r \in Word
      /\ r = IF a + b >= WordSize THEN a + b - WordSize ELSE a + b
  BY AddWordValue
<1> HIDE DEF f, r
<1>3. /\ a \in Int /\ b \in Int /\ r \in Int
      /\ 0 <= a /\ a < WordSize /\ 0 <= b /\ b < WordSize
      /\ 0 <= r /\ r < WordSize
  BY <1>2, SizeFacts DEF Word
<1>4. f.c <=> a + b # r
  BY <1>1, <1>2, <1>3, SizeFacts
<1>5. f.v <=> Signed(a) + Signed(b) # Signed(r)
  BY <1>1, <1>2, <1>3, SizeFacts DEF Negative, Signed
<1> QED BY <1>4, <1>5 DEF f, r

-----------------------------------------------------------------------------
(* The PSR survives the stack: IRET restores what interrupt entry pushed.  *)
LEMMA PsrRoundTrip ==
  ASSUME NEW p \in Psr
  PROVE  /\ PackPsr(p) \in 0 .. 31
         /\ UnpackPsr(PackPsr(p)) = p
<1>1. /\ p.v \in BOOLEAN /\ p.c \in BOOLEAN /\ p.z \in BOOLEAN
      /\ p.n \in BOOLEAN /\ p.ien \in BOOLEAN
      /\ p = [v |-> p.v, c |-> p.c, z |-> p.z, n |-> p.n, ien |-> p.ien]
  BY DEF Psr
<1>2. PackPsr(p) \in 0 .. 31
  BY <1>1 DEF PackPsr, Bit
<1>3. /\ HasBit(PackPsr(p), 1) = p.v /\ HasBit(PackPsr(p), 2) = p.c
      /\ HasBit(PackPsr(p), 4) = p.z /\ HasBit(PackPsr(p), 8) = p.n
      /\ HasBit(PackPsr(p), 16) = p.ien
  BY <1>1 DEF PackPsr, HasBit, Bit
<1> QED BY <1>1, <1>2, <1>3 DEF UnpackPsr

LEMMA UnpackPsrType ==
  ASSUME NEW w \in Word
  PROVE  UnpackPsr(w) \in Psr
  BY DEF UnpackPsr, HasBit, Psr

-----------------------------------------------------------------------------
(* The buses.                                                              *)

(* A new bus is a bus: empty queues, no countdown, outputs ready.          *)
LEMMA NewBusType == NewBus \in Bus
  BY BusAssumption, EmptySeq DEF NewBus, Bus, NoDelay

(* The countdown of one device moves within its range.                     *)
LEMMA SetDelayType ==
  ASSUME NEW b \in Bus, NEW k \in Kind, NEW d \in NoDelay .. MaxDelay
  PROVE  [b EXCEPT !.delay[k] = d] \in Bus
<1>1. [b.delay EXCEPT ![k] = d] \in [Kind -> NoDelay .. MaxDelay]
  BY DEF Bus
<1> QED BY <1>1 DEF Bus

(* The byte whose countdown has ended moves to the ready queue.            *)
LEMMA DeliverType ==
  ASSUME NEW b \in Bus, NEW k \in Kind, b.pending[k] # << >>
  PROVE  Deliver(b, k) \in Bus
<1> DEFINE ready   == [b.ready EXCEPT ![k] = Append(@, Head(b.pending[k]))]
           pending == [b.pending EXCEPT ![k] = Tail(@)]
           delay   == [b.delay EXCEPT ![k] = NoDelay]
<1>1. /\ b.pending[k] \in Seq(Byte) /\ b.ready[k] \in Seq(Byte)
  BY DEF Bus
<1>2. /\ Head(b.pending[k]) \in Byte /\ Tail(b.pending[k]) \in Seq(Byte)
  BY <1>1, HeadTailProperties
<1>3. Append(b.ready[k], Head(b.pending[k])) \in Seq(Byte)
  BY <1>1, <1>2, AppendProperties
<1>4. ready \in [Kind -> Seq(Byte)]
  BY <1>3 DEF Bus
<1>5. pending \in [Kind -> Seq(Byte)]
  BY <1>2 DEF Bus
<1>6. delay \in [Kind -> NoDelay .. MaxDelay]
  BY BusAssumption DEF Bus, NoDelay
<1>7. Deliver(b, k)
        = [b EXCEPT !.ready = ready, !.pending = pending, !.delay = delay]
  BY DEF Deliver, Bus
<1> HIDE DEF ready, pending, delay
<1> QED BY <1>4, <1>5, <1>6, <1>7 DEF Bus

(* One countdown step of a device whose pending queue is not empty leaves  *)
(* a bus (advance_input).                                                  *)
LEMMA AdvanceInputType ==
  ASSUME NEW b \in Bus, NEW k \in Kind, b.pending[k] # << >>,
         NEW s \in AdvanceInput(b, k)
  PROVE  s \in Bus
<1>1. CASE b.delay[k] = NoDelay
  <2>1. PICK d \in 1 .. MaxDelay : s = [b EXCEPT !.delay[k] = d]
    BY <1>1 DEF AdvanceInput, StartCountdown
  <2>2. d \in NoDelay .. MaxDelay
    BY BusAssumption DEF NoDelay
  <2> QED BY <2>1, <2>2, SetDelayType
<1>2. CASE b.delay[k] # NoDelay /\ b.delay[k] = 0
  <2>1. s = Deliver(b, k)
    BY <1>2 DEF AdvanceInput
  <2> QED BY <2>1, DeliverType
<1>3. CASE b.delay[k] # NoDelay /\ b.delay[k] # 0
  <2>1. s = [b EXCEPT !.delay[k] = b.delay[k] - 1]
    BY <1>3 DEF AdvanceInput, CountDown
  <2>2. b.delay[k] - 1 \in NoDelay .. MaxDelay
    BY <1>3, BusAssumption DEF Bus, NoDelay
  <2> QED BY <2>1, <2>2, SetDelayType
<1> QED BY <1>1, <1>2, <1>3

LEMMA AdvanceType ==
  ASSUME NEW b \in Bus, NEW k \in Kind, NEW ien, NEW mask,
         NEW s \in Advance(b, k, ien, mask)
  PROVE  s \in Bus
<1>1. CASE Waiting(b, k, ien, mask)
  <2>1. s \in AdvanceInput(b, k) /\ b.pending[k] # << >>
    BY <1>1 DEF Advance, Waiting
  <2> QED BY <2>1, AdvanceInputType
<1>2. CASE ~ Waiting(b, k, ien, mask)
  BY <1>2 DEF Advance
<1> QED BY <1>1, <1>2

(* What a tick does is the serial step, then the parallel one, on a bus    *)
(* whose outputs are ready.                                                *)
LEMMA TickSteps ==
  ASSUME NEW b \in Bus, NEW ien, NEW mask, NEW t \in Tick(b, ien, mask)
  PROVE  \E s \in Advance([b EXCEPT !.outputReady = [k \in Kind |-> TRUE]],
                          "serial", ien, mask) :
           t \in Advance(s, "parallel", ien, mask)
  BY DEF Tick

(* A tick leaves a bus, whatever the program has enabled.                  *)
LEMMA TickType ==
  ASSUME NEW b \in Bus, NEW ien, NEW mask, NEW t \in Tick(b, ien, mask)
  PROVE  t \in Bus
<1> DEFINE r == [b EXCEPT !.outputReady = [k \in Kind |-> TRUE]]
<1>1. r \in Bus
  BY DEF Bus
<1>2. PICK s \in Advance(r, "serial", ien, mask) :
        t \in Advance(s, "parallel", ien, mask)
  BY TickSteps
<1>3. "serial" \in Kind /\ "parallel" \in Kind
  BY DEF Kind
<1> HIDE DEF r
<1>4. s \in Bus
  BY <1>1, <1>2, <1>3, AdvanceType
<1> QED BY <1>2, <1>3, <1>4, AdvanceType

(* The calls a program and a host make on a bus.                           *)
LEMMA PushPendingType ==
  ASSUME NEW b \in Bus, NEW k \in Kind, NEW v \in Byte
  PROVE  PushPending(b, k, v) \in Bus
<1>1. Append(b.pending[k], v) \in Seq(Byte)
  BY AppendProperties DEF Bus
<1>2. [b.pending EXCEPT ![k] = Append(@, v)] \in [Kind -> Seq(Byte)]
  BY <1>1 DEF Bus
<1> QED BY <1>2 DEF PushPending, Bus

LEMMA PushReadyType ==
  ASSUME NEW b \in Bus, NEW k \in Kind, NEW v \in Byte
  PROVE  PushReady(b, k, v) \in Bus
<1>1. Append(b.ready[k], v) \in Seq(Byte)
  BY AppendProperties DEF Bus
<1>2. [b.ready EXCEPT ![k] = Append(@, v)] \in [Kind -> Seq(Byte)]
  BY <1>1 DEF Bus
<1> QED BY <1>2 DEF PushReady, Bus

LEMMA SetForcedType ==
  ASSUME NEW b \in Bus, NEW f \in BOOLEAN
  PROVE  SetForced(b, f) \in Bus
  BY DEF SetForced, Bus

LEMMA ReadInputType ==
  ASSUME NEW b \in Bus, NEW k \in Kind, InputReady(b, k)
  PROVE  /\ ReadInput(b, k) \in Bus
         /\ Head(b.ready[k]) \in Byte
<1>1. b.ready[k] \in Seq(Byte) /\ b.ready[k] # << >>
  BY DEF Bus, InputReady
<1>2. Head(b.ready[k]) \in Byte /\ Tail(b.ready[k]) \in Seq(Byte)
  BY <1>1, HeadTailProperties
<1> QED BY <1>2 DEF ReadInput, Bus

LEMMA WriteOutputType ==
  ASSUME NEW b \in Bus, NEW k \in Kind, NEW v \in Byte
  PROVE  WriteOutput(b, k, v) \in Bus
<1>1. b.output[k] \in Seq(Byte)
  BY DEF Bus
<1>2. Append(b.output[k], v) \in Seq(Byte)
  BY <1>1
<1> QED BY <1>1, <1>2 DEF WriteOutput, Bus
=============================================================================
