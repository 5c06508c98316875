---------------------------- MODULE LegacyIoProofs ---------------------------
(***************************************************************************)
(* LegacyIo for every set of bytes and every longest countdown: the shape  *)
(* of the queues and countdowns, and that the bus is a byte stream.        *)
(***************************************************************************)
EXTENDS LegacyIo, ValueProofs

(* OneReady and CountdownHasByte of one bus, together: each is what keeps  *)
(* the other.  A read can leave a countdown without its byte only if one   *)
(* runs while a byte is ready; a delivery can make a second byte ready     *)
(* only if a countdown runs while one is.                                  *)
Sound(b) ==
  \A k \in Kind :
    /\ Len(b.ready[k]) <= 1
    /\ b.delay[k] # NoDelay => b.pending[k] # << >> /\ b.ready[k] = << >>

(* The bytes pushed into device k and not yet read.                        *)
Unread(b) == [k \in Kind |-> b.ready[k] \o b.pending[k]]

-----------------------------------------------------------------------------
(* Moving the first element of one sequence to the end of another keeps    *)
(* their concatenation.                                                    *)
LEMMA MoveHead ==
  ASSUME NEW S, NEW r \in Seq(S), NEW p \in Seq(S), p # << >>
  PROVE  Append(r, Head(p)) \o Tail(p) = r \o p
<1>1. Head(p) \in S /\ Tail(p) \in Seq(S)
  BY HeadTailProperties
<1>2. Append(r, Head(p)) \in Seq(S)
  BY <1>1, AppendProperties
<1> QED BY <1>1, <1>2

(* What is taken from a concatenation comes from its first part.           *)
LEMMA FrontOfConcat ==
  ASSUME NEW S, NEW r \in Seq(S), NEW p \in Seq(S), r # << >>
  PROVE  LET q == r \o p
         IN  /\ q # << >> /\ Head(q) = Head(r)
             /\ Tail(q) = Tail(r) \o p
<1>1. Tail(r) \in Seq(S) /\ Len(r) \in Nat \ {0} /\ Len(p) \in Nat
  BY HeadTailProperties, EmptySeq, LenProperties
<1>2. (r \o p) \in Seq(S) /\ Len(r \o p) = Len(r) + Len(p)
  BY ConcatProperties
<1>3. r \o p # << >> /\ Head(r \o p) = Head(r)
  BY <1>1, <1>2
<1>4. Tail(r \o p) = Tail(r) \o p
  BY <1>1, <1>2, <1>3
<1> QED BY <1>3, <1>4

(* Appending to the second part of a concatenation appends to the whole.   *)
LEMMA AppendToConcat ==
  ASSUME NEW r \in Seq(Byte), NEW p \in Seq(Byte), NEW v \in Byte
  PROVE  r \o Append(p, v) = Append(r \o p, v)
<1>1. Append(p, v) \in Seq(Byte) /\ r \o p \in Seq(Byte)
  BY AppendProperties, ConcatProperties
<1>2. r \o Append(p, v) \in Seq(Byte) /\ Append(r \o p, v) \in Seq(Byte)
  BY <1>1, AppendProperties, ConcatProperties
<1>3. /\ Len(r \o Append(p, v)) = Len(r) + Len(p) + 1
      /\ Len(Append(r \o p, v)) = Len(r) + Len(p) + 1
      /\ Len(r) \in Nat /\ Len(p) \in Nat
  BY <1>1, LenProperties, AppendProperties, ConcatProperties
<1>4. ASSUME NEW i \in 1 .. Len(r) + Len(p) + 1
      PROVE  (r \o Append(p, v))[i] = Append(r \o p, v)[i]
  BY <1>1, <1>3
<1> QED BY <1>2, <1>3, <1>4, SeqEqual

(* A countdown step of one device keeps a bus sound.                       *)
LEMMA AdvanceSound ==
  ASSUME NEW b \in Bus, Sound(b), NEW k \in Kind, NEW en, NEW m,
         NEW s \in Advance(b, k, en, m)
  PROVE  Sound(s)
<1>1. CASE ~ Waiting(b, k, en, m)
  BY <1>1 DEF Advance
<1>2. CASE Waiting(b, k, en, m)
  <2>1. /\ b.pending[k] # << >> /\ b.ready[k] = << >>
        /\ s \in AdvanceInput(b, k)
    BY <1>2 DEF Waiting, Advance
  <2>2. CASE b.delay[k] = NoDelay
    <3>1. PICK d \in 1 .. MaxDelay : s = [b EXCEPT !.delay[k] = d]
      BY <2>1, <2>2 DEF AdvanceInput, StartCountdown
    <3> QED BY <2>1, <3>1 DEF Sound, Bus
  <2>3. CASE b.delay[k] # NoDelay /\ b.delay[k] = 0
    <3>1. s = Deliver(b, k)
      BY <2>1, <2>3 DEF AdvanceInput
    <3>2. /\ s.ready = [b.ready EXCEPT ![k] = Append(@, Head(b.pending[k]))]
          /\ s.pending = [b.pending EXCEPT ![k] = Tail(@)]
          /\ s.delay = [b.delay EXCEPT ![k] = NoDelay]
      BY <3>1 DEF Deliver, Bus
    <3>3. Head(b.pending[k]) \in Byte
      BY <2>1, HeadTailProperties DEF Bus
    <3>4. Len(s.ready[k]) = 1
      <4>1. s.ready[k] = Append(<< >>, Head(b.pending[k]))
        BY <2>1, <3>2 DEF Bus
      <4>2. << >> \in Seq(Byte) /\ Len(<< >>) = 0
        BY EmptySeq
      <4> QED BY <3>3, <4>1, <4>2, AppendProperties
    <3>5. s.delay[k] = NoDelay
      BY <3>2 DEF Bus
    <3>6. ASSUME NEW j \in Kind, j # k
          PROVE  /\ s.ready[j] = b.ready[j] /\ s.pending[j] = b.pending[j]
                 /\ s.delay[j] = b.delay[j]
      BY <3>2, <3>6 DEF Bus
    <3>7. SUFFICES ASSUME NEW j \in Kind
                   PROVE  /\ Len(s.ready[j]) <= 1
                          /\ s.delay[j] # NoDelay
                               => s.pending[j] # << >> /\ s.ready[j] = << >>
      BY DEF Sound
    <3>8. CASE j = k
      <4>1. Len(s.ready[j]) = 1 /\ s.delay[j] = NoDelay
        BY <3>4, <3>5, <3>8
      <4> QED BY <4>1
    <3>9. CASE j # k
      BY <3>6, <3>9 DEF Sound
    <3> QED BY <3>8, <3>9
  <2>4. CASE b.delay[k] # NoDelay /\ b.delay[k] # 0
    <3>1. s = [b EXCEPT !.delay[k] = b.delay[k] - 1]
      BY <2>1, <2>4 DEF AdvanceInput, CountDown
    <3> QED BY <2>1, <3>1 DEF Sound, Bus
  <2> QED BY <2>2, <2>3, <2>4
<1> QED BY <1>1, <1>2

(* A countdown step of one device keeps the bytes to be read, in order.    *)
LEMMA AdvanceUnread ==
  ASSUME NEW b \in Bus, NEW k \in Kind, NEW en, NEW m,
         NEW s \in Advance(b, k, en, m)
  PROVE  Unread(s) = Unread(b)
<1>1. CASE ~ Waiting(b, k, en, m)
  BY <1>1 DEF Advance
<1>2. CASE Waiting(b, k, en, m)
  <2>1. /\ b.pending[k] # << >> /\ s \in AdvanceInput(b, k)
    BY <1>2 DEF Waiting, Advance
  <2>2. CASE b.delay[k] = NoDelay
    <3>1. PICK d \in 1 .. MaxDelay : s = [b EXCEPT !.delay[k] = d]
      BY <2>1, <2>2 DEF AdvanceInput, StartCountdown
    <3>2. s.ready = b.ready /\ s.pending = b.pending
      BY <3>1 DEF Bus
    <3> QED BY <3>2 DEF Unread
  <2>3. CASE b.delay[k] # NoDelay /\ b.delay[k] = 0
    <3>1. s = Deliver(b, k)
      BY <2>1, <2>3 DEF AdvanceInput
    <3>2. /\ s.ready = [b.ready EXCEPT ![k] = Append(@, Head(b.pending[k]))]
          /\ s.pending = [b.pending EXCEPT ![k] = Tail(@)]
      BY <3>1 DEF Deliver, Bus
    <3>3. b.ready[k] \in Seq(Byte) /\ b.pending[k] \in Seq(Byte)
      BY DEF Bus
    <3>4. s.ready[k] \o s.pending[k] = b.ready[k] \o b.pending[k]
      <4>1. /\ s.ready[k] = Append(b.ready[k], Head(b.pending[k]))
            /\ s.pending[k] = Tail(b.pending[k])
        BY <3>2 DEF Bus
      <4> QED BY <2>1, <3>3, <4>1, MoveHead
    <3>5. ASSUME NEW j \in Kind, j # k
          PROVE  s.ready[j] \o s.pending[j] = b.ready[j] \o b.pending[j]
      BY <3>2, <3>5 DEF Bus
    <3> QED BY <3>4, <3>5 DEF Unread
  <2>4. CASE b.delay[k] # NoDelay /\ b.delay[k] # 0
    <3>1. s = [b EXCEPT !.delay[k] = b.delay[k] - 1]
      BY <2>1, <2>4 DEF AdvanceInput, CountDown
    <3>2. s.ready = b.ready /\ s.pending = b.pending
      BY <3>1 DEF Bus
    <3> QED BY <3>2 DEF Unread
  <2> QED BY <2>2, <2>3, <2>4
<1> QED BY <1>1, <1>2

(* A tick keeps both.                                                      *)
LEMMA TickSound ==
  ASSUME NEW b \in Bus, NEW en, NEW m, NEW t \in Tick(b, en, m)
  PROVE  /\ Unread(t) = Unread(b)
         /\ Sound(b) => Sound(t)
<1> DEFINE r == [b EXCEPT !.outputReady = [k \in Kind |-> TRUE]]
<1>1. /\ r \in Bus
      /\ r.ready = b.ready /\ r.pending = b.pending /\ r.delay = b.delay
  BY DEF Bus
<1>2. Unread(r) = Unread(b) /\ (Sound(b) => Sound(r))
  BY <1>1 DEF Unread, Sound
<1>3. PICK s \in Advance(r, "serial", en, m) :
        t \in Advance(s, "parallel", en, m)
  BY TickSteps
<1>4. "serial" \in Kind /\ "parallel" \in Kind
  BY DEF Kind
<1> HIDE DEF r
<1>5. s \in Bus
  BY <1>1, <1>3, <1>4, AdvanceType
<1>6. Unread(s) = Unread(r) /\ Unread(t) = Unread(s)
  BY <1>1, <1>3, <1>4, <1>5, AdvanceUnread
<1>7. Sound(r) => Sound(s)
  BY <1>1, <1>3, <1>4, AdvanceSound
<1>8. Sound(s) => Sound(t)
  BY <1>3, <1>4, <1>5, AdvanceSound
<1> QED BY <1>2, <1>6, <1>7, <1>8

-----------------------------------------------------------------------------
(* The bus stays a bus under every tick, push, read and write, whatever    *)
(* the program enables (LegacyIoBus).                                      *)
THEOREM TypeCorrect == Spec => []TypeOK
<1>1. Init => TypeOK
  BY NewBusType DEF Init, TypeOK
<1>2. TypeOK /\ [Next]_lvars => TypeOK'
  <2> SUFFICES ASSUME TypeOK, [Next]_lvars PROVE TypeOK'
    OBVIOUS
  <2> USE DEF TypeOK
  <2>1. ASSUME NEW k \in Kind, NEW v \in Byte, Push(k, v) PROVE TypeOK'
    BY <2>1, PushPendingType DEF Push
  <2>2. CASE TickBus
    BY <2>2, TickType DEF TickBus
  <2>3. ASSUME NEW k \in Kind, Read(k) PROVE TypeOK'
    <3>1. CASE InputReady(bus, k)
      BY <2>3, <3>1, ReadInputType DEF Read
    <3>2. CASE ~ InputReady(bus, k)
      BY <2>3, <3>2 DEF Read
    <3> QED BY <3>1, <3>2
  <2>4. ASSUME NEW k \in Kind, NEW v \in Byte, Write(k, v) PROVE TypeOK'
    BY <2>4, WriteOutputType DEF Write
  <2>5. CASE SetEnable
    BY <2>5 DEF SetEnable
  <2>6. CASE SetMask
    BY <2>6 DEF SetMask
  <2>7. CASE UNCHANGED lvars
    BY <2>7 DEF lvars
  <2> QED BY <2>1, <2>2, <2>3, <2>4, <2>5, <2>6, <2>7 DEF Next, Program
<1> QED BY <1>1, <1>2, PTL DEF Spec

(* A device never holds two bytes ready and no countdown outlives its      *)
(* byte, together: neither is inductive without the other.                 *)
THEOREM BusSound == Spec => []Sound(bus)
<1>1. Init => Sound(bus)
  BY EmptySeq DEF Init, NewBus, Sound
<1>2. TypeOK /\ Sound(bus) /\ [Next]_lvars => Sound(bus)'
  <2> SUFFICES ASSUME TypeOK, Sound(bus), [Next]_lvars PROVE Sound(bus)'
    OBVIOUS
  <2>0. bus \in Bus
    BY DEF TypeOK
  <2>1. ASSUME NEW k \in Kind, NEW v \in Byte, Push(k, v) PROVE Sound(bus)'
    <3>1. /\ bus'.ready = bus.ready /\ bus'.delay = bus.delay
          /\ bus'.pending = [bus.pending EXCEPT ![k] = Append(@, v)]
      BY <2>0, <2>1 DEF Push, PushPending, Bus
    <3>2. Append(bus.pending[k], v) # << >>
      <4>1. bus.pending[k] \in Seq(Byte)
        BY <2>0 DEF Bus
      <4>2. Append(bus.pending[k], v)[Len(bus.pending[k]) + 1] = v
            /\ Len(Append(bus.pending[k], v)) = Len(bus.pending[k]) + 1
        BY <4>1, AppendProperties
      <4> QED BY <4>1, <4>2, EmptySeq, LenProperties
    <3> QED BY <2>0, <3>1, <3>2 DEF Sound, Bus
  <2>2. CASE TickBus
    BY <2>0, <2>2, TickSound DEF TickBus
  <2>3. ASSUME NEW k \in Kind, Read(k) PROVE Sound(bus)'
    <3>1. CASE InputReady(bus, k)
      <4>1. /\ bus'.ready = [bus.ready EXCEPT ![k] = Tail(@)]
            /\ bus'.pending = bus.pending /\ bus'.delay = bus.delay
        BY <2>0, <2>3, <3>1 DEF Read, ReadInput, Bus
      <4>2. bus.delay[k] = NoDelay
        BY <3>1 DEF Sound, InputReady
      <4>3. Len(Tail(bus.ready[k])) <= 1
        <5>1. bus.ready[k] \in Seq(Byte) /\ bus.ready[k] # << >>
          BY <2>0, <3>1 DEF Bus, InputReady
        <5>2. Len(Tail(bus.ready[k])) = Len(bus.ready[k]) - 1
          BY <5>1, HeadTailProperties
        <5> QED BY <5>1, <5>2, LenProperties DEF Sound
      <4> QED BY <2>0, <4>1, <4>2, <4>3 DEF Sound, Bus
    <3>2. CASE ~ InputReady(bus, k)
      BY <2>3, <3>2 DEF Read, Sound
    <3> QED BY <3>1, <3>2
  <2>4. ASSUME NEW k \in Kind, NEW v \in Byte, Write(k, v) PROVE Sound(bus)'
    <3>1. /\ bus'.ready = bus.ready /\ bus'.pending = bus.pending
          /\ bus'.delay = bus.delay
      BY <2>0, <2>4 DEF Write, WriteOutput, Bus
    <3> QED BY <3>1 DEF Sound
  <2>5. CASE SetEnable \/ SetMask \/ UNCHANGED lvars
    BY <2>5 DEF SetEnable, SetMask, lvars, Sound
  <2> QED BY <2>1, <2>2, <2>3, <2>4, <2>5 DEF Next, Program
<1> QED BY <1>1, <1>2, TypeCorrect, PTL DEF Spec

(* At most one byte is ready per device (OneReady), for every countdown.   *)
THEOREM OneReadyCorrect == Spec => []OneReady
<1>1. Sound(bus) => OneReady
  BY DEF Sound, OneReady
<1> QED BY <1>1, BusSound, PTL

(* A countdown always has its byte (CountdownHasByte).                     *)
THEOREM CountdownCorrect == Spec => []CountdownHasByte
<1>1. Sound(bus) => CountdownHasByte
  BY DEF Sound, CountdownHasByte
<1> QED BY <1>1, BusSound, PTL

-----------------------------------------------------------------------------
(* Nothing pushed is lost, repeated or reordered: LegacyIo implements      *)
(* ByteStream, whose queue is what is ready followed by what is pending.   *)
(* A tick, a write and a change of IEN or mask are stuttering steps.       *)
THEOREM StreamCorrect == Spec => StreamSpec
<1> DEFINE queue == [k \in Kind |-> bus.ready[k] \o bus.pending[k]]
<1>1. Init => Stream!Init
  BY EmptySeq, ConcatEmptySeq DEF Init, Stream!Init, NewBus
<1>2. TypeOK /\ [Next]_lvars => [Stream!Next]_(Stream!svars)
  <2> SUFFICES ASSUME TypeOK, [Next]_lvars
               PROVE  Stream!Next \/ UNCHANGED <<queue, taken>>
    BY DEF Stream!svars
  <2>0. /\ bus \in Bus
        /\ \A k \in Kind : bus.ready[k] \in Seq(Byte) /\ bus.pending[k] \in Seq(Byte)
    BY DEF TypeOK, Bus
  <2>1. ASSUME NEW k \in Kind, NEW v \in Byte, Push(k, v) PROVE Stream!Push(k, v)
    <3>1. /\ bus'.ready = bus.ready /\ taken' = taken
          /\ bus'.pending = [bus.pending EXCEPT ![k] = Append(@, v)]
      BY <2>0, <2>1 DEF Push, PushPending, Bus
    <3>2. bus.ready[k] \o Append(bus.pending[k], v)
            = Append(bus.ready[k] \o bus.pending[k], v)
      <4>1. bus.ready[k] \in Seq(Byte) /\ bus.pending[k] \in Seq(Byte)
        BY <2>0
      <4> QED BY <4>1, AppendToConcat
    <3>3. queue' = [queue EXCEPT ![k] = Append(@, v)]
      BY <2>0, <3>1, <3>2 DEF Bus
    <3> QED BY <3>1, <3>3 DEF Stream!Push
  <2>2. CASE TickBus
    <3>1. Unread(bus') = Unread(bus)
      BY <2>0, <2>2, TickSound DEF TickBus
    <3> QED BY <2>2, <3>1 DEF TickBus, Unread
  <2>3. ASSUME NEW k \in Kind, Read(k)
        PROVE  Stream!Take(k) \/ Stream!TakeNothing
    <3>1. CASE InputReady(bus, k)
      <4>1. /\ bus'.ready = [bus.ready EXCEPT ![k] = Tail(@)]
            /\ bus'.pending = bus.pending
            /\ taken' = <<k, Head(bus.ready[k])>>
        BY <2>0, <2>3, <3>1 DEF Read, ReadInput, Bus
      <4>2. bus.ready[k] # << >>
        BY <3>1 DEF InputReady
      <4>3. LET q == bus.ready[k] \o bus.pending[k]
            IN  /\ q # << >> /\ Head(q) = Head(bus.ready[k])
                /\ Tail(q) = Tail(bus.ready[k]) \o bus.pending[k]
        BY <2>0, <4>2, FrontOfConcat
      <4>4. queue' = [queue EXCEPT ![k] = Tail(@)]
        BY <2>0, <4>1, <4>3 DEF Bus
      <4> QED BY <4>1, <4>3, <4>4 DEF Stream!Take
    <3>2. CASE ~ InputReady(bus, k)
      BY <2>3, <3>2 DEF Read, Stream!TakeNothing
    <3> QED BY <3>1, <3>2
  <2>4. ASSUME NEW k \in Kind, NEW v \in Byte, Write(k, v)
        PROVE  UNCHANGED <<queue, taken>>
    <3>1. bus'.ready = bus.ready /\ bus'.pending = bus.pending /\ taken' = taken
      BY <2>0, <2>4 DEF Write, WriteOutput, Bus
    <3> QED BY <3>1
  <2>5. CASE SetEnable \/ SetMask \/ UNCHANGED lvars
    BY <2>5 DEF SetEnable, SetMask, lvars
  <2> QED
    BY <2>1, <2>2, <2>3, <2>4, <2>5 DEF Next, Program, Stream!Next
<1> QED BY <1>1, <1>2, TypeCorrect, PTL DEF Spec, StreamSpec, Stream!Spec
=============================================================================
