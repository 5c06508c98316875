------------------------------ MODULE LegacyIo -------------------------------
(***************************************************************************)
(* LegacyIoBus of emulator.rs driven the way the processor drives it: a    *)
(* tick with the current IEN and mask before every instruction, reads and  *)
(* writes of the selected device by INP and OUT, and a host that pushes    *)
(* input at any time.  The program enables and masks interrupts at will.   *)
(***************************************************************************)
EXTENDS IoBus

CONSTANT MaxHeld       \* bound: bytes the host leaves unread in one device

VARIABLES bus, ien,
          mask,      \* the input sources the program has enabled
          taken        \* what the last read_input answered, for the reader

lvars == <<bus, ien, mask, taken>>

(* The bus never looks at the output bits of the mask.                     *)
InputSources == {InputSource(k) : k \in Kind}

TypeOK ==
  /\ bus \in Bus
  /\ ien \in BOOLEAN
  /\ mask \in SUBSET InputSources
  /\ taken \in {<< >>} \cup (Kind \X Byte)

Init == bus = NewBus /\ ien = FALSE /\ mask = {} /\ taken = << >>

Push(k, v) ==
  /\ Len(bus.pending[k]) + Len(bus.ready[k]) < MaxHeld
  /\ bus' = PushPending(bus, k, v)
  /\ UNCHANGED <<ien, mask, taken>>

TickBus ==
  /\ bus' \in Tick(bus, ien, mask)
  /\ UNCHANGED <<ien, mask, taken>>

Read(k) ==
  /\ IF InputReady(bus, k)
     THEN taken' = <<k, Head(bus.ready[k])>> /\ bus' = ReadInput(bus, k)
     ELSE taken' = << >> /\ UNCHANGED bus
  /\ UNCHANGED <<ien, mask>>

Write(k, v) ==
  /\ bus' = WriteOutput(bus, k, v)
  /\ UNCHANGED <<ien, mask, taken>>

(* ION, IOF, IRET, interrupt entry and IMK, seen from the bus.             *)
SetEnable == ien' \in BOOLEAN /\ UNCHANGED <<bus, mask, taken>>

SetMask == mask' \in SUBSET InputSources /\ UNCHANGED <<bus, ien, taken>>

Program ==
  \/ \E k \in Kind : Read(k)
  \/ \E k \in Kind, v \in Byte : Write(k, v)
  \/ SetEnable
  \/ SetMask

Next == TickBus \/ Program \/ \E k \in Kind, v \in Byte : Push(k, v)

Spec == Init /\ [][Next]_lvars

(* The processor never stops stepping, so the bus never stops ticking.     *)
FairSpec == Spec /\ WF_lvars(TickBus)

-----------------------------------------------------------------------------
(* A device holds at most one byte ready, so a byte that has become ready  *)
(* is read before the countdown of the next one can start.                 *)
OneReady == \A k \in Kind : Len(bus.ready[k]) <= 1

(* A countdown runs only for a byte that waits behind it, with no other    *)
(* byte ready in front: no countdown is left over to shorten or lengthen   *)
(* the wait of a byte pushed later.                                        *)
CountdownHasByte ==
  \A k \in Kind :
    bus.delay[k] # NoDelay => bus.pending[k] # << >> /\ bus.ready[k] = << >>

(* The bus is a byte stream: nothing pushed is lost, repeated or           *)
(* reordered by the countdowns, whatever the program does with IEN and the *)
(* mask meanwhile.                                                         *)
Stream == INSTANCE ByteStream
            WITH queue <- [k \in Kind |-> bus.ready[k] \o bus.pending[k]]

StreamSpec == Stream!Spec

(* With the device's input interrupt enabled for good, every byte that     *)
(* waits becomes ready.                                                    *)
Enabled(k) == ien /\ InputSource(k) \in mask

Delivered ==
  \A k \in Kind :
    <>[]Enabled(k) => [](bus.pending[k] # << >> => <>(bus.ready[k] # << >>))
=============================================================================
