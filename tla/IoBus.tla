-------------------------------- MODULE IoBus --------------------------------
(***************************************************************************)
(* The peripheral buses of emulator.rs as values: a serial and a parallel  *)
(* device, each with an input queue, an output log and an output-ready     *)
(* flag.                                                                   *)
(*                                                                         *)
(* LegacyIoBus wraps a DeterministicIoBus: a byte pushed into it waits in  *)
(* "pending" behind a countdown before the inner bus makes it "ready".     *)
(* Over the deterministic bus nothing is ever pending, so one Tick serves  *)
(* both.  The countdown starts at a value drawn by a generator in 1..50;   *)
(* here it is any value in 1..MaxDelay.                                    *)
(***************************************************************************)
EXTENDS Integers, Sequences

CONSTANTS
  Byte,       \* the values a device transfers
  MaxDelay,   \* 50: the longest countdown
  MaxOutput   \* bound: the bytes of an output log that are kept

ASSUME BusAssumption == MaxDelay \in Nat \ {0} /\ MaxOutput \in Nat

Kind == {"serial", "parallel"}

NoDelay == -1                            \* Option<u8>::None

Bus == [ready       : [Kind -> Seq(Byte)],
        pending     : [Kind -> Seq(Byte)],
        delay       : [Kind -> NoDelay .. MaxDelay],
        output      : [Kind -> Seq(Byte)],
        outputReady : [Kind -> BOOLEAN],
        forced      : BOOLEAN]

NewBus == [ready       |-> [k \in Kind |-> << >>],
           pending     |-> [k \in Kind |-> << >>],
           delay       |-> [k \in Kind |-> NoDelay],
           output      |-> [k \in Kind |-> << >>],
           outputReady |-> [k \in Kind |-> TRUE],
           forced      |-> FALSE]

(* The four interrupt sources, one per bit of the interrupt mask.          *)
Source == {"serialIn", "serialOut", "parallelIn", "parallelOut"}

InputSource(k)  == IF k = "serial" THEN "serialIn"  ELSE "parallelIn"
OutputSource(k) == IF k = "serial" THEN "serialOut" ELSE "parallelOut"

InputReady(b, k)  == b.ready[k] # << >>
OutputReady(b, k) == b.outputReady[k]

SourcePending(b, mask) ==
  \E k \in Kind : \/ InputSource(k)  \in mask /\ InputReady(b, k)
                  \/ OutputSource(k) \in mask /\ OutputReady(b, k)

-----------------------------------------------------------------------------
PushReady(b, k, v)   == [b EXCEPT !.ready[k] = Append(@, v)]

(* Mutant: the newest byte is read first.                                  *)
PushPendingFront(b, k, v) == [b EXCEPT !.pending[k] = <<v>> \o @]

PushPending(b, k, v) == [b EXCEPT !.pending[k] = Append(@, v)]
SetForced(b, f)      == [b EXCEPT !.forced = f]

ReadInput(b, k)      == [b EXCEPT !.ready[k] = Tail(@)]
WriteOutput(b, k, v) ==
  [b EXCEPT !.output[k] = IF Len(@) < MaxOutput THEN Append(@, v) ELSE @,
            !.outputReady[k] = FALSE]

(* advance_input: one step of the countdown of device k, whose pending     *)
(* queue is not empty.                                                     *)

(* Mutant: a countdown one longer than the longest.                        *)
StartCountdownLong(b, k) ==
  {[b EXCEPT !.delay[k] = d] : d \in 1 .. MaxDelay + 1}

StartCountdown(b, k) == {[b EXCEPT !.delay[k] = d] : d \in 1 .. MaxDelay}
CountDown(b, k)      == [b EXCEPT !.delay[k] = @ - 1]

(* Mutant: the countdown that ended is kept.                               *)
DeliverKeepingDelay(b, k) ==
  [b EXCEPT !.ready[k]   = Append(@, Head(b.pending[k])),
            !.pending[k] = Tail(@)]

Deliver(b, k) ==
  [b EXCEPT !.ready[k]   = Append(@, Head(b.pending[k])),
            !.pending[k] = Tail(@),
            !.delay[k]   = NoDelay]

(* Mutant: a countdown that ends starts again.                             *)
AdvanceInputForEver(b, k) ==
  IF b.delay[k] = NoDelay THEN StartCountdown(b, k) ELSE {CountDown(b, k)}

AdvanceInput(b, k) ==
  IF b.delay[k] = NoDelay THEN StartCountdown(b, k)
  ELSE {IF b.delay[k] = 0 THEN Deliver(b, k) ELSE CountDown(b, k)}

(* Mutant: the countdown runs while a byte is still unread.                *)
WaitingBehindReady(b, k, ien, mask) ==
  ien /\ InputSource(k) \in mask /\ b.pending[k] # << >>

Waiting(b, k, ien, mask) ==
  ien /\ InputSource(k) \in mask /\ b.pending[k] # << >> /\ b.ready[k] = << >>

Advance(b, k, ien, mask) ==
  IF Waiting(b, k, ien, mask) THEN AdvanceInput(b, k) ELSE {b}

(* The buses a tick may leave: every output is ready again, then the       *)
(* serial and the parallel countdown each take their step.                 *)
Tick(b, ien, mask) ==
  LET t == [b EXCEPT !.outputReady = [k \in Kind |-> TRUE]]
  IN  UNION {Advance(s, "parallel", ien, mask) :
               s \in Advance(t, "serial", ien, mask)}
=============================================================================
