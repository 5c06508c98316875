----------------------------- MODULE ByteStream ------------------------------
(***************************************************************************)
(* What an input device promises a program: the bytes the host pushes are  *)
(* read in order, each once.  A read may find nothing even though bytes    *)
(* were pushed: a device may hold them back.                               *)
(***************************************************************************)
EXTENDS Sequences

CONSTANTS Kind, Byte

VARIABLES queue,     \* pushed and not yet read, per device
          taken      \* the read that just happened: <<device, byte>> or << >>

svars == <<queue, taken>>

Init == queue = [k \in Kind |-> << >>] /\ taken = << >>

Push(k, v) ==
  /\ queue' = [queue EXCEPT ![k] = Append(@, v)]
  /\ UNCHANGED taken

Take(k) ==
  /\ queue[k] # << >>
  /\ taken' = <<k, Head(queue[k])>>
  /\ queue' = [queue EXCEPT ![k] = Tail(@)]

TakeNothing == taken' = << >> /\ UNCHANGED queue

Next ==
  \/ \E k \in Kind, v \in Byte : Push(k, v)
  \/ \E k \in Kind : Take(k)
  \/ TakeNothing

Spec == Init /\ [][Next]_svars
=============================================================================
