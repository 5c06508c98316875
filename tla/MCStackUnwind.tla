---------------------------- MODULE MCStackUnwind -----------------------------
(***************************************************************************)
(* A program of six addresses: 0 is nobody's, 1 is the startup code, f has *)
(* 2 and 3 and a frame without storage, g has 4 and 5 and one local; the   *)
(* metadata of 3 cannot be right (a slot pushed above the frame's base);   *)
(* and every memory of return addresses into them.                         *)
(***************************************************************************)
EXTENDS StackUnwind

Frame(size) ==
  [size |-> size, temps |-> 0, locals |-> [n \in 1 .. size |-> n - 1],
   temporaries |-> << >>, returnOffset |-> size, params |-> << >>]

At(f, state, delta) ==
  [f |-> f, state |-> state, delta |-> delta, active |-> << >>, dynamic |-> << >>]

Program ==
  [functions    |-> <<[frame |-> Frame(0), start |-> 2], [frame |-> Frame(1), start |-> 4]>>,
   instructions |-> [a \in 2 .. 5 |->
     CASE a = 2 -> At(1, "notAllocated", 0)
       [] a = 3 -> [At(1, "allocated", 0) EXCEPT !.dynamic = <<[index |-> 1, offset |-> 0]>>]
       [] a = 4 -> At(2, "notAllocated", -1) [] a = 5 -> At(2, "allocated", 0)],
   symbols      |-> {},
   executable   |-> 1 .. 5]

AllMemories == [Address -> {0, 1, 3, 5}]

NoBits(a, b) == 0
=============================================================================
