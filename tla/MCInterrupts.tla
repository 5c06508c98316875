---------------------------- MODULE MCInterrupts -----------------------------
(***************************************************************************)
(* Programs and constants for checking Ex3Interrupts: 32 addresses, the    *)
(* handler at 0, the program at ResetAddress = 10, the stack below 32.     *)
(***************************************************************************)
EXTENDS Ex3Interrupts, MCBits

Imm(op, v)  == [fmt |-> "immediate", op |-> op, value |-> v % HalfSize]
Rel(op, d)  == [fmt |-> "sp", op |-> op, offset |-> d % HalfSize]
Jump(op, a) == [fmt |-> "branch", op |-> op, target |-> a]
Sys(op)     == [fmt |-> "system", op |-> op]

Push == <<Imm("ADJSP", -1), Rel("ST", 0)>>
Pop  == <<Rel("LD", 0), Imm("ADJSP", 1)>>

(* The ABI's handler pattern; a handler that saves AC below SP; and one    *)
(* that lets other sources interrupt it once its byte is taken.            *)
Handlers ==
  <<Push \o <<Sys("INP")>> \o Pop \o <<Sys("IRET")>>,
    <<Rel("ST", -1), Sys("INP"), Rel("LD", -1), Sys("IRET")>>,
    Push \o <<Sys("INP"), Sys("ION")>> \o Pop \o <<Sys("IRET")>> >>

(* Enable parallel input; call a routine that keeps a local on the stack   *)
(* and sets the flags; count down in a loop with interrupts enabled.       *)
Mains ==
  <<<<Imm("LD", 2), Sys("IMK"), Sys("ION"), Jump("CALL", 15), Sys("HLT")>>
      \o Push \o <<Rel("ADD", 0), Imm("CMP", 4), Imm("ADJSP", 1), Sys("RET")>>,
    <<Imm("LD", 2), Sys("IMK"), Sys("ION"),
      Imm("SUB", 1), Jump("BNE", 13), Sys("IOF"), Sys("HLT")>> >>

(* A word is its instruction's place in the listing.                       *)
Listing == Handlers[1] \o Handlers[2] \o Handlers[3] \o Mains[1] \o Mains[2]

MCDecode == [w \in Word |-> IF w \in 1 .. Len(Listing) THEN Listing[w] ELSE Illegal]

WordOf(i) == CHOOSE w \in 1 .. Len(Listing) : Listing[w] = i

Image(h, m) ==
  [a \in Address |->
     IF a < Len(h) THEN WordOf(h[a + 1])
     ELSE IF a - ResetAddress \in 0 .. Len(m) - 1 THEN WordOf(m[a - ResetAddress + 1])
     ELSE 0]

Guarded == {Image(Handlers[h], Mains[m]) : h \in {1, 2}, m \in {1, 2}}
Nesting == {Image(Handlers[3], Mains[m]) : m \in {1, 2}}
Handled == Guarded \cup Nesting
=============================================================================
