----------------------------- MODULE MCPrograms ------------------------------
(***************************************************************************)
(* Small programs that between them use every instruction, for checking    *)
(* modules over Ex3Cpu: 16 addresses, the handler at 0, the program at     *)
(* ResetAddress = 4, the stack below 16.                                   *)
(***************************************************************************)
EXTENDS Debugger, MCBits, SequencesExt

Mem(op, a)  == [fmt |-> "memory", op |-> op, address |-> a, indirect |-> FALSE]
Ind(op, a)  == [Mem(op, a) EXCEPT !.indirect = TRUE]
Imm(op, v)  == [fmt |-> "immediate", op |-> op, value |-> v % HalfSize]
Rel(op, d)  == [fmt |-> "sp", op |-> op, offset |-> d % HalfSize]
Jump(op, a) == [fmt |-> "branch", op |-> op, target |-> a]
Sys(op)     == [fmt |-> "system", op |-> op]

Handlers == <<<<Sys("SIO"), Sys("INP"), Sys("IRET")>>, <<Sys("IRET")>> >>

Memories ==
  <<Imm("LD", -1), Mem("ST", 13), Mem("ISZ", 13), Sys("HLT"), Ind("LD", 14),
    Ind("ST", 14)>>
Immediates ==
  <<Imm("LDHI", 1), Imm("LDLO", 3), Imm("XOR", 1), Imm("ADJSP", -1),
    Rel("ST", 0), Rel("AND", 0), Imm("OR", 9), Sys("HLT")>>
Calls ==
  <<Jump("CALL", 6), Sys("HLT"), Sys("CLA"), Sys("CMA"), Jump("BNE", 9),
    Sys("RET")>>
Polling ==
  <<Sys("PIO"), Sys("SKI"), Jump("JMP", 5), Sys("INP"), Sys("SKO"),
    Sys("IOF"), Sys("HLT")>>
Printing == <<Imm("LD", 1), Sys("OUT"), Sys("SKO"), Sys("HLT"), Sys("HLT")>>

(* A serial byte interrupts; the parallel output always does; and a        *)
(* program without a mask that only a forced interrupt reaches.            *)
SerialIn   == <<Imm("LD", 8), Sys("IMK"), Sys("ION"), Jump("JMP", 7)>>
ParallelOut == <<Imm("LD", 1), Sys("IMK"), Sys("ION"), Imm("SUB", 1),
                 Jump("BUGT", 7), Sys("HLT")>>
Unmasked   == <<Sys("ION"), Imm("LD", 2), Imm("SUB", 1), Jump("BNE", 6), Sys("HLT")>>

Mains == <<Memories, Immediates, Calls, Polling, Printing, SerialIn,
           ParallelOut, Unmasked>>

Listing == FoldLeft(LAMBDA x, y : x \o y, << >>, Handlers \o Mains)

MCDecode == [w \in Word |-> IF w \in 1 .. Len(Listing) THEN Listing[w] ELSE Illegal]

WordOf(i) == CHOOSE w \in 1 .. Len(Listing) : Listing[w] = i

Image(h, m) ==
  [a \in Address |->
     IF a < Len(h) THEN WordOf(h[a + 1])
     ELSE IF a - ResetAddress \in 0 .. Len(m) - 1 THEN WordOf(m[a - ResetAddress + 1])
     ELSE 0]

Quiet       == {Image(Handlers[2], Mains[m]) : m \in 1 .. 5}
Interrupted == {Image(Handlers[1], SerialIn)}
               \cup {Image(Handlers[2], Mains[m]) : m \in {7, 8}}
Repertoire  == Quiet \cup Interrupted
=============================================================================
