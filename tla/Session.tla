------------------------------- MODULE Session -------------------------------
(***************************************************************************)
(* SessionCore (ex3-wasm/src/session.rs) over Debugger::run, as a value    *)
(* and the calls that change it.                                           *)
(*                                                                         *)
(* A compiled program is seen from the outside: a straight sequence of     *)
(* Length(p) instructions that ends in HLT or in a word that is no         *)
(* instruction, or repeats for ever.  The C compiler emits no ION and no   *)
(* IMK, so a session's processor is never interrupted and every step is an *)
(* instruction.  Ex3Cpu models the processor itself.                       *)
(***************************************************************************)
EXTENDS Integers, FiniteSetsExt

CONSTANTS
  Program,       \* the compiled programs
  Broken,        \* source text the compiler rejects
  MaxLength,     \* the highest address a program can end at
  Length,        \* [Program -> 1 .. MaxLength]: instructions until the end
  Ending,        \* [Program -> {"halt", "error", "loop"}]
  NoProgram      \* nothing loaded yet

ASSUME ProgramAssumption ==
  /\ MaxLength \in Nat
  /\ Length \in [Program -> 1 .. MaxLength]
  /\ Ending \in [Program -> {"halt", "error", "loop"}]
  /\ Broken \notin Program /\ NoProgram \notin Program

Position == 0 .. MaxLength

SessionType ==
  [program : Program \cup {NoProgram}, pc : Position, halted : BOOLEAN,
   breakpoints : SUBSET Position]

NewSession ==
  [program |-> NoProgram, pc |-> 0, halted |-> FALSE, breakpoints |-> {}]

Loaded(s) == s.program # NoProgram

(* A fresh processor and memory under the breakpoints already set.         *)
Load(s, p) == [s EXCEPT !.program = p, !.pc = 0, !.halted = FALSE]

(* The session after n more instructions, if it gets that far.             *)
After(s, n) ==
  IF Ending[s.program] = "loop"
  THEN [s EXCEPT !.pc = (s.pc + n) % Length[s.program]]
  ELSE [s EXCEPT !.pc = s.pc + n,
                 !.halted = (s.halted \/ (n > 0 /\ s.pc + n = Length[s.program]))]

(* What a call answers; "thrown" when the last instruction did not decode. *)
Answer(s, n, status) ==
  [session |-> After(s, n), executed |-> n,
   status |-> IF n > 0 /\ After(s, n).halted /\ Ending[s.program] = "error"
              THEN "thrown" ELSE status]

(* Mutant: a halted processor steps on.                                    *)
StepSessionHalted(s) ==
  Answer(s, 1, IF After(s, 1).halted THEN "halted" ELSE "executed")

StepSession(s) ==
  IF s.halted THEN Answer(s, 0, "halted")
  ELSE Answer(s, 1, IF After(s, 1).halted THEN "halted" ELSE "executed")

(* Mutant: breakpoints are not looked at.                                  *)
StopsAfterUnwatched(s, n, max) == After(s, n).halted \/ n = max

(* Debugger::run looks for a halt, a breakpoint and the limit, in that     *)
(* order, before every instruction.                                        *)
StopsAfter(s, n, max) ==
  \/ After(s, n).halted
  \/ After(s, n).pc \in s.breakpoints
  \/ n = max

RunChunk(s, max) ==
  LET n == CHOOSE m \in 0 .. max :
             /\ StopsAfter(s, m, max)
             /\ \A l \in 0 .. m - 1 : ~ StopsAfter(s, l, max)
  IN  Answer(s, n, IF After(s, n).halted THEN "halted"
                   ELSE IF After(s, n).pc \in s.breakpoints THEN "breakpoint"
                   ELSE "running")

ToggleBreakpoint(s, a) ==
  [s EXCEPT !.breakpoints = IF a \in @ THEN @ \ {a} ELSE @ \cup {a}]
=============================================================================
