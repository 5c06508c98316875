------------------------------ MODULE RunControl -----------------------------
(***************************************************************************)
(* What the playground promises whoever uses it: one command at a time,    *)
(* each carried out once and on what was entered, and a run that executes  *)
(* the program and stops for a reason.  There are no callbacks, no copies  *)
(* of the state and no page here; Playground implements this.              *)
(***************************************************************************)
EXTENDS Session

CONSTANT RunLimit

VARIABLES
  processor,   \* the session
  command,     \* what is under way
  source,      \* the text in the editor
  spent        \* instructions since Run was last asked for

controlVars == <<processor, command, source, spent>>

Init ==
  /\ processor = NewSession
  /\ command = "none"
  /\ source \in Program
  /\ spent = 0

-----------------------------------------------------------------------------
(* The user.  Nothing but Pause is taken while a command is under way.     *)

Write ==
  /\ command = "none"
  /\ source' \in Program \cup {Broken}
  /\ UNCHANGED <<processor, command, spent>>

Toggle ==
  /\ command = "none" /\ Loaded(processor)
  /\ \E a \in Position : processor' = ToggleBreakpoint(processor, a)
  /\ UNCHANGED <<command, source, spent>>

Ask(op) ==
  /\ command = "none"
  /\ op # "compile" => Loaded(processor)
  /\ command' = op
  /\ spent' = IF op = "run" THEN 0 ELSE spent
  /\ UNCHANGED <<processor, source>>

Pause ==
  /\ command = "run" /\ command' = "none"
  /\ UNCHANGED <<processor, source, spent>>

-----------------------------------------------------------------------------
(* Single commands.                                                        *)

Done(op) == command = op /\ command' = "none" /\ UNCHANGED <<source, spent>>

Compile ==
  /\ Done("compile")
  /\ processor' = IF source = Broken THEN processor ELSE Load(processor, source)

Restart ==
  /\ Done("reset")
  /\ processor' = Load(processor, processor.program)

SingleStep ==
  /\ Done("step")
  /\ processor' = StepSession(processor).session

-----------------------------------------------------------------------------
(* A run.                                                                  *)

(* The n instructions from here on are the run's to execute: it goes on    *)
(* only where the processor has not halted, and executes an instruction at *)
(* a breakpoint only as its first.                                         *)
MayExecute(n) ==
  \A l \in 0 .. n - 1 :
    /\ ~ After(processor, l).halted
    /\ After(processor, l).pc \in processor.breakpoints => l = 0 /\ spent = 0

(* The reasons for which a run ends by itself.                             *)
Over ==
  \/ processor.halted
  \/ (spent > 0 /\ processor.pc \in processor.breakpoints)
  \/ spent = RunLimit

Advance ==
  /\ command = "run"
  /\ \E n \in 0 .. RunLimit - spent :
       /\ MayExecute(n)
       /\ processor' = After(processor, n)
       /\ spent' = spent + n
  /\ command' = "run" \/ (command' = "none" /\ Over')
  /\ UNCHANGED source

-----------------------------------------------------------------------------
Next ==
  \/ Write \/ Toggle \/ Pause
  \/ \E op \in {"compile", "reset", "step", "run"} : Ask(op)
  \/ Compile \/ Restart \/ SingleStep \/ Advance

Spec == Init /\ [][Next]_controlVars
=============================================================================
