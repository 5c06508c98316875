------------------------------ MODULE Debugger -------------------------------
(***************************************************************************)
(* debugger.rs and Cpu::run over the processor of Ex3Cpu: breakpoints, the *)
(* single step, and the two loops that run the processor up to a limit.    *)
(*                                                                         *)
(* A run is synchronous: from its call to its return nothing but its loop  *)
(* moves, and one iteration is one action.  The host acts between calls.   *)
(* run_cmd of ex3-cli is the same loop as Debugger::run, written out.      *)
(***************************************************************************)
EXTENDS Ex3Cpu

CONSTANTS
  Limits,        \* the max_steps a host may pass
  Watchable      \* bound: the addresses the host may put breakpoints at

ASSUME DebuggerAssumption ==
  /\ Limits \subseteq Nat
  /\ Watchable \subseteq Address
  /\ CountSize > 1

VARIABLES
  breakpoints,
  run,           \* the loop in progress: who runs, its max_steps and steps
  stop,          \* what the last run returned
  history        \* not code: step calls and fetches since the run began

rvars == <<vars, breakpoints, run, stop, history>>

Runners == {"nobody", "debugger", "cpu"}
Stops   == {"none", "Halted", "Breakpoint", "StepLimit", "Error"}

RunTypeOK ==
  /\ TypeOK
  /\ breakpoints \in SUBSET Address
  /\ run \in [by : Runners, max : Nat, steps : Nat]
  /\ stop \in Stops
  /\ history \in [calls : Nat, fetches : Nat]

RInit ==
  /\ Init
  /\ breakpoints = {}
  /\ run = [by |-> "nobody", max |-> 0, steps |-> 0]
  /\ stop = "none"
  /\ history = [calls |-> 0, fetches |-> 0]

Idle == run.by = "nobody"

-----------------------------------------------------------------------------
(* The host, between calls.                                                *)

ToggleBreakpoint(a) ==
  breakpoints' = IF a \in breakpoints THEN breakpoints \ {a}
                                      ELSE breakpoints \cup {a}

AddBreakpoint(a)    == breakpoints' = breakpoints \cup {a}
RemoveBreakpoint(a) == breakpoints' = breakpoints \ {a}

EditBreakpoints ==
  /\ Idle
  /\ \E a \in Watchable :
       ToggleBreakpoint(a) \/ AddBreakpoint(a) \/ RemoveBreakpoint(a)
  /\ UNCHANGED <<vars, run, stop, history>>

SingleStep ==
  Idle /\ Step /\ UNCHANGED <<breakpoints, run, stop, history>>

HostActs ==
  Idle /\ Host /\ UNCHANGED <<breakpoints, run, stop, history>>

CallRun(by, max) ==
  /\ Idle
  /\ run' = [by |-> by, max |-> max, steps |-> 0]
  /\ stop' = "none"
  /\ history' = [calls |-> 0, fetches |-> 0]
  /\ UNCHANGED <<vars, breakpoints>>

-----------------------------------------------------------------------------
(* One iteration.  Both loops look for a halt first and for the limit      *)
(* last; Cpu::run knows no breakpoints.                                    *)

Watched == IF run.by = "debugger" THEN breakpoints ELSE {}

Leave(reason) ==
  /\ stop' = reason
  /\ run' = [run EXCEPT !.by = "nobody"]

LeaveBefore(reason) ==
  Leave(reason) /\ UNCHANGED <<vars, breakpoints, history>>

(* Mutant: the loop relies on step to notice the halt.                     *)
StopHaltedByStep ==
  /\ ~ Idle /\ halted
  /\ StepHalted
  /\ UNCHANGED <<breakpoints, run, stop, history>>

StopHalted ==
  /\ ~ Idle /\ halted
  /\ LeaveBefore("Halted")

StopAtBreakpoint ==
  /\ ~ Idle /\ ~ halted /\ pc \in Watched
  /\ LeaveBefore("Breakpoint")

StopAtLimit ==
  /\ ~ Idle /\ ~ halted /\ pc \notin Watched /\ run.steps >= run.max
  /\ LeaveBefore("StepLimit")

(* Mutant: every call of step counts.                                      *)
CountedCalls == 1

(* The loop counts the instructions the step fetched, found by comparing   *)
(* executed_instructions before and after.                                 *)
Counted == (executed' - executed) % CountSize

Iterate ==
  /\ ~ Idle /\ ~ halted /\ pc \notin Watched /\ run.steps < run.max
  /\ Step
  /\ IF outcome' = "decodeError"
     THEN Leave("Error")
     ELSE run' = [run EXCEPT !.steps = @ + Counted] /\ UNCHANGED stop
  /\ history' = [calls   |-> history.calls + 1,
                 fetches |-> history.fetches
                             + (IF outcome' = "interrupted" THEN 0 ELSE 1)]
  /\ UNCHANGED breakpoints

Loop == StopHalted \/ StopAtBreakpoint \/ StopAtLimit \/ Iterate

CallLoop == \E by \in Runners \ {"nobody"}, max \in Limits : CallRun(by, max)

RNext == EditBreakpoints \/ SingleStep \/ HostActs \/ CallLoop \/ Loop

RSpec == RInit /\ [][RNext]_rvars

(* Nothing preempts the loop: it iterates until it returns.                *)
RFairSpec == RSpec /\ WF_rvars(Loop)

-----------------------------------------------------------------------------
(* A run fetches at most max_steps instructions, and calls step at most    *)
(* twice per instruction and once more: interrupt entries, which count     *)
(* for nothing, never follow one another however many sources stay         *)
(* asserted, so they can neither use up the limit nor make a run endless   *)
(* (debugger.rs: the limit counts fetched instructions, not step calls).   *)
RunBounded ==
  ~ Idle => /\ history.fetches <= run.max
            /\ history.calls <= 2 * history.fetches + 1

(* "StepLimit" is only reported when max_steps instructions were fetched:  *)
(* interrupts never shorten a run.                                         *)
LimitExact ==
  stop = "StepLimit" => history.fetches = run.max

(* Every run returns.                                                      *)
RunReturns == ~ Idle ~> Idle
=============================================================================
