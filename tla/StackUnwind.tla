----------------------------- MODULE StackUnwind ------------------------------
(***************************************************************************)
(* The unwinding loop of the stack view (stack_view.rs:202-300) over a     *)
(* memory in which the program may have written anything: one iteration a  *)
(* step.  The return addresses it follows need not be return addresses,    *)
(* nor lead to frames that were ever there.                                *)
(***************************************************************************)
EXTENDS StackView

CONSTANTS
  Linked,      \* the program, as DebugLink links it
  Memories,    \* the memories the view may be asked for
  Requests     \* the depths it may be asked for

(* What linking a program makes sure of (DebugLink, FunctionLinks).        *)
ASSUME LinkedAssumption ==
  /\ \A a \in DOMAIN Linked.instructions :
       /\ Linked.instructions[a].delta \in Int
       /\ Linked.instructions[a].f \in DOMAIN Linked.functions
  /\ \A f \in DOMAIN Linked.functions : Linked.functions[f].frame.size \in Nat

(* What planning the frames makes sure of (frame.rs, CCodegen's FrameInfo  *)
(* and Context): lists of offsets, and the return address above the frame. *)
ASSUME FrameAssumption ==
  /\ \A f \in DOMAIN Linked.functions :
       LET frame == Linked.functions[f].frame
       IN  /\ frame.returnOffset = frame.size
           /\ frame.params \in Seq(Int) /\ frame.locals \in Seq(Int)
           /\ frame.temporaries \in Seq(Int)
           /\ frame.temps = Len(frame.temporaries)
  /\ \A a \in DOMAIN Linked.instructions :
       LET dynamic == Linked.instructions[a].dynamic
       IN  Len(dynamic) \in Nat /\ DOMAIN dynamic = 1 .. Len(dynamic)

ASSUME RequestAssumption == Requests \subseteq Nat

VARIABLES
  memory,
  request,
  walk         \* the loop's locals: next, visited, frames, warned

unwindVars == <<memory, request, walk>>

(* SP only shifts the addresses, which wrap.                               *)
UnwindInit ==
  /\ memory \in Memories
  /\ request \in Requests
  /\ \E pc \in DOMAIN Linked.instructions : walk = UnwindStart(Linked, pc, 0)

Iterate ==
  /\ walk.next # << >>
  /\ walk' = UnwindStep(Linked, memory, Depth(request), walk)
  /\ UNCHANGED <<memory, request>>

UnwindSpec == UnwindInit /\ [][Iterate]_unwindVars /\ WF_unwindVars(Iterate)

-----------------------------------------------------------------------------
(* No frame is shown twice, whatever the memory says (stack_view.rs:248).  *)
FramesDistinct ==
  \A j, k \in DOMAIN walk.frames :
    walk.frames[j].f = walk.frames[k].f /\ walk.frames[j].base = walk.frames[k].base => j = k

ReturnSlot(frame) == CHOOSE s \in ToSet(frame.slots) : s.kind = "returnAddress"

(* Each frame is the caller of the one before: stopped where the return    *)
(* address shown there points to, with SP just above it.                   *)
CallersFollow ==
  \A k \in DOMAIN walk.frames \ {1} :
    LET s == ReturnSlot(walk.frames[k - 1])
    IN  walk.frames[k].pc = Low(s.raw) /\ walk.frames[k].sp = WrapAddr(s.address, 1)

(* A view without a warning is whole: the function shown last returns to   *)
(* the startup code (stack_view.rs:272-287, is_normal_unwind_boundary).    *)
EndsAtStartup ==
  walk.next = << >> /\ ~ walk.warned =>
    IsStartup(Linked, Low(ReturnSlot(walk.frames[Len(walk.frames)]).raw))

(* What a shown frame's metadata cannot be right about.                    *)
Defective(frame) ==
  MetadataWrong(FrameOfCursor(Linked, frame), Linked.instructions[frame.pc])

(* The frames reach from PC to the startup code and none is defective.     *)
Whole ==
  LET target == Low(ReturnSlot(walk.frames[Len(walk.frames)]).raw)
  IN  /\ \A k \in DOMAIN walk.frames : ~ Defective(walk.frames[k])
      /\ target \notin DOMAIN Linked.instructions
      /\ Classify(Linked, target, "none") = "startup"

(* The loop warns exactly when the view is not whole: whatever cuts it     *)
(* short (the depth, a cycle, a return address that leads nowhere) is      *)
(* told, and a whole view raises no alarm (stack_view.rs:247-300).  What   *)
(* is said of a depth out of range before the loop is not counted.         *)
WarnedExactly == walk.next = << >> => (walk.warned <=> ~ Whole)

(* The loop ends, even if the return addresses form a cycle.               *)
Terminates == <>(walk.next = << >>)
=============================================================================
