------------------------------ MODULE StackView ------------------------------
(***************************************************************************)
(* The semantic stack view of the debugger (stack_view.rs): from a linked  *)
(* program (DebugLink), a memory, PC and SP, the frames of the C functions *)
(* that are active, innermost first.                                       *)
(*                                                                         *)
(* The unwinding loop is an operator of its state u, one iteration at a    *)
(* time; u.next is what the next iteration looks at, a sequence of at most *)
(* one element.                                                            *)
(***************************************************************************)
EXTENDS Isa, SequencesExt

Contexts == {"C", "runtime", "startup", "assembly", "interrupt", "unmapped"}
Hints    == {"none", "interrupt", "assembly"}

(* classify_non_c_context.                                                 *)
Symbolized(program, pc, kind) ==
  \E s \in program.symbols : s.kind = kind /\ pc \in s.start .. s.last

FirstFunction(program) ==
  {a \in {f.start : f \in ToSet(program.functions)} :
     \A f \in ToSet(program.functions) : a <= f.start}

IsStartup(program, pc) ==
  /\ pc >= ResetAddress
  /\ \E first \in FirstFunction(program) : pc < first
  /\ pc \in program.executable

Classify(program, pc, hint) ==
  CASE hint = "interrupt" -> "interrupt"
    [] hint # "interrupt" /\ Symbolized(program, pc, "runtime") -> "runtime"
    [] /\ hint # "interrupt" /\ ~ Symbolized(program, pc, "runtime")
       /\ Symbolized(program, pc, "assembly") -> "assembly"
    [] OTHER -> IF IsStartup(program, pc) THEN "startup"
                ELSE IF hint = "assembly" THEN "assembly" ELSE "unmapped"

-----------------------------------------------------------------------------
(* build_frame.  c is the context of the instruction at the frame's PC.    *)

Slot(kind, n, offset, base, mem, status) ==
  [kind |-> kind, n |-> n, address |-> WrapAddr(base, offset),
   raw |-> mem[WrapAddr(base, offset)], status |-> status]

FixedStorage(c) ==
  CASE c.state = "notAllocated" -> "notAllocated"
    [] c.state = "allocated"    -> "currentStorage"
    [] c.state = "released"     -> "released"

IsActive(c, slot) == \E t \in ToSet(c.active) : t.slot = slot

TemporaryStatus(c, slot) ==
  IF c.state # "allocated" THEN FixedStorage(c)
  ELSE IF IsActive(c, slot) THEN "value" ELSE "staleScratch"

Slots(frame, c, base, mem) ==
  [n \in DOMAIN frame.params |->
     Slot("parameter", n - 1, frame.params[n], base, mem, "value")]
  \o <<Slot("returnAddress", 0, frame.returnOffset, base, mem, "control")>>
  \o [n \in DOMAIN frame.locals |->
        Slot("local", n - 1, frame.locals[n], base, mem, FixedStorage(c))]
  \o [n \in 1 .. frame.temps |->
        Slot("temporary", n - 1, frame.temporaries[n], base, mem,
             TemporaryStatus(c, n - 1))]
  \o [n \in DOMAIN c.dynamic |->
        Slot("dynamic", c.dynamic[n].index, c.dynamic[n].offset, base, mem, "value")]

-----------------------------------------------------------------------------
(* One iteration of build_stack_view's loop.                               *)

MaxUnwindDepth == 256
Depth(requested) == IF requested = 0 THEN 1
                    ELSE IF requested > MaxUnwindDepth THEN MaxUnwindDepth ELSE requested

(* What an iteration looks at: an instruction with a context, by its       *)
(* address, and SP as it is there.                                         *)
Cursor(program, pc, sp) ==
  [f |-> program.instructions[pc].f, pc |-> pc, sp |-> sp,
   base |-> WrapAddr(sp, program.instructions[pc].delta)]

Key(cursor) == <<cursor.f, cursor.base>>

(* append_metadata_warnings.                                               *)
MetadataWrong(frame, c) ==
  \/ frame.returnOffset # frame.size
  \/ \E t \in ToSet(c.active) : t.slot >= frame.temps
  \/ \E d \in ToSet(c.dynamic) : d.offset >= 0

UnwindStart(program, pc, sp) ==
  [next |-> <<Cursor(program, pc, sp)>>, visited |-> {}, frames |-> << >>, warned |-> FALSE]

FrameOfCursor(program, cursor) == program.functions[cursor.f].frame

FrameFound(program, mem, cursor) ==
  [f |-> cursor.f, pc |-> cursor.pc, sp |-> cursor.sp, base |-> cursor.base,
   slots |-> Slots(FrameOfCursor(program, cursor), program.instructions[cursor.pc],
                   cursor.base, mem)]

ReturnTarget(program, mem, cursor) ==
  Low(mem[WrapAddr(cursor.base, FrameOfCursor(program, cursor).returnOffset)])

(* Mutant: SP of the caller is the return address's, not the one above it. *)
CallerBelow(program, mem, cursor) ==
  Cursor(program, ReturnTarget(program, mem, cursor),
         WrapAddr(cursor.base, FrameOfCursor(program, cursor).size))

Caller(program, mem, cursor) ==
  Cursor(program, ReturnTarget(program, mem, cursor),
         WrapAddr(cursor.base, FrameOfCursor(program, cursor).size + 1))

(* Mutant: it is not remembered which frames were seen.                    *)
FoundUnseen(program, mem, u) ==
  [u EXCEPT !.frames = Append(@, FrameFound(program, mem, u.next[1]))]

Found(program, mem, u) ==
  LET cursor == u.next[1]
  IN  [u EXCEPT !.visited = @ \cup {Key(cursor)},
                !.warned = @ \/ MetadataWrong(FrameOfCursor(program, cursor),
                                              program.instructions[cursor.pc]),
                !.frames = Append(@, FrameFound(program, mem, cursor))]

(* Mutant: nobody is told why the unwinding stopped.                        *)
StopQuietly(u, warning) == [u EXCEPT !.next = << >>]

Stop(u, warning) == [u EXCEPT !.next = << >>, !.warned = @ \/ warning]

(* Mutant: neither the depth nor the frames seen are looked at.            *)
UnwindForEver(program, mem, depth, u) ==
  IF ReturnTarget(program, mem, u.next[1]) \notin DOMAIN program.instructions
  THEN Stop(u, TRUE)
  ELSE [u EXCEPT !.next = <<Caller(program, mem, u.next[1])>>]

(* The frame of the cursor is added, then its return address is read.      *)
UnwindStep(program, mem, depth, u) ==
  LET found  == Found(program, mem, u)
      target == ReturnTarget(program, mem, u.next[1])
      caller == Caller(program, mem, u.next[1])
  IN  IF target \notin DOMAIN program.instructions
      THEN Stop(found, Classify(program, target, "none") # "startup")
      ELSE IF Len(found.frames) >= depth \/ Key(caller) \in found.visited
      THEN Stop(found, TRUE)
      ELSE [found EXCEPT !.next = <<caller>>]
=============================================================================
