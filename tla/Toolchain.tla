------------------------------ MODULE Toolchain ------------------------------
(***************************************************************************)
(* The whole way of a C program (session.rs, compile_and_load): compiled,  *)
(* assembled, linked with its debug information, loaded and executed one   *)
(* instruction at a time by the processor of Ex3Cpu, under the stack view. *)
(*                                                                         *)
(* calls, fed and before are history: the calls that have not returned, as *)
(* the CALL and RET instructions make and end them, the bytes the host has *)
(* put into the serial device, and the machine one instruction ago.        *)
(***************************************************************************)
EXTENDS Ex3Cpu, CCodegen, DebugLink, StackView, CMeaning

CONSTANTS
  Sources,     \* sequence of [items, valid, reads]: a tree, whether the
               \* language allows it and whether it reads input
  FedBytes,    \* the bytes a host may type
  MaxFed       \* bound: how many of them it types

VARIABLES
  loaded,      \* the source that is loaded, 0 if none
  refused,     \* the source refused since, and the stage that did
  calls,
  fed,
  before

toolVars == <<vars, loaded, refused, calls, fed, before>>

-----------------------------------------------------------------------------
(* assemble, the whole of it: symbols, cells (image and source map in      *)
(* one), errors.                                                           *)
Assemble(lines) ==
  LET first  == FoldLong(Pass1Line, Assembly, lines)
      second == FoldLong(LAMBDA acc, n : Pass2Line(acc, lines[n], n),
                         [first EXCEPT !.lc = 0], [n \in DOMAIN lines |-> n])
  IN  IF first.errors # << >> THEN first ELSE second

(* compile_and_load, up to the first assignment: a stage that fails or all *)
(* the session keeps of a program.                                         *)

Image(cells) ==
  Indexed(LAMBDA c : c.address, LAMBDA c : c.word, cells) @@ [a \in Address |-> 0]

BuiltFrom(compiled, asm) ==
  IF asm.errors # << >> THEN [stage |-> "assemble"]
  ELSE IF ~ Links(compiled, asm) THEN [stage |-> "session"]
  ELSE [stage |-> "loaded", image |-> Image(asm.cells), symbols |-> asm.symbols,
        program |-> Link(compiled, asm)]

BuiltOf(compiled) ==
  IF compiled.rejected THEN [stage |-> "compile"]
  ELSE BuiltFrom(compiled, Assemble(compiled.text))

Built(source) == BuiltOf(Compile(source.items))

Builds == MapLong(Built, Sources)

Loaded  == loaded # 0
Program == Builds[loaded].program

-----------------------------------------------------------------------------
(* The loop of StackView, run to its end: build_stack_view.                *)
RECURSIVE Unwind(_, _, _, _)
Unwind(program, memory, depth, u) ==
  IF u.next = << >> THEN u
  ELSE Unwind(program, memory, depth, UnwindStep(program, memory, depth, u))

BuildStackView(program, memory, at, top, requested, hint) ==
  IF at \in DOMAIN program.instructions
  THEN LET u == Unwind(program, memory, Depth(requested), UnwindStart(program, at, top))
       IN  [context |-> "C", frames |-> u.frames,
            warned |-> u.warned \/ requested # Depth(requested)]
  ELSE [context |-> Classify(program, at, hint), frames |-> << >>, warned |-> TRUE]

-----------------------------------------------------------------------------
(* The machine that a stack view looks at, now and one instruction ago.    *)
Now == [mem |-> mem, pc |-> pc, sp |-> sp, calls |-> calls]

(* The frames that are really there: the calls of C functions, innermost   *)
(* first, where each is stopped and where its frame begins.                *)

FunctionAt(p, a) == {f \in DOMAIN p.functions : p.functions[f].start = a}
CCalls(p, m)     == {k \in DOMAIN m.calls : FunctionAt(p, m.calls[k].target) # {}}
InC(p, m)        == Len(m.calls) \in CCalls(p, m)

StoppedAt(m, k) ==
  IF k = Len(m.calls) THEN [pc |-> m.pc, sp |-> m.sp]
  ELSE [pc |-> m.calls[k + 1].back, sp |-> WrapAddr(m.calls[k + 1].entry, 1)]

TrueFrame(p, m, k) ==
  LET f == CHOOSE g \in FunctionAt(p, m.calls[k].target) : TRUE
  IN  [f |-> f, pc |-> StoppedAt(m, k).pc, sp |-> StoppedAt(m, k).sp,
       base |-> WrapAddr(m.calls[k].entry, -p.functions[f].frame.size)]

TrueFrames(p, m) == Reverse([k \in DOMAIN m.calls |-> TrueFrame(p, m, k)])

View(p, m, at) == BuildStackView(p, m.mem, at.pc, at.sp, MaxUnwindDepth, "none")
Frames(v)      == [k \in DOMAIN v.frames |->
                     [f |-> v.frames[k].f, pc |-> v.frames[k].pc, sp |-> v.frames[k].sp,
                      base |-> v.frames[k].base]]

(* The slots the view says are in use - return addresses and active        *)
(* temporaries - of the frames of all C functions, also while a routine of *)
(* the runtime is running, each with its frame and its word.               *)
InUse(s) == s.kind = "returnAddress" \/ (s.kind = "temporary" /\ s.status = "value")

HeldIn(frames) ==
  UNION {{[frame |-> <<Len(frames) - k, frames[k].base>>, address |-> s.address,
           kind |-> s.kind, raw |-> s.raw] : s \in {t \in ToSet(frames[k].slots) : InUse(t)}} :
           k \in DOMAIN frames}

HeldSlots(p, m) ==
  IF CCalls(p, m) = {} THEN {}
  ELSE HeldIn(View(p, m, StoppedAt(m, Max(CCalls(p, m)))).frames)

-----------------------------------------------------------------------------
ToolInit ==
  /\ Init
  /\ loaded = 0 /\ refused = << >> /\ calls = << >> /\ fed = << >> /\ before = Now

(* The machine starts anew with an image.                                  *)
Restart(image) ==
  /\ ResetCpu
  /\ mem' = image
  /\ bus' = NewBus
  /\ outcome' = "none"
  /\ calls' = << >> /\ fed' = << >>
  /\ before' = Now'

(* Bound: the host waits until the processor has halted.                   *)
Resting == loaded = 0 \/ halted

(* What is built from source n is adopted as a whole.                      *)
CompileAndLoad(n, built) ==
  /\ Resting
  /\ built.stage = "loaded"
  /\ Restart(built.image)
  /\ loaded' = n
  /\ refused' = << >>

(* An error leaves the session as it was.                                  *)
CompileFails(n, built) ==
  /\ Resting
  /\ built.stage # "loaded"
  /\ refused' = <<n, built.stage>>
  /\ UNCHANGED <<vars, loaded, calls, fed, before>>

Compiles(n, built) == CompileAndLoad(n, built) \/ CompileFails(n, built)

ResetSession ==
  /\ Loaded /\ halted
  /\ Restart(Builds[loaded].image)
  /\ refused' = << >>
  /\ UNCHANGED loaded

(* The calls after an instruction i that is executed.                      *)
CallsAfter(i) ==
  CASE i.op = "CALL" -> Append(calls, [target |-> pc', entry |-> sp', back |-> next,
                                       serial |-> serialSelected])
    [] i.op = "RET" /\ calls # << >> -> Front(calls)
    [] OTHER -> calls

RunInstruction ==
  /\ Loaded
  /\ Step
  /\ calls' = IF outcome' = "executed" THEN CallsAfter(Decode[mem[pc]]) ELSE calls
  /\ UNCHANGED <<loaded, refused, fed>>
  /\ before' = Now

TypeByte(v) ==
  /\ Loaded /\ ~ halted
  /\ Sources[loaded].reads
  /\ Len(fed) < MaxFed
  /\ bus' = PushReady(bus, "serial", v)
  /\ fed' = Append(fed, v)
  /\ UNCHANGED <<cpuVars, ioVars, mem, outcome, loaded, refused, calls, before>>

ToolNext ==
  \/ \E n \in DOMAIN Sources : Compiles(n, Builds[n])
  \/ ResetSession
  \/ RunInstruction
  \/ \E v \in FedBytes : TypeByte(v)

(* The session steps the processor for as long as it has not halted.       *)
ToolSpec == ToolInit /\ [][ToolNext]_toolVars /\ WF_toolVars(RunInstruction)

-----------------------------------------------------------------------------
(* What the compiler accepts is what the language allows, and no later     *)
(* stage rejects what the compiler accepts (session.rs:58-69).  No source  *)
(* names a global or a function I, which the assembler reads as the mark   *)
(* of an indirect operand.                                                 *)
AcceptedExactly ==
  /\ Loaded => Sources[loaded].valid
  /\ refused # << >> => ~ Sources[refused[1]].valid /\ refused[2] = "compile"

(* A program that halts has computed what its source means: the value of   *)
(* main in AC, the bytes written, the globals; and SP is back where it     *)
(* started (cc/codegen, cc/runtime.asm).                                   *)
Computed(m, symbols) ==
  /\ ~ m.stuck
  /\ ac = m.returned
  /\ bus.output["serial"] = m.written
  /\ \A x \in DOMAIN m.globals : mem[symbols[x]] = m.globals[x]
  /\ sp = 0 /\ calls = << >>

ComputesMeaning ==
  Loaded /\ halted =>
    Computed(Meaning(Sources[loaded].items, fed), Builds[loaded].symbols)

-----------------------------------------------------------------------------
(* At every instruction of a running program the stack view names the      *)
(* right context and, inside C, shows exactly the frames of the calls that *)
(* have not returned, without a warning (stack_view.rs:190, and the deltas *)
(* of cc/codegen/frame.rs and debug_info.rs:226).                          *)
Shows(v, p, m) ==
  IF InC(p, m) THEN v.context = "C" /\ ~ v.warned /\ Frames(v) = TrueFrames(p, m)
  ELSE v.context = IF m.calls = << >> THEN "startup" ELSE "runtime"

ShowsTrueFrames(p) == Shows(View(p, Now, Now), p, Now)

FramesTrue == Loaded /\ ~ halted => ShowsTrueFrames(Program)

(* No instruction changes a slot that is in use before it and after it:    *)
(* whatever an expression, a callee or a runtime routine pushes or stores, *)
(* it misses them (frame.rs:79-104, expr.rs).                              *)
Kept(held, holds) ==
  \A s \in held, t \in holds :
    <<s.frame, s.address, s.kind>> = <<t.frame, t.address, t.kind>> => s.raw = t.raw

KeepsSlots(p) == Kept(HeldSlots(p, before), HeldSlots(p, Now))

SlotsHeld == Loaded => KeepsSlots(Program)

(* A routine of the library called here, as RuntimeCall describes it, and  *)
(* the names of addresses.                                                 *)
Routine(at, top, back, left, right) ==
  INSTANCE RuntimeCall WITH Entry <- at, Stack <- top, Back <- back,
                            Left <- left, Right <- right

Places(symbols) == {<<x, symbols[x]>> : x \in DOMAIN symbols}

(* A compiled program calls the unsigned routines of its library only as   *)
(* RuntimeCall says: the routine is in memory unchanged, below a stack     *)
(* that has room for its frame, and interrupts are off, so that what is    *)
(* proved of such calls holds for all calls it makes (expr.rs:196-228, and *)
(* the instructions of cc/runtime.asm:17-118 as they are assembled).       *)
CallsAsProved ==
  Loaded /\ ~ halted =>
    \A at \in {pc}, top \in {sp}, back \in {Low(mem[sp])},
       left \in {mem[WrapAddr(sp, 1)]}, right \in {mem[WrapAddr(sp, 2)]} :
      LET called(name) == <<name, at>> \in Places(Builds[loaded].symbols)
          call(code)   == Routine(at, top, back, left, right)!CalledAt(code)
      IN  /\ called("__ex3_mul_u32") =>
               call(Routine(at, top, back, left, right)!MultiplyCode)
          /\ called("__ex3_div_u32") =>
               call(Routine(at, top, back, left, right)!DivideCode)
          /\ called("__ex3_mod_u32") =>
               call(Routine(at, top, back, left, right)!RemainderCode)

(* A program that waits for no input halts (runtime.asm:31, the loops of   *)
(* the arithmetic; under a host that goes on stepping).                    *)
Finishes == (Loaded /\ ~ Sources[loaded].reads) ~> halted

-----------------------------------------------------------------------------
(* What documents and tests say and the code does not do.                  *)

(* ABI 10 and its summary: an ordinary function returns with the I/O       *)
(* selection it was called with.                                           *)
IoModePreserved ==
  [][InC(Program, Now) /\ Len(calls') < Len(calls) => serialSelected' = calls[Len(calls)].serial]_toolVars
=============================================================================
