# A TLA+ verification project for ex3-rust

ex3-rust is a toolchain for the 32-bit EX3 v3.0 machine: a C compiler, an
assembler, an emulator with interrupts and peripherals, a debugger, a command
line, and a browser playground that drives the emulator through WebAssembly.
This directory holds TLA+ models of the machine, of the page that drives it and
of the whole way of a C program from its tree to the stack view of its execution,
the TLC runs that check them on small instances, and proofs,
checked by TLAPS, of what holds for every value of the constants.

`PROJECT.json` lists components, runs, mutants, hazards and theorems, and maps
every definition that models code to its source lines.

## 1. Inventory

| component | source | state | operations |
|---|---|---|---|
| CPU | `ex3-core/src/emulator.rs` | PC, SP, AC, PSR, halted, counter; I/O selection, mask, input register; memory | `step` (tick, interrupt entry, fetch, decode, `execute`), `reset` |
| Peripheral buses | `emulator.rs` | two input queues, output logs and ready flags, forced interrupt; for `LegacyIoBus` also pending queues, countdowns, a generator | `tick`, `read_input`, `write_output`, `push_input`, `request_interrupt`, `clear_interrupt` |
| Debugger, run loops | `debugger.rs`, `Cpu::run`, `ex3-cli/src/main.rs` `run_cmd` | breakpoints; the loop's counter | `toggle/add/remove_breakpoint`, `step`, `run` |
| WASM session | `ex3-wasm/src/session.rs` | one CPU, memory, its initial copy, bus, debugger, program metadata | `compile_and_load`, `reset`, `step`, `run_chunk`, `stack_view`, other views |
| Playground | `web/src/App.tsx`, `web/src/ex3/runner.ts` | `machineRef`, the rendered state, `operationPending`, `runGeneration`, callbacks awaiting a frame | compile, reset, step, run, pause, breakpoint, memory address, source edit |
| ISA | `isa.rs` | none | `encode`, `decode` |
| Assembler | `assembler.rs` | symbols, location counter, image, source map | `parse`, two passes |
| C semantic analysis | `cc/sema/` | symbol tables, scopes, labels, the flow graph | `collect`, `resolve`, `evaluate`, `may_reach_function_end` |
| C code generator | `cc/codegen/` | frame layout, evaluation context, emitted lines and their debug contexts | `FrameLayout::plan`, `validate`, `generate_*`, `append_generated` |
| C lexer and parser | `cc/lexer.rs`, `cc/parser.rs` | position in the text | text to tree |
| C runtime | `cc/runtime.asm` | its stack frame | mul, div, mod, putchar, getchar |
| Debug information, stack view | `debug_info.rs`, `stack_view.rs` | linked frame states | link, unwind |
| Output, CLI, views | `output.rs`, `main.rs`, `web/src/components` | none of their own | formatting |

How they interact. The page calls the session synchronously; the session calls
the debugger, which calls `Cpu::step`, which ticks the bus before every
instruction and reads and writes it during INP, OUT, SKI and SKO. A bus never
calls back: a byte pushed by the host becomes visible only through a tick, and
an interrupt is the processor's own reading of the bus at an instruction
boundary. `compile_and_load` is a pipeline: analyse, generate, assemble together with the
runtime library, link the debug information with the addresses, load. Its stages
agree through conventions nobody states twice: frame offsets, line numbers, the
size of an expanded statement, the words of an instruction. The stack view reads
all of them back from a stopped machine.

There are no threads. Concurrency enters in three places:

* interrupts fall between any two instructions, and handlers may nest;
* the host pushes input, raises interrupts and resets between any two steps;
* the page has several continuations in flight: `run` and the single
  operations suspend at `await nextFrame()` while the user goes on clicking, and
  what the page offers is one render older than `machineRef`.

What makes each component correct: the interrupted program cannot tell that it
was interrupted (CPU); the peripheral is a lossless ordered stream that
delivers (bus); every branch means its relation (ALU); a run stays within its
limit, reports it exactly and returns (debugger); one actor at a time moves the
processor, the page shows what the processor is, and nothing the user typed is
lost (playground); a legal C program and no other is accepted, and its machine
code does what the program means (compiler, runtime); a label means the cell
behind it and no cell is lost (assembler); an encoded instruction decodes to
itself (ISA); and at every instruction the frames shown are the calls in progress
(debug information, stack view). `PROJECT.json` "hazards" names the places where each could go
wrong.

## 2. Modules

    Alu            words, flags, branch conditions            isa.rs, emulator.rs
    Isa            EXTENDS Alu: the instructions              isa.rs
    Encoding       EXTENDS Isa: words and instructions        isa.rs
    IoBus          the bus as a value                         emulator.rs
    Ex3Cpu         EXTENDS Isa, IoBus: the processor          emulator.rs
    Ex3Interrupts  EXTENDS Ex3Cpu: suspended computations
    Debugger       EXTENDS Ex3Cpu: breakpoints and run loops  debugger.rs, Cpu::run
    Accumulator    EXTENDS Alu: arithmetic and branches only
    ByteStream     what an input device promises
    LegacyIo       EXTENDS IoBus: the delayed bus alone; refines ByteStream
    Session        SessionCore seen from the page             session.rs
    RunControl     EXTENDS Session: what the page promises
    Playground     EXTENDS Session: the page; refines RunControl  App.tsx, runner.ts

    Assembler      EXTENDS Encoding: lines, operands, both passes  assembler.rs
    AssemblerPasses  EXTENDS Assembler: a line per step
    LongFolds      a fold that nests logarithmically deep
    CRuntime       EXTENDS Assembler: the library             cc/runtime.asm
    RuntimeCall    EXTENDS Ex3Cpu: a call of its unsigned routines
    CSema          EXTENDS Alu: symbols, constants            cc/sema
    CResolve       EXTENDS CSema: names, types, control flow  cc/sema
    CCodegen       EXTENDS CResolve, CRuntime: code, contexts cc/codegen
    CMeaning       EXTENDS CSema: what a C program means (the reference)
    CPrograms      trees of C programs                        cc/ast.rs
    DebugLink      contexts of addresses                      debug_info.rs
    StackView      EXTENDS Isa: frames from a memory          stack_view.rs
    StackUnwind    EXTENDS StackView: an iteration per step
    Toolchain      EXTENDS Ex3Cpu, CCodegen, DebugLink, StackView, CMeaning

    MC*            programs and constants for TLC
    ValueProofs    EXTENDS Alu, IoBus: lemmas about words, flags and buses
    *Proofs        theorems of the module they are named after; AssemblerProofs
                   is about Encoding and AssemblerPasses, Ex3CpuProofs about
                   Ex3Cpu, Ex3Interrupts and Debugger, RuntimeProofs about
                   RuntimeCall

**Alu.** Half words (addresses, immediates) have `HalfSize` values and words
`HalfSize * HalfSize`; 2^16 and 2^32 in the machine. Bitwise operations are
operator constants, given by a table in `MCBits` for TLC and assumed only to
stay in range in the proofs. The PSR is a record; `PackPsr` and `UnpackPsr` are
the stack representation, so the sanitising of IRET is modelled.

**IoBus.** `DeterministicIoBus` and `LegacyIoBus` are one record: over the first
nothing is ever pending. The generator that draws a delay in 1..50 is any value
in `1 .. MaxDelay`. `Tick` is a set of buses because of that draw.

**Ex3Cpu.** One call of `Cpu::step` is one action: the bus has ticked, and an
interrupt is entered, or one instruction is executed, or decoding fails, or the
processor is halted. There is one action per group of instructions that share a
shape; the register copy AC and the flags of the shared arithmetic are
`Accumulate`. The host acts between steps. `Decode` is a constant function: any
one in the proofs, a handful of words in the runs about interrupts and run loops,
and `Encoding`'s `DecodeTable`, the decoder of `isa.rs`, in `toolchain`. `CpuState.ir` and
`interrupt_pending` are left out: the first repeats the word last fetched, the
second is FALSE whenever `step` returns.

**Ex3Interrupts** adds a history variable, the contexts of the computations that
interrupts have suspended. An IRET pops one. Its properties speak of programs
that keep the ABI. `KeepsAbi` says what that asks of each step, wherever a handler
is: an entry finds room on the stack (ABI 24), nothing is taken from or written
over what lies above the handler's own frame, and IRET finds SP at the two words of
the entry with AC, selection and mask as they were (ABI 19). The handlers of
`MCInterrupts` follow the patterns of the ABI and are checked to keep it (`AbiKept`).

**Debugger.** A run is a loop whose iterations are actions, from the call to the
return; `Cpu::run` is the same loop without breakpoints and `run_cmd` of the CLI
repeats `Debugger::run`. `Counted` is the difference of `executed_instructions`
that the loop adds. `history` counts step calls and fetches independently of it.

**LegacyIo** drives the bus alone: the program sets IEN and mask, reads and
writes as it likes. **ByteStream** is the abstract device; the refinement
mapping makes `ready \o pending` its queue.

**Session** and **Playground.** A compiled program is a straight sequence of
`Length[p]` instructions that ends in HLT, in an illegal word, or repeats for
ever. That is enough to tell a halt, a breakpoint, a limit and a thrown error
apart. The C compiler emits no ION and no IMK, so the processor of a session is
never interrupted and every step is an instruction. In `Playground` an action is
one JavaScript callback: a user event, the code of a continuation from one
`await` to the next, the promise that delivers the session, or a render.
`machine` is `machineRef.current`; `shown` is what the last render put on the
page. A control can be used only if `shown` enables it and then runs its handler
with the handler's own guards. `history` (instructions since Run was pressed,
last source and address entered, whether the last call threw) is not code.

**RunControl** is what the page promises its user, without callbacks, copies of the
machine state, generations or renders: one command at a time is asked for, carried
out once, on the source entered last; a run executes instructions that are its to
execute (`MayExecute`) and ends by itself only for a reason (`Over`), or by Pause,
after which nothing executes. The mapping takes the command under way from the
queue (`UnderWay`): the kind of the operation that waits, or "run" while the phase
says so. It is exact only if `busy`, the phase and the queue agree, which is
`OneActor`; every callback that comes too late must map to a stutter.

**Isa** and **Encoding.** An instruction is a record of one of five formats.
`Encode` and `DecodeWord` pack it as `isa.rs` does: format, opcode, modifier and
operand from the highest bits down, with unused fields zero and required to be.
The widths of opcode and modifier are constants (2^5 and 2^8 in the machine); the
opcode numbers are the machine's.

**Assembler** and **AssemblerPasses.** A line is what `parse` makes of a text line:
labels, perhaps an origin, perhaps a statement whose operands are names or numbers.
A number remembers whether it was hexadecimal and whether it was written as an
address, because that decides how `parse_signed16`, `parse_raw16` and
`parse_address_number` read it. `Pass1Line` and `Pass2Line` are the bodies of the
two loops; `AssemblerPasses` makes each turn a step over any set of texts, and
`Assemble`, in `Toolchain`, folds them over the text of a compiled program.
`Place` appends to the image and the source map at once.

**CSema**, **CResolve.** `Collect` builds and checks the symbol tables, `Evaluate`
folds constants on words (wrapping, as the code's `wrapping_*` do), `Statement`
threads scopes and slots, `Flow` builds the graph that decides whether a function
may run off its end. The result of an analysis only says that it is bad; which of
several errors is reported, and where, is not modelled.

**RuntimeCall** is one call of an unsigned routine: `Ex3Cpu` from the routine's first
instruction until its code is left, for any word size, place, stack, return address
and arguments, with a host that types and interrupts as it likes. The code is what
the assembler makes of `CRuntime`'s lines, jumps relative to the routine's first
address. It is written down a second time because the assembler folds over texts and
tables of mnemonics, about which the prover cannot compute; that both are the same is
part of `CallsAsProved`.

**CRuntime**, **CCodegen.** The library is copied line for line as assembler
records. The generator yields records too, each with the debug context
`emit_debug_context` attaches to the line: delta to the frame base, state of the
frame, active temporaries, pushed slots. Fresh labels are named by the place in the
tree they are made for instead of a counter: both are unique.

**DebugLink**, **StackView**, **StackUnwind.** `Link` is
`link_program_debug_info`, `Links` the absence of its errors. `UnwindStep` is one
turn of `build_stack_view`'s loop, over the loop's locals as a record; `Toolchain`
runs it to the end, `StackUnwind` makes it a step, over any memory. The visited set
keeps function and frame base, as in the code. Warnings are one flag.

**CMeaning** is not code: a big-step evaluator over the parser's trees, with
lexical scopes and mathematical integers. It says what a program means where the
language says so and is *stuck* where it does not (signed overflow, division by
zero). It is the specification `Toolchain` is held against; it shares with `CSema`
only `Truncate`, `MulWord`, the rule for the type of two operands and what walks
the tree.

**Toolchain** is `compile_and_load`, `reset`, `step` and `stack_view` over real
images: a program is compiled, assembled with the library, linked, loaded, and
executed by `Ex3Cpu`. `calls` (the calls that have not returned, from CALL and RET
themselves), `fed` and `before` (the machine one instruction ago) are history. The
session of the WASM package offers no way to type input; `TypeByte` is the host of
`DeterministicIoBus` that the compiler's own tests are (`cc/mod.rs:688`).

## 3. Runs

Every property has a mutant: a plausible bug in a mapped definition that makes
TLC find that property violated in the same run.

| run | what it shows |
|---|---|
| `interrupts` | Programs with a subroutine, a local on the stack, flags carried into branches, and three handlers (stack, red zone below SP, one that enables nesting). `FramesIntact`: every suspended computation finds its frame and stack untouched. `Transparent`: IRET hands back PC, SP, AC, PSR, selection, mask and stack. `AbiKept`: the handlers keep the ABI wherever they are entered, also inside one another; it is the hypothesis of two theorems. |
| `completion` | `NoReentry`: an entry is not followed by another before the handler has executed an instruction, however long the source stays asserted. `CompletesWhenQuiet`: when the sources stay quiet every program reaches its own HLT with nothing suspended. |
| `accumulator` | All pairs of 6-bit words: `BranchesAgree`, `AddFlagsExact`. |
| `legacy_io` | `OneReady`, `CountdownHasByte`, `StreamSpec` (refinement of ByteStream), `Delivered` (liveness). |
| `debugger` | Every instruction, both loops, breakpoints, limits 0 and 2, output-ready interrupts that never go away: `RunBounded`, `LimitExact`, `RunReturns`. |
| `playground` | Three programs and a rejected source, up to four runs or cancellations: `OneActor`, `PageTruthful`, `InputKept`, `RunBudget`, `MessageTruthful`, `ControlSpec` (refinement of RunControl), `BreakpointRespected`. |
| `playground_live` | `OperationEnds`, `RunEnds`. |
| `toolchain` | 22 legal programs (every operator in both types at its extremes, short circuits, recursion, calls in arguments, shadowing, switch, goto into and out of blocks, input and output, the deepest frame) and 28 illegal ones. `AcceptedExactly`: the legal ones and no others are accepted, and by every later stage. `ComputesMeaning`: what is halted has computed what `CMeaning` says: value, output, globals, SP. `FramesTrue`: at every instruction the view shows exactly the calls in progress, without a warning, and names startup and runtime code. `SlotsHeld`: no instruction changes a return address or an active temporary. `CallsAsProved`: every call of an unsigned routine of the library, by the program or by a signed routine, finds what `RuntimeCall!CalledAt` asks: the assembled words decode to the code that the theorems are about, the frame below the stack misses it, interrupts are off. `Finishes`: programs that read nothing halt. |
| `assembler` | All texts of four lines out of sixteen, with origins that go back and to the end, PUSH and POP, numbers at the limits of each reading: `LabelsMeanCells`, `ImageComplete`, `WordsDecode`. |
| `unwind` | Every memory, PC and depth over a program of two functions: `FramesDistinct`, `CallersFollow`, `WarnedExactly` (it warns if and only if a frame cannot be right or the frames do not reach the startup code), `Terminates`. |
| `forced_interrupt`, `io_mode` | Expected violations, see section 6. |

### Bounds

| bound | where | why it is enough |
|---|---|---|
| `HalfSize` 8, 16, 32 | accumulator, debugger, interrupts | a half word must hold the program and handler, and an odd and even bit position of each sign; the proofs cover every even size above 4 |
| `ByteSize`, `Byte` | all | two bytes tell order from duplication in `legacy_io`; the processor's runs need one or two |
| `MaxDelay` 1 or 2 | buses | 0, 1 and more than 1 are the three cases of `advance_input` |
| `MaxInput` 1, `MaxHeld` 2 | pushes | one byte in front of and one behind a countdown; `CountdownHasByte` and `StreamSpec` are proved for any number |
| `MaxOutput` 0 or 1 | output logs | nothing reads a log back; OUT's visible effect is the ready flag, which is not bounded |
| `MaxDepth` 1 or 2 | Ex3Interrupts | depth two is the first at which one suspended frame lies below another |
| `CountSize` 1 or 2 | `executed_instructions` | the loop only uses differences of one step; wrapping at 2 is the hardest case for the difference and 1 drops the counter where nothing reads it |
| `Limits` {0, 2}, `Watchable` {0} | Debugger | 0 is the edge, 2 allows entries before, between and after the fetches; the breakpoint is at the handler's first word |
| `RunLimit` 3, `ChunkSize` 2 | Playground | the last chunk is a partial one, as it is after a step over a breakpoint |
| 512 addresses, 18-bit words, opcode and modifier widths 16 and 4 | toolchain | the smallest machine that holds every opcode, the runtime library and the largest program; products and quotients still wrap, and signed offsets reach 255, so that the frame limit is met (depth 250) and passed (251). The Rust limit is computed by the same comparison with 32767 |
| the 50 programs | toolchain | each construct of the language, alone and inside the others; illegal programs for the checks of `symbols.rs`, `resolver.rs` and `control_flow.rs` |
| `MaxFed` 2, two byte values, `MaxOutput` 4 | toolchain | two bytes in order for a program that reads two; no program writes more than four |
| the host loads and resets only at rest | toolchain | loading replaces the whole machine, so that a load in the middle of a program leads to the same states |
| four lines of sixteen, 256 addresses | assembler | label, origin, wrong and right operand, and a two-word statement across the end of memory meet within four lines |
| six addresses, words 0, 1, 3, 5, depths 0, 2, 300 | unwind | a return address outside the program, in the startup code and in each of two functions; depths below, within and above the limits; SP is 0 because addresses wrap and SP only shifts them |
| `MaxGeneration` 4 or 3 | Playground | a run, its pause, a second run and a compile overlap within it |

### Fairness

* `IRunSpec`: weak fairness of `IStep`. The host that asks for completion keeps
  stepping; nothing is asked of the environment, and completion is claimed only
  if the sources become and stay quiet.
* `LegacyIo!FairSpec`: weak fairness of the tick. A processor that is stepped
  ticks the bus on every step. The choice of delay, the program's reads and the
  host's pushes are not fair.
* `RFairSpec`: weak fairness of `Loop`. A loop in progress is a function on the
  stack; nothing preempts it. The host is not obliged to call it.
* `Playground!FairSpec`: weak fairness of animation frames and of renders, which
  the browser and React owe. User events are not fair. Frames are delivered in
  the order they were requested, as browsers do.

* `ToolSpec`: weak fairness of `RunInstruction`. Whoever runs a program steps it
  until it halts (`run_chunk`, `run_cmd`); typing is not fair, so `Finishes` leaves
  out programs that read.
* `UnwindSpec`: weak fairness of the loop's iteration, which nothing preempts.

`AssemblerPasses` and `StackUnwind` really end, so their runs do not check for
deadlock; the other runs do where their cfg does not say otherwise.

## 4. What is proved

All theorems hold for every value of the constants allowed by the named
assumptions:

| assumption | says | justified by |
|---|---|---|
| `SizeAssumption` | a word is a half word squared, a half word even and above 4 | 2^16 and 2^32 |
| `BitwiseAssumption` | the bitwise operations stay in range | they are total on `u32` |
| `BusAssumption` | bytes, a positive longest countdown | `emulator.rs`, 1..50 |
| `CpuAssumption` | `Decode` is total into instructions or `Illegal`; the packed PSR fits a word | `decode` returns a `Result` |
| `DebuggerAssumption` | the counter has more than one value | with a counter that never moves no limit could be kept |
| `EncodingAssumption` | the fields fill the upper half word and hold 14 opcodes | `isa.rs`: 3 + 5 + 8 bits |
| `ProgramAssumption`, `RunAssumption` | programs have a length within `MaxLength`; limit and chunk are positive | an image fits memory; the constants of `App.tsx` |
| `TextAssumption` | a text is a sequence of lines as `parse` makes them | `Line`, `Unresolved` |
| `LinkedAssumption`, `FrameAssumption` | a context has a function and a delta, a frame a size, offsets and its return address above it | `link_program_debug_info`, `frame.rs` |
| `RequestAssumption` | a depth is a natural number | `Option<usize>` |

The bounds of the runs are not bounds of the theorems: the playground's theorems
are for any number of runs (`MaxGeneration` is any number), the assembler's for
texts of any length, the unwinder's for any program and memory.

* **ValueProofs** bounds every operator of `Alu`, shows `UnpackPsr(PackPsr(p)) = p`,
  what carry and overflow say about the wrapped result and that wrapping twice is
  wrapping once, and types every operator on buses.
* **AccumulatorProofs**: `TypeCorrect`; `BranchesCorrect` and `AddFlagsCorrect` from
  the invariant `Described`, that the flags are those of the operation
  remembered. The property alone is not inductive: it says nothing of the flags
  an operation computes.
* **LegacyIoProofs**: `TypeCorrect`;
  `BusSound`, the inductive invariant `Sound` (at most one byte ready; a countdown
  only with a byte behind it and none in front), from which `OneReadyCorrect` and
  `CountdownCorrect` follow; `StreamCorrect`, that every step is a step or a
  stutter of `ByteStream`. `Deliver` moves the first pending byte behind the
  ready ones and leaves their concatenation unchanged.
* **Ex3CpuProofs**: `TypeCorrect`, one lemma per instruction format, and
  `EntryDisablesCorrect`: after an entry IEN is clear until an instruction, hence
  `NoReentryAlways`, of any program. `FramesIntactAlways` and `TransparentAlways` are
  of every program that keeps the ABI: `ISpec /\ AbiKept => ...`. `AbiKept` speaks of
  one step at a time and only of the innermost handler; the theorems carry it to
  every frame below, at any depth. The invariant `SuspendedInv` says that
  the suspended stacks lie above one another with a frame's two words between them
  (`Nested`, `Reserved`) and that each still holds its frame and contents (`Holds`):
  what an entry pushes then lies below all of them, and IRET, which finds SP where
  the entry left it, takes back PC and the PSR that were pushed. The hypothesis is not
  empty: it is the property `AbiKept` of the run `interrupts`, whose programs reach
  both depths.
  For the run loops, the invariant `RunInv` joins the type, `EntryDisables` and
  `Budget`, which ties the loop's counter to the fetches of the history and bounds
  the calls by `2 * fetches`, plus one just after an entry. `EntryDisables` is what
  makes it inductive: an entry is never followed by another, so two calls fetch at
  least one instruction. From it `RunBoundedCorrect` and `LimitExactCorrect`.
* **RuntimeProofs**: `MultiplyCorrect`, `DivideCorrect` and `RemainderCorrect`, that
  `__ex3_mul_u32`, `__ex3_div_u32` and `__ex3_mod_u32` return the product as words
  wrap, the quotient and the remainder, to their caller, with SP as before the CALL and
  the arguments as they were; and that the last two never return for a divisor of zero. They are proofs
  of machine code: each invariant (`MultiplyInv`, ...) says for every instruction what
  the four words of the frame hold when the processor comes to it, and one step is
  one instruction of `Ex3Cpu`, by the lemmas on what it does to a routine's frame
  (`Load`, `Store`, `Add`, `Compare`, `Branches`, `Returns`, ...). For division and
  remainder: what is left and what was taken off make up the dividend, and the amount
  to be taken off is a multiple of the divisor, not more than what is left. A doubling
  that wraps sets carry and is not used, which is why it need not be a multiple. For
  multiplication the same holds up to multiples of `WordSize` (`Same`). What is
  assumed is `CalledAt`: interrupts off, the routine in memory and not across its end,
  the four words below the stack not part of it, a return address outside.
  `CallsAsProved` finds it true of every call in `toolchain`. The host may type and
  request interrupts during the call but not reset.
* **PlaygroundProofs**: every safety property of the playground, from one inductive
  invariant, `PageInv`. The properties are about what may happen *now*; what makes
  them last is what the waiting callbacks rely on. So the invariant says, of every
  frame in the queue that may still act (an operation's, or the run's of the current
  generation), that it is the only one, that the phase and `operationPending` show
  it, and that the machine state it captured before its await is still the
  machine's (`Due`); of stale frames only that their generation has passed. Under
  it, no commit can undo an input, because a handler that takes input while
  something is pending is refused by the guard, or replaces the generation. The
  number of instructions a run may still execute is tied to the count in the
  captured state, which gives `RunBudgetAlways`; where a chunk stops is tied to the
  breakpoints of the session, which gives `BreakpointRespectedAlways`.
  `ControlCorrect` is the refinement: under `PageInv` every step of the page is one
  step of `RunControl` or a stutter. A click is the asking and its callback the doing,
  however many renders fall between them; a chunk is an `Advance` by the instructions
  it executed, with the reason for which it was the last. `MovesOnCommandAlways`
  states the part of it that needs no second specification.
* **AssemblerProofs**: `DecodeEncode`, that an encoded instruction decodes to itself:
  the parts fit their fields, so quotients and remainders take the word apart again,
  and of the readings `decode` tries only the instruction's own format applies.
  `DecodeCanonical`, the other direction: what `decode` accepts is the encoding of
  what it returns, so that no word with stray bits is executed. `DecoderTotal` shows
  that `isa.rs` gives a decoder as `CpuAssumption` wants it: the theorems about the
  processor are about this one too. And the three properties of the assembler, from the invariant `PassInv`. `Start(text,
  k)` is where line `k` begins, by a function of the text alone; the first pass is
  there when it comes to the line (`FirstPassInv`) and has given the labels of the
  lines before it (`Labelled`), and as long as it made no error so is the second
  (`SecondPassInv`), because a statement that resolves has as many words as
  `Unresolved::words` counted. The cells are those of the lines passed (`Complete`),
  at distinct addresses, each with the word of its instruction (`Rightly`). The
  properties are not inductive: none of them relates the first pass's counter to
  the second's.
* **StackUnwindProofs**: `FramesAreDistinct`, `CallersFollowAlways`,
  `EndsAtStartupAlways`, `WarnedExactlyAlways`, `UnwindBounded` (at most the frames
  asked for, and at most 256) and `AllowedDecreases`, for every linked program, memory
  and depth. The invariant `UInv` adds
  to the properties that every frame shown is among the visited ones and that the
  next cursor is not, that the next cursor is where the last frame returns to, and
  that a walk which is over without a warning has met the startup code. That SP is
  just above the return address also where addresses wrap is `WrapTwice`.
  `WarnedExactly` speaks of the end; the step needs that a walk under way has warned of
  the frames it has shown and of nothing else (`WarnedOfFrames`). `AllowedDecreases` is
  the measure of the loop: the frames still allowed are a natural number that every
  iteration makes smaller, so only the fairness in `Terminates` is left to TLC.

Induction over data is done on a set without a least element (`SetInduction`,
`WellFoundedInduction`'s `WFMin`): labels, lines and positions in a text.

Only model-checked:

* `AcceptedExactly`, `ComputesMeaning`, `FramesTrue` and `SlotsHeld`: the compiler
  recurses over trees (`RECURSIVE`, `LongFolds`), where the prover has no backend.
* `CallsAsProved`, for the same reason. That a call ends, for a divisor other than
  zero, is part of `Finishes`; the signed routines, which take an unsigned one of the
  magnitudes and put the sign back, are covered by `ComputesMeaning`.
* `AbiKept`: it is about programs, which are data here. What follows from it is proved.
* everything about liveness (fairness and ENABLED are beyond the prover):
  `CompletesWhenQuiet`, `Delivered`, `RunReturns`, `OperationEnds`, `RunEnds`,
  `Finishes`, `Terminates`.

## 5. What is not modelled

* The lexer, the parser and diagnostics: character data, a precedence table and
  positions, with no state over time that a test would not reach. The models begin
  with the tree (`cc/ast.rs`).
* In the assembler: splitting a line, CHR, END, the spelling of names and literals,
  and what errors print.
* Output formats (`output.rs`), the CLI's arguments and printing, the conversion of
  values to JavaScript (`lib.rs`, `dto.rs`, `error.rs`) and the components that
  display them: text and layout without state.
* In the stack view: the raw stack shown outside C, display names, typed values,
  and which warning is given.
* Interrupts in compiled programs: the compiler emits no ION and no IMK, so they
  cannot occur there; `Ex3Interrupts` covers hand-written programs.
* NullIoBus: it is the deterministic bus that nobody writes to.
* Unmounting the page. React's StrictMode mounts twice in development; a second
  mount shares `sessionPromise`, and the effect's cleanup bumps the generation.
* The session's other read-only views (disassembly, memory ranges, serial output).
* `clear_breakpoints` and `stack_view_with_depth`, which the page does not use.

## 6. Findings and observations

**Forced interrupts ignore the mask** (doc/code divergence; run
`forced_interrupt`). ISA 22.1 accepts a maskable interrupt only when at least one
enabled source is pending; `Cpu::step` (`emulator.rs:415`) accepts one whenever
IEN is set and `io.interrupt_pending()` holds, which
`DeterministicIoBus::request_interrupt` sets without any source.

**putchar and getchar keep the serial device selected** (doc/code divergence; run
`io_mode`). ABI 10 makes the serial/parallel selection something every ordinary
function preserves, exempting only functions whose documented purpose is to change
it. The library's routines execute SIO and never go back (`cc/runtime.asm:2`,
`:10`), and the compiled functions around them return so. A program of C alone
cannot notice; C called from assembly that uses the parallel device would.

Observations met while modelling, none contradicting a document:

* At rest after HLT the PC stands behind it, on the first instruction of the first
  C function, whose context makes the stack view show a frame of a function that is
  not running. `FramesTrue` speaks of processors that have not halted.
* A global or function named `I` is accepted by the compiler and refused by the
  assembler, for which `I` marks an indirect operand.
* Division by zero, which C spec 9 leaves undefined, never returns (`DivideCorrect`,
  `RemainderCorrect`).

* After a session call throws, the page's phase is `error` and its registers are
  those of before the call, though the processor has moved and halted. Editing the
  source then shows `ready`, and Run or Step answers "halted". `PageTruthful`
  says how old these registers can be: by the instructions of at most one chunk.
* Output-ready interrupts are level-triggered and outputs are ready again after
  every tick: with them enabled the main program executes one instruction between
  two handler runs.
* A forced interrupt held while a handler executes ION suspends the handler over
  and over; `MaxDepth` bounds the host accordingly.
* The page steps over the breakpoint it stands on before it runs; the CLI
  debugger's `r` does not, and returns at once until a step is made.
* Breakpoints survive a new compilation as bare addresses.

## 7. Plan

Built in this order: what several actors touch (`IoBus`, `Ex3Cpu`,
`Ex3Interrupts`, `LegacyIo`, `Debugger`, `Session`, `Playground`), the encoding and
the assembler, the compiler from its tree down, debug linking and the unwinder, and
`Toolchain`, which composes them.

What would add most next: unmounting of the page.
