------------------------------ MODULE Playground -----------------------------
(***************************************************************************)
(* The browser playground: App.tsx and runner.ts over one WASM session.    *)
(*                                                                         *)
(* JavaScript runs one callback at a time, so an action is one callback: a *)
(* user event, one animation frame callback with the code that follows its *)
(* await, the promise that delivers the session, or a React render.        *)
(* "machine" is machineRef.current, "shown" what the last render put on    *)
(* the page.  A user event renders before the next event is delivered; a   *)
(* commit from an animation frame is rendered later, so the page may still *)
(* offer controls of the state before it.                                  *)
(***************************************************************************)
EXTENDS Session, Sequences

CONSTANTS
  RunLimit,          \* RUN_INSTRUCTION_LIMIT
  ChunkSize,         \* RUN_CHUNK_SIZE
  MaxGeneration      \* bound: how often runs are started or cancelled

ASSUME RunAssumption ==
  RunLimit \in Nat \ {0} /\ ChunkSize \in Nat \ {0} /\ MaxGeneration \in Nat

VARIABLES
  wasm,              \* getEx3Session: "loading", "ready" or "failed"
  session,           \* the SessionCore
  machine,           \* machineRef.current
  shown,             \* what the page shows of it
  operationPending,  \* operationPending.current
  generation,        \* runGeneration.current
  frames,            \* callbacks waiting for an animation frame, in order
  history            \* what happened: see below

vars == <<wasm, session, machine, shown, operationPending, generation, frames,
          history>>

Source == Program \cup {Broken}
Phases == {"empty", "ready", "running", "paused", "halted", "error"}
Messages == {"none", "breakpoint", "halted", "paused", "limit"}

NoSnapshot == [pc |-> -1, halted |-> FALSE]
Snapshot(s) == [pc |-> s.pc, halted |-> s.halted]

MachineType ==
  [phase : Phases, busy : BOOLEAN,
   snapshot : [pc : Position, halted : BOOLEAN] \cup {NoSnapshot},
   assembly : Program \cup {NoProgram}, source : Source, selected : Position,
   breakpoints : SUBSET Position, count : 0 .. RunLimit, message : Messages]

View(m, w) ==
  [initialized |-> (w = "ready"), phase |-> m.phase, busy |-> m.busy,
   loaded |-> (m.snapshot # NoSnapshot)]

(* history is not code.  ran: instructions executed since Run was last     *)
(* pressed; typed, chosen: the source and address the user last entered;   *)
(* failed: the last session call threw, so the page keeps an older         *)
(* snapshot than the processor's.                                          *)
HistoryType ==
  [ran : Nat, typed : Source, chosen : Position, failed : BOOLEAN]

Operations == {"compile", "reset", "step"}

Callback ==
  [kind : Operations, state : MachineType]
  \cup [kind : {"start", "loop"}, gen : 0 .. MaxGeneration + 1, state : MachineType]

TypeOK ==
  /\ wasm \in {"loading", "ready", "failed"}
  /\ session \in SessionType
  /\ machine \in MachineType
  /\ shown \in [initialized : BOOLEAN, phase : Phases, busy : BOOLEAN,
                loaded : BOOLEAN]
  /\ operationPending \in BOOLEAN
  /\ generation \in 0 .. MaxGeneration + 1
  /\ frames \in Seq(Callback)
  /\ history \in HistoryType

Init ==
  /\ wasm = "loading"
  /\ session = NewSession
  /\ \E src \in Program :
       /\ machine = [phase |-> "empty", busy |-> FALSE, snapshot |-> NoSnapshot,
                     assembly |-> NoProgram, source |-> src, selected |-> 0,
                     breakpoints |-> {}, count |-> 0, message |-> "none"]
       /\ history = [ran |-> 0, typed |-> src, chosen |-> 0, failed |-> FALSE]
  /\ shown = View(machine, wasm)
  /\ operationPending = FALSE
  /\ generation = 0
  /\ frames = << >>

-----------------------------------------------------------------------------
(* The states runner.ts computes.                                          *)

ErrorState(m) == [m EXCEPT !.phase = "error", !.busy = FALSE, !.message = "none"]

Refreshed(m, s) ==
  [m EXCEPT !.busy = FALSE, !.snapshot = Snapshot(s),
            !.breakpoints = s.breakpoints]

CompiledState(m, s) ==
  [Refreshed(m, s) EXCEPT
     !.assembly = s.program, !.count = 0, !.message = "none",
     !.phase = IF s.halted THEN "halted" ELSE "ready"]

(* Mutant: the registers on the page are not refreshed.                    *)
ResetStateStale(m, s) ==
  [m EXCEPT !.busy = FALSE, !.phase = "ready", !.count = 0, !.message = "none"]

ResetState(m, s) ==
  [Refreshed(m, s) EXCEPT !.phase = "ready", !.count = 0, !.message = "none"]

SteppedState(m, s) ==
  [Refreshed(m, s) EXCEPT
     !.phase   = IF s.halted THEN "halted" ELSE "ready",
     !.message = IF s.halted THEN "halted" ELSE "none"]

ChunkState(m, r) ==
  [Refreshed(m, r.session) EXCEPT
     !.phase = CASE r.status = "running" -> "running"
                 [] r.status = "halted"  -> "halted"
                 [] OTHER -> "paused",
     !.message = IF r.status = "running" THEN "none" ELSE r.status,
     !.count = @ + r.executed]

(* Mutant: the limit is reported and the run left running.                 *)
LimitStateRunning(m) == [m EXCEPT !.message = "limit"]

LimitState(m) == [m EXCEPT !.phase = "paused", !.message = "limit"]

-----------------------------------------------------------------------------
(* The session is delivered or WASM fails to load.                         *)

SessionReady ==
  /\ wasm = "loading"
  /\ wasm' = "ready"
  /\ UNCHANGED <<session, machine, shown, operationPending, generation, frames,
                 history>>

SessionFails ==
  /\ wasm = "loading"
  /\ wasm' = "failed"
  /\ machine' = ErrorState(machine)
  /\ UNCHANGED <<session, shown, operationPending, generation, frames, history>>

Render ==
  /\ shown # View(machine, wasm)
  /\ shown' = View(machine, wasm)
  /\ UNCHANGED <<wasm, session, machine, operationPending, generation, frames,
                 history>>

-----------------------------------------------------------------------------
(* User events.  Each is possible only if the page shows its control       *)
(* enabled, and then runs its handler; the page is rendered after it.      *)

(* Mutant: an operation in flight leaves the controls enabled.             *)
ControlsDisabledByRun == shown.phase = "running"

ControlsDisabled == shown.busy \/ shown.phase = "running"

ButtonEnabled(op) ==
  /\ shown.initialized /\ ~ ControlsDisabled
  /\ op = "reset" => shown.loaded
  /\ op \in {"step", "run"} => shown.phase \in {"ready", "paused"}

Rendered == shown' = View(machine', wasm)

(* executeSingleOperation up to its await.                                 *)
ClickOperation(op) ==
  /\ ButtonEnabled(op)
  /\ ~ operationPending
  /\ generation < MaxGeneration
  /\ operationPending' = TRUE
  /\ machine' = [machine EXCEPT !.busy = TRUE, !.message = "none"]
  /\ frames' = Append(frames, [kind |-> op, state |-> machine'])
  /\ Rendered
  /\ UNCHANGED <<wasm, session, generation, history>>

(* Mutant: the count of the run before is kept.                            *)
ClickRunCounting ==
  /\ ButtonEnabled("run")
  /\ ~ operationPending
  /\ machine.phase \in {"ready", "paused"}
  /\ generation < MaxGeneration
  /\ generation' = generation + 1
  /\ machine' = [machine EXCEPT !.phase = "running", !.message = "none"]
  /\ frames' = Append(frames, [kind |-> "start", gen |-> generation',
                               state |-> machine'])
  /\ history' = [history EXCEPT !.ran = 0]
  /\ Rendered
  /\ UNCHANGED <<wasm, session, operationPending>>

ClickRun ==
  /\ ButtonEnabled("run")
  /\ ~ operationPending
  /\ machine.phase \in {"ready", "paused"}
  /\ generation < MaxGeneration
  /\ generation' = generation + 1
  /\ machine' = [machine EXCEPT !.phase = "running", !.count = 0,
                                !.message = "none"]
  /\ frames' = Append(frames, [kind |-> "start", gen |-> generation',
                               state |-> machine'])
  /\ history' = [history EXCEPT !.ran = 0]
  /\ Rendered
  /\ UNCHANGED <<wasm, session, operationPending>>

(* Mutant: the loop is not told.                                           *)
ClickPauseQuietly ==
  /\ shown.phase = "running"
  /\ machine.phase = "running"
  /\ machine' = [machine EXCEPT !.phase = "paused", !.message = "paused"]
  /\ Rendered
  /\ UNCHANGED <<wasm, session, operationPending, generation, frames, history>>

ClickPause ==
  /\ shown.phase = "running"
  /\ machine.phase = "running"
  /\ generation < MaxGeneration
  /\ generation' = generation + 1
  /\ machine' = [machine EXCEPT !.phase = "paused", !.message = "paused"]
  /\ Rendered
  /\ UNCHANGED <<wasm, session, operationPending, frames, history>>

ClickBreakpoint(a) ==
  /\ ~ ControlsDisabled /\ shown.initialized
  /\ machine.assembly # NoProgram
  /\ machine.phase # "running"
  /\ session' = ToggleBreakpoint(session, a)
  /\ machine' = [machine EXCEPT !.breakpoints = session'.breakpoints,
                                !.message = "none"]
  /\ Rendered
  /\ UNCHANGED <<wasm, operationPending, generation, frames, history>>

SelectMemory(a) ==
  /\ ~ ControlsDisabled /\ shown.initialized /\ shown.loaded
  /\ machine.snapshot # NoSnapshot
  /\ machine.phase # "running"
  /\ machine' = [machine EXCEPT !.selected = a]
  /\ history' = [history EXCEPT !.chosen = a]
  /\ Rendered
  /\ UNCHANGED <<wasm, session, operationPending, generation, frames>>

UpdateSource(src) ==
  /\ ~ ControlsDisabled
  /\ machine' = [machine EXCEPT
                   !.source = src,
                   !.phase = IF machine.snapshot = NoSnapshot THEN "empty"
                             ELSE IF machine.snapshot.halted THEN "halted"
                             ELSE "ready"]
  /\ history' = [history EXCEPT !.typed = src]
  /\ Rendered
  /\ UNCHANGED <<wasm, session, operationPending, generation, frames>>

-----------------------------------------------------------------------------
(* The animation frame callback of executeSingleOperation.                 *)

(* Mutant: a failed operation stays pending.                               *)
FinishIfWell(m, failed) ==
  /\ machine' = m
  /\ history' = [history EXCEPT !.failed = failed]
  /\ operationPending' = (m.phase = "error")
  /\ frames' = Tail(frames)
  /\ UNCHANGED <<wasm, shown>>

Finish(m, failed) ==
  /\ machine' = m
  /\ history' = [history EXCEPT !.failed = failed]
  /\ operationPending' = FALSE
  /\ frames' = Tail(frames)
  /\ UNCHANGED <<wasm, shown>>

CompileFrame ==
  /\ frames # << >> /\ Head(frames).kind = "compile"
  /\ generation' = generation + 1
  /\ LET m == Head(frames).state
     IN  IF m.source = Broken
         THEN Finish(ErrorState(m), history.failed) /\ UNCHANGED session
         ELSE /\ session' = Load(session, m.source)
              /\ Finish(CompiledState(m, session'), FALSE)

ResetFrame ==
  /\ frames # << >> /\ Head(frames).kind = "reset"
  /\ generation' = generation + 1
  /\ session' = Load(session, session.program)
  /\ Finish(ResetState(Head(frames).state, session'), FALSE)

StepFrame ==
  /\ frames # << >> /\ Head(frames).kind = "step"
  /\ LET m == Head(frames).state
         r == StepSession(session)
     IN  /\ session' = r.session
         /\ IF r.status = "thrown"
            THEN Finish(ErrorState(m), TRUE)
            ELSE Finish(SteppedState(m, r.session), FALSE)
  /\ UNCHANGED generation

-----------------------------------------------------------------------------
(* The callbacks of run, each up to its next await.                        *)

Stop(m) == machine' = m /\ frames' = Tail(frames)

Await(f, m) ==
  /\ machine' = m
  /\ frames' = Append(Tail(frames), [f EXCEPT !.kind = "loop", !.state = m])

Executed(r) ==
  /\ session' = r.session
  /\ history' = [history EXCEPT !.ran = @ + r.executed,
                                !.failed = (r.status = "thrown")]

(* Mutant: a paused run goes on.                                           *)
AlwaysCurrent(f) == TRUE

IsCurrent(f) == generation = f.gen

(* A run that starts on a breakpoint first steps over it.                  *)
StepsOver(f) ==
  /\ f.kind = "start"
  /\ f.state.snapshot.pc \in f.state.breakpoints
  /\ IsCurrent(f)

StepOverFrame ==
  /\ frames # << >> /\ Head(frames).kind = "start"
  /\ LET f == Head(frames)
         r == StepSession(session)
         m == [SteppedState(f.state, r.session) EXCEPT
                 !.phase = IF @ = "halted" THEN "halted" ELSE "running",
                 !.count = r.executed]
     IN  /\ StepsOver(f)
         /\ Executed(r)
         /\ IF r.status = "thrown" THEN Stop(ErrorState(f.state))
            ELSE IF r.session.halted THEN Stop(m)
            ELSE Await(f, m)
  /\ UNCHANGED <<wasm, shown, operationPending, generation>>

(* Mutant: chunks of full size to the end.                                 *)
FullChunk(remaining) == ChunkSize

ChunkOf(remaining) == Min({remaining, ChunkSize})

ChunkFrame ==
  /\ frames # << >> /\ Head(frames).kind \in {"start", "loop"}
  /\ LET f == Head(frames)
         remaining == RunLimit - f.state.count
         r == RunChunk(session, ChunkOf(remaining))
         m == ChunkState(f.state, r)
     IN  /\ ~ StepsOver(f)
         /\ IsCurrent(f)
         /\ IF remaining <= 0
            THEN Stop(LimitState(f.state)) /\ UNCHANGED <<session, history>>
            ELSE /\ Executed(r)
                 /\ IF r.status = "thrown" THEN Stop(ErrorState(f.state))
                    ELSE IF r.status # "running" THEN Stop(m)
                    ELSE IF m.count >= RunLimit THEN Stop(LimitState(m))
                    ELSE Await(f, m)
  /\ UNCHANGED <<wasm, shown, operationPending, generation>>

(* A run whose generation has passed ends without a trace.                 *)
StaleFrame ==
  /\ frames # << >> /\ Head(frames).kind \in {"start", "loop"}
  /\ ~ IsCurrent(Head(frames))
  /\ frames' = Tail(frames)
  /\ UNCHANGED <<wasm, session, machine, shown, operationPending, generation,
                 history>>

-----------------------------------------------------------------------------
Frame ==
  CompileFrame \/ ResetFrame \/ StepFrame
  \/ StepOverFrame \/ ChunkFrame \/ StaleFrame

User ==
  \/ \E op \in Operations : ClickOperation(op)
  \/ ClickRun \/ ClickPause
  \/ \E a \in Position : ClickBreakpoint(a) \/ SelectMemory(a)
  \/ \E src \in Source : UpdateSource(src)

Next == SessionReady \/ SessionFails \/ Render \/ User \/ Frame

Spec == Init /\ [][Next]_vars

(* The browser delivers animation frames and React renders; nobody owes    *)
(* the page a click.                                                       *)
FairSpec == Spec /\ WF_vars(Frame) /\ WF_vars(Render)

-----------------------------------------------------------------------------
(* Who may touch the processor: callbacks of a single operation, and the   *)
(* callback of the run whose generation is current.                        *)
OperationFrames == {n \in DOMAIN frames : frames[n].kind \in Operations}
LiveFrames == {n \in DOMAIN frames : /\ frames[n].kind \in {"start", "loop"}
                                     /\ frames[n].gen = generation}

(* At most one callback can still change the session, and the page knows   *)
(* which: "busy" and operationPending stand for a single operation in      *)
(* flight, the phase "running" for a live run.  Runs that were paused and  *)
(* restarted within one frame leave only dead callbacks behind.            *)
OneActor ==
  /\ Cardinality(OperationFrames) + Cardinality(LiveFrames) <= 1
  /\ operationPending <=> OperationFrames # {}
  /\ machine.busy <=> OperationFrames # {}
  /\ machine.phase = "running" <=> LiveFrames # {}

(* The phase agrees with the registers on the page, and these are the      *)
(* processor's.  After a session call that threw they are older, by the    *)
(* instructions of at most one chunk, and the processor has halted.        *)
PageTruthful ==
  Loaded(session) =>
    /\ machine.phase = "halted" => machine.snapshot.halted
    /\ machine.phase \in {"ready", "running", "paused"} => ~ machine.snapshot.halted
    /\ IF history.failed
       THEN session.halted /\ session.pc - machine.snapshot.pc \in 1 .. ChunkSize
       ELSE machine.snapshot = Snapshot(session)

(* A commit computed from a state captured before an await never undoes    *)
(* what the user entered meanwhile, and the page lists the session's       *)
(* breakpoints and the program the session holds, also after a failed      *)
(* compilation.                                                            *)
InputKept ==
  /\ machine.source = history.typed
  /\ machine.selected = history.chosen
  /\ machine.breakpoints = session.breakpoints
  /\ machine.assembly = session.program

(* One press of Run executes at most RunLimit instructions, however the    *)
(* chunks fall, and the page counts exactly the instructions executed.     *)
RunBudget ==
  /\ history.ran <= RunLimit
  /\ machine.phase \in {"running", "paused"} => machine.count = history.ran

(* The stop message tells why the processor stands where it stands.        *)
MessageTruthful ==
  /\ machine.message = "breakpoint" =>
       session.pc \in session.breakpoints /\ history.ran > 0
  /\ machine.message = "limit" => history.ran = RunLimit
  /\ machine.message = "halted" => session.halted

(* What is under way: the operation whose callback waits, a run that may   *)
(* still act, or nothing.                                                  *)
UnderWay ==
  IF machine.busy
  THEN CHOOSE op \in Operations : \E n \in OperationFrames : frames[n].kind = op
  ELSE IF machine.phase = "running" THEN "run" ELSE "none"

Control ==
  INSTANCE RunControl WITH processor <- session, command <- UnderWay,
                           source <- machine.source, spent <- history.ran

(* The page is a run control: whatever the order of its callbacks, renders *)
(* and clicks, commands are carried out one at a time, once, on what was   *)
(* entered last, nothing executes after Pause, and a callback that comes   *)
(* too late leaves no trace (App.tsx, runner.ts).                          *)
ControlSpec == Control!Spec

(* The processor moves only for an operation in flight or a run the page   *)
(* shows as running: once Pause has been pressed nothing executes until    *)
(* the user asks again.                                                    *)
MovesOnCommand ==
  [][<<session.program, session.pc, session.halted>>'
       # <<session.program, session.pc, session.halted>>
     => operationPending \/ machine.phase = "running"]_vars

(* A run executes the instruction at a breakpoint only as its first.       *)
BreakpointRespected ==
  [][history'.ran > history.ran =>
       \A n \in 0 .. history'.ran - history.ran - 1 :
         After(session, n).pc \in session.breakpoints
           => n = 0 /\ history.ran = 0]_vars

(* Every operation ends, and every run ends by itself: it halts, meets a   *)
(* breakpoint or an illegal instruction, or exhausts its limit.            *)
OperationEnds == operationPending ~> ~ operationPending
RunEnds == machine.phase = "running" ~> machine.phase # "running"
=============================================================================
