--------------------------- MODULE PlaygroundProofs ---------------------------
(***************************************************************************)
(* The playground for every set of programs, every length, limit and chunk *)
(* size and any number of runs: at most one callback may change the        *)
(* session, and what it captured before its await is still the truth when  *)
(* it commits.                                                             *)
(***************************************************************************)
EXTENDS Playground, SequenceTheorems, FiniteSetTheorems, WellFoundedInduction,
        TLAPS

Operating(f) == f.kind \in Operations
Live(f, g)   == f.kind \in {"start", "loop"} /\ f.gen = g
Acting(f, g) == Operating(f) \/ Live(f, g)

(* What a waiting callback that may act relies on: the state it captured   *)
(* is still the machine's, a reset or a step has a program, a run that     *)
(* starts has executed nothing and one that goes on has.                   *)
Due(f, m, s, ran) ==
  /\ f.state = m
  /\ f.kind \in {"reset", "step"} => Loaded(s)
  /\ f.kind = "start" => ran = 0
  /\ f.kind = "loop" => ran > 0

(* The queue fs of generation g belongs to machine m, session s and a run  *)
(* of ran instructions, with an operation pending or not.                  *)
Queue(fs, g, m, s, ran, pending) ==
  /\ \A n \in DOMAIN fs : ~ Operating(fs[n]) => fs[n].gen <= g
  /\ \A n \in DOMAIN fs : Acting(fs[n], g) => Due(fs[n], m, s, ran)
  /\ \A j, k \in DOMAIN fs : Acting(fs[j], g) /\ Acting(fs[k], g) => j = k
  /\ pending <=> \E n \in DOMAIN fs : Operating(fs[n])
  /\ m.busy <=> pending
  /\ m.phase = "running" <=> \E n \in DOMAIN fs : Live(fs[n], g)

(* The processor stands before the end of its program until it halts.      *)
Standing(s) ==
  IF Loaded(s)
  THEN /\ ~ s.halted => s.pc < Length[s.program]
       /\ Ending[s.program] = "loop" => ~ s.halted
  ELSE s.pc = 0 /\ ~ s.halted /\ s.breakpoints = {}

Working == {"ready", "running", "paused", "halted"}

(* What the machine, the session and the history say of one another.       *)
Consistent(m, s, h) ==
  /\ m.snapshot = NoSnapshot <=> ~ Loaded(s)
  /\ m.phase \in Working => Loaded(s)
  /\ h.failed => s.halted
  /\ m.busy => m.message = "none"
  /\ Standing(s)

(* The page is behind the machine in a safe direction only.                *)
PageBehind ==
  /\ shown.initialized => wasm = "ready"
  /\ wasm # "ready" => frames = << >>
  /\ machine.busy => shown.busy
  /\ machine.phase = "running" => shown.phase = "running"
  /\ shown.loaded \/ shown.phase \in Working => Loaded(session)

PageInv ==
  /\ TypeOK
  /\ Queue(frames, generation, machine, session, history.ran, operationPending)
  /\ operationPending => generation < MaxGeneration
  /\ generation <= MaxGeneration
  /\ Consistent(machine, session, history)
  /\ PageTruthful /\ InputKept /\ RunBudget /\ MessageTruthful
  /\ PageBehind

-----------------------------------------------------------------------------
(* The session.                                                            *)

(* Every nonempty set of natural numbers has a least element.              *)
Before == {pair \in Nat \X Nat : pair[1] < pair[2]}

LEMMA LeastElement ==
  ASSUME NEW T \in SUBSET Nat, T # {}
  PROVE  \E n \in T : \A m \in T : n <= m
<1>1. IsWellFoundedOn(Before, Nat)
  BY NatLessThanWellFounded DEF OpToRel, Before
<1>2. PICK n \in T : \A m \in T : <<m, n>> \notin Before
  BY <1>1, WFMin
<1>3. \A m \in T : ~ (m < n)
  BY <1>2 DEF Before
<1> QED BY <1>3

LEMMA Remainder ==
  ASSUME NEW a \in Nat, NEW b \in Nat \ {0}
  PROVE  a % b \in 0 .. b - 1 /\ (a < b => a % b = a)
  OBVIOUS

(* The fields of a loaded session whose next n instructions stay inside    *)
(* its program.                                                            *)
LEMMA AfterFields ==
  ASSUME NEW s \in SessionType, Loaded(s), Standing(s), NEW n \in Nat,
         Ending[s.program] = "loop" \/ n = 0 \/ s.pc + n <= Length[s.program]
  PROVE  /\ After(s, n) \in SessionType
         /\ After(s, n).program = s.program
         /\ After(s, n).breakpoints = s.breakpoints
         /\ s.halted => After(s, n).halted
         /\ n = 0 => After(s, n) = s
         /\ n > 0 /\ ~ s.halted => Standing(After(s, n))
<1> DEFINE length == Length[s.program]
<1>1. /\ s.program \in Program /\ s.pc \in 0 .. MaxLength /\ s.halted \in BOOLEAN
      /\ s.breakpoints \in SUBSET Position
      /\ length \in 1 .. MaxLength /\ MaxLength \in Nat
  BY ProgramAssumption DEF SessionType, Loaded, Position
<1>2. s = [program |-> s.program, pc |-> s.pc, halted |-> s.halted,
           breakpoints |-> s.breakpoints]
  BY DEF SessionType
<1> HIDE DEF length
<1>3. CASE Ending[s.program] = "loop"
  <2>1. /\ ~ s.halted /\ s.pc < length
    BY <1>3 DEF Standing, length
  <2>2. /\ (s.pc + n) % length \in 0 .. length - 1
        /\ n = 0 => (s.pc + n) % length = s.pc
    <3>1. /\ length \in Nat \ {0} /\ s.pc \in Nat /\ s.pc + n \in Nat
          /\ n = 0 => s.pc + n = s.pc
      BY <1>1
    <3>2. s.pc < length
      BY <2>1
    <3> QED BY <3>1, <3>2, Remainder
  <2>3. After(s, n) = [s EXCEPT !.pc = (s.pc + n) % length]
    BY <1>3 DEF After, length
  <2> QED BY <1>1, <1>2, <1>3, <2>1, <2>2, <2>3 DEF SessionType, Position, Standing, Loaded, length
<1>4. CASE Ending[s.program] # "loop"
  <2>1. After(s, n) = [s EXCEPT !.pc = s.pc + n,
                                !.halted = (s.halted \/ (n > 0 /\ s.pc + n = length))]
    BY <1>4 DEF After, length
  <2>2. s.pc + n \in 0 .. MaxLength
    BY <1>1, <1>4 DEF length
  <2>3. s.pc + n <= length \/ n = 0
    BY <1>4 DEF length
  <2> DEFINE t == After(s, n)
  <2>4. t = [program |-> s.program, pc |-> s.pc + n,
             halted |-> (s.halted \/ (n > 0 /\ s.pc + n = length)),
             breakpoints |-> s.breakpoints]
    BY <1>2, <2>1
  <2>5. /\ t.program = s.program /\ t.pc = s.pc + n
        /\ t.breakpoints = s.breakpoints
        /\ t.halted = (s.halted \/ (n > 0 /\ s.pc + n = length))
    BY <2>4
  <2>6. t \in SessionType
    BY <1>1, <2>2, <2>4 DEF SessionType, Position
  <2>7. n = 0 => t = s
    BY <1>1, <1>2, <2>4
  <2> HIDE DEF t
  <2>8. n > 0 /\ ~ s.halted => Standing(t)
    <3>1. n > 0 /\ ~ t.halted => s.pc + n # length
      BY <2>5
    <3>2. n > 0 /\ ~ t.halted => t.pc < length
      BY <1>1, <2>3, <2>5, <3>1
    <3> QED BY <1>4, <2>5, <3>2 DEF Standing, Loaded, length
  <2>9. s.halted => t.halted
    BY <2>5
  <2> QED BY <2>5, <2>6, <2>7, <2>8, <2>9 DEF t
<1> QED BY <1>3, <1>4

(* A program that does not loop runs straight on.                          *)
LEMMA AfterStraight ==
  ASSUME NEW s \in SessionType, NEW n \in Nat, Ending[s.program] = "error"
  PROVE  After(s, n).pc = s.pc + n
<1>1. s = [program |-> s.program, pc |-> s.pc, halted |-> s.halted,
           breakpoints |-> s.breakpoints]
  BY DEF SessionType
<1>2. After(s, n) =
        [s EXCEPT !.pc = s.pc + n,
                  !.halted = (s.halted \/ (n > 0 /\ s.pc + n = Length[s.program]))]
  BY DEF After
<1> QED BY <1>1, <1>2

(* What every call that executes instructions leaves.                      *)
Called(s, r, most) ==
  /\ r.session \in SessionType /\ Standing(r.session)
  /\ r.session.program = s.program
  /\ r.session.breakpoints = s.breakpoints
  /\ r.executed \in 0 .. most
  /\ s.halted => r.executed = 0
  /\ r.status \in {"thrown", "halted"} => r.session.halted
  /\ r.status = "thrown" => r.executed > 0 /\ r.session.pc = s.pc + r.executed
  /\ r.executed = 0 => r.session = s
  /\ r.status \in {"running", "breakpoint", "executed"} => ~ r.session.halted

LEMMA StepSessionCalled ==
  ASSUME NEW s \in SessionType, Loaded(s), Standing(s)
  PROVE  /\ Called(s, StepSession(s), 1)
         /\ StepSession(s).status \in {"thrown", "halted", "executed"}
         /\ s.halted \/ StepSession(s).executed = 1
<1>1. s.program \in Program /\ s.pc \in Nat /\ s.halted \in BOOLEAN
      /\ Length[s.program] \in Nat
  BY ProgramAssumption DEF SessionType, Loaded, Position
<1>2. CASE s.halted
  <2>1. After(s, 0) = s
    BY AfterFields
  <2>2. StepSession(s) = [session |-> s, executed |-> 0, status |-> "halted"]
    BY <1>2, <2>1 DEF StepSession, Answer
  <2> QED BY <1>2, <2>2 DEF Called
<1>3. CASE ~ s.halted
  <2>1. s.pc + 1 <= Length[s.program]
    BY <1>1, <1>3 DEF Standing
  <2> DEFINE t == After(s, 1)
  <2>2. /\ t \in SessionType /\ Standing(t) /\ t.program = s.program
        /\ t.breakpoints = s.breakpoints
    BY <1>3, <2>1, AfterFields
  <2>4. Ending[s.program] = "error" => t.pc = s.pc + 1
    BY <1>1, AfterStraight
  <2>3. /\ StepSession(s).session = t /\ StepSession(s).executed = 1
        /\ StepSession(s).status =
             IF t.halted /\ Ending[s.program] = "error" THEN "thrown"
             ELSE IF t.halted THEN "halted" ELSE "executed"
    BY <1>3 DEF StepSession, Answer
  <2> HIDE DEF t
  <2> QED BY <1>3, <2>2, <2>3, <2>4 DEF Called
<1> QED BY <1>2, <1>3

(* A chunk ends at the first place where it must.                          *)
LEMMA RunChunkCalled ==
  ASSUME NEW s \in SessionType, Loaded(s), Standing(s), NEW max \in Nat
  PROVE  LET r == RunChunk(s, max)
         IN  /\ Called(s, r, max)
             /\ r.status \in {"thrown", "halted", "breakpoint", "running"}
             /\ r.status = "breakpoint" => r.session.pc \in s.breakpoints
             /\ r.status = "running" => r.executed = max
             /\ r.session = After(s, r.executed)
             /\ \A l \in 0 .. r.executed - 1 :
                  After(s, l).pc \notin s.breakpoints /\ ~ After(s, l).halted
<1> DEFINE Ends  == {m \in 0 .. max : StopsAfter(s, m, max)}
           First(m) == /\ StopsAfter(s, m, max)
                       /\ \A l \in 0 .. m - 1 : ~ StopsAfter(s, l, max)
           n == CHOOSE m \in 0 .. max : First(m)
           length == Length[s.program]
<1>1. max \in Ends /\ Ends \in SUBSET Nat
  BY DEF StopsAfter
<1>2. PICK least \in Ends : \A m \in Ends : least <= m
  BY <1>1, LeastElement
<1>3. First(least) /\ least \in 0 .. max
  BY <1>2 DEF StopsAfter
<1>4. n \in 0 .. max /\ First(n)
  BY <1>3
<1>5. s.pc \in Nat /\ length \in Nat \ {0} /\ s.halted \in BOOLEAN
  BY ProgramAssumption DEF SessionType, Loaded, Position
<1>6. RunChunk(s, max) =
        Answer(s, n, IF After(s, n).halted THEN "halted"
                     ELSE IF After(s, n).pc \in s.breakpoints THEN "breakpoint"
                     ELSE "running")
  BY DEF RunChunk
<1> HIDE DEF Ends, First, n, length
<1>7. s.halted => n = 0
  <2>1. ASSUME s.halted, n # 0 PROVE FALSE
    <3>1. After(s, 0) = s
      BY AfterFields
    <3>2. 0 \in 0 .. n - 1
      BY <1>4, <2>1
    <3> QED BY <1>4, <2>1, <3>1, <3>2 DEF First, StopsAfter
  <2> QED BY <2>1
<1>8. Ending[s.program] = "loop" \/ n = 0 \/ s.pc + n <= length
  <2>1. ASSUME Ending[s.program] # "loop", n # 0, s.pc + n > length PROVE FALSE
    <3> DEFINE l == length - s.pc
    <3>1. ~ s.halted /\ s.pc < length
      BY <1>7, <2>1 DEF Standing, length
    <3>2. l \in 0 .. n - 1 /\ l > 0 /\ s.pc + l = length
      BY <1>4, <1>5, <2>1, <3>1
    <3> HIDE DEF l
    <3>3. After(s, l) = [s EXCEPT !.pc = s.pc + l,
                                  !.halted = (s.halted \/ (l > 0 /\ s.pc + l = length))]
      BY <2>1 DEF After, length
    <3>4. After(s, l).halted
      BY <3>2, <3>3 DEF SessionType
    <3> QED BY <1>4, <3>2, <3>4 DEF First, StopsAfter
  <2> QED BY <1>4, <1>5, <2>1
<1> DEFINE t == After(s, n)
<1>9. /\ t \in SessionType /\ t.program = s.program
      /\ t.breakpoints = s.breakpoints
      /\ n = 0 => t = s
      /\ n > 0 /\ ~ s.halted => Standing(t)
  BY <1>4, <1>8, AfterFields DEF length
<1>10. Standing(t)
  BY <1>4, <1>7, <1>9
<1>11. /\ RunChunk(s, max).session = t /\ RunChunk(s, max).executed = n
       /\ RunChunk(s, max).status =
            IF n > 0 /\ t.halted /\ Ending[s.program] = "error" THEN "thrown"
            ELSE IF t.halted THEN "halted"
            ELSE IF t.pc \in s.breakpoints THEN "breakpoint" ELSE "running"
  BY <1>6 DEF Answer
<1>12. t.halted \/ t.pc \in s.breakpoints \/ n = max
  BY <1>4 DEF First, StopsAfter
<1>13. \A l \in 0 .. n - 1 : After(s, l).pc \notin s.breakpoints /\ ~ After(s, l).halted
  BY <1>4 DEF First, StopsAfter
<1>15. RunChunk(s, max).session = After(s, RunChunk(s, max).executed)
  BY <1>11
<1>16. Ending[s.program] = "error" => t.pc = s.pc + n
  BY <1>4, AfterStraight
<1> HIDE DEF t
<1>14. Called(s, RunChunk(s, max), max)
  <2> DEFINE r == RunChunk(s, max)
  <2>1. /\ r.status \in {"thrown", "halted"} => t.halted
        /\ r.status = "thrown" => n > 0 /\ t.pc = s.pc + n
        /\ r.status \in {"running", "breakpoint", "executed"} => ~ t.halted
    BY <1>11, <1>16
  <2>2. r.session = t /\ r.executed = n
    BY <1>11
  <2> HIDE DEF r
  <2>3. Called(s, r, max)
    <3>1. n \in 0 .. max /\ (s.halted => n = 0)
      BY <1>4, <1>7
    <3>2. t \in SessionType /\ t.program = s.program /\ t.breakpoints = s.breakpoints
      BY <1>9
    <3>3. n = 0 => t = s
      BY <1>9
    <3>4. Standing(t)
      BY <1>10
    <3> QED BY <2>1, <2>2, <3>1, <3>2, <3>3, <3>4 DEF Called
  <2> QED BY <2>3 DEF r
<1> QED BY <1>9, <1>11, <1>12, <1>13, <1>14, <1>15

-----------------------------------------------------------------------------
(* The queue of callbacks.                                                 *)

(* No callback is of a later generation than g, and none may act.          *)
Quiet(fs, g) ==
  /\ \A n \in DOMAIN fs : ~ Operating(fs[n]) => fs[n].gen <= g
  /\ \A n \in DOMAIN fs : ~ Acting(fs[n], g)

LEMMA CallbackFields ==
  ASSUME NEW f \in Callback
  PROVE  /\ f.state \in MachineType
         /\ f.kind \in Operations \cup {"start", "loop"}
         /\ ~ Operating(f) => f.kind \in {"start", "loop"}
                              /\ f.gen \in 0 .. MaxGeneration + 1
  BY DEF Callback, Operating, Operations

(* While the machine is idle no callback acts, and the machine may change  *)
(* as it likes.                                                            *)
LEMMA IdleQuiet ==
  ASSUME NEW fs, NEW g, NEW m, NEW s, NEW ran, NEW pending \in BOOLEAN,
         Queue(fs, g, m, s, ran, pending), ~ m.busy, m.phase # "running"
  PROVE  Quiet(fs, g) /\ ~ pending
  BY DEF Queue, Quiet, Acting

LEMMA QuietQueue ==
  ASSUME NEW fs, NEW g, NEW m, NEW s, NEW ran, NEW pending \in BOOLEAN,
         Quiet(fs, g), ~ pending, ~ m.busy, m.phase # "running"
  PROVE  Queue(fs, g, m, s, ran, pending)
  BY DEF Queue, Quiet, Acting

(* The next generation silences every run.                                 *)
LEMMA LaterQuiet ==
  ASSUME NEW fs \in Seq(Callback), NEW g \in Nat,
         \A n \in DOMAIN fs : ~ Operating(fs[n]),
         \A n \in DOMAIN fs : ~ Operating(fs[n]) => fs[n].gen <= g
  PROVE  Quiet(fs, g + 1)
<1>1. ASSUME NEW n \in DOMAIN fs
      PROVE  fs[n].gen <= g + 1 /\ fs[n].gen # g + 1
  <2>1. fs[n] \in Callback
    BY LenProperties, ElementOfSeq
  <2>2. fs[n].gen \in Int /\ fs[n].gen <= g
    BY <2>1, CallbackFields
  <2> QED BY <2>2
<1> QED BY <1>1 DEF Quiet, Acting, Live

LEMMA QuietLater ==
  ASSUME NEW fs \in Seq(Callback), NEW g \in Nat, Quiet(fs, g)
  PROVE  Quiet(fs, g + 1)
  BY LaterQuiet DEF Quiet, Acting

(* A callback that may act joins a quiet queue.                            *)
LEMMA JoinQueue ==
  ASSUME NEW fs \in Seq(Callback), NEW g \in Nat, NEW m, NEW s, NEW ran,
         NEW pending \in BOOLEAN, NEW f \in Callback,
         Quiet(fs, g), Acting(f, g), Due(f, m, s, ran),
         pending <=> Operating(f), m.busy <=> pending,
         m.phase = "running" <=> ~ Operating(f)
  PROVE  Queue(Append(fs, f), g, m, s, ran, pending)
<1> DEFINE new == Append(fs, f)
           last == Len(fs) + 1
<1>1. /\ Len(fs) \in Nat /\ DOMAIN fs = 1 .. Len(fs)
      /\ new \in Seq(Callback) /\ Len(new) = last
      /\ \A n \in 1 .. Len(fs) : new[n] = fs[n]
      /\ new[last] = f
  BY AppendProperties, LenProperties
<1>2. DOMAIN new = 1 .. last
  BY <1>1, LenProperties
<1> HIDE DEF new
<1>3. last \in DOMAIN new
      /\ \A n \in DOMAIN new : n = last \/ (n \in DOMAIN fs /\ new[n] = fs[n])
  BY <1>1, <1>2
<1>4. \A n \in DOMAIN new : Acting(new[n], g) => n = last
  BY <1>3 DEF Quiet
<1>5. \A n \in DOMAIN new : Operating(new[n]) \/ Live(new[n], g) => n = last
  BY <1>4 DEF Acting
<1>6. ~ Operating(f) => Live(f, g) /\ f.gen = g
  BY DEF Acting, Live
<1>7. Operating(f) => ~ Live(f, g)
  BY DEF Operating, Live, Operations
<1>8. \A n \in DOMAIN new : ~ Operating(new[n]) => new[n].gen <= g
  <2>1. ~ Operating(f) => f.gen <= g
    BY <1>6
  <2> QED BY <1>1, <1>3, <2>1 DEF Quiet
<1>9. /\ \A n \in DOMAIN new : Acting(new[n], g) => Due(new[n], m, s, ran)
      /\ \A j, k \in DOMAIN new : Acting(new[j], g) /\ Acting(new[k], g) => j = k
  BY <1>1, <1>4
<1>10. /\ Operating(f) <=> \E n \in DOMAIN new : Operating(new[n])
       /\ Live(f, g) <=> \E n \in DOMAIN new : Live(new[n], g)
  BY <1>1, <1>3, <1>5
<1>11. Queue(new, g, m, s, ran, pending)
  BY <1>6, <1>7, <1>8, <1>9, <1>10 DEF Queue
<1> QED BY <1>11 DEF new

(* When the callback at the head may act it is the only one that may: what *)
(* it captured is the truth, and the queue behind it is quiet.             *)
LEMMA LeaveQueue ==
  ASSUME NEW fs \in Seq(Callback), fs # << >>, NEW g \in Nat, NEW m, NEW s,
         NEW ran, NEW pending \in BOOLEAN,
         Queue(fs, g, m, s, ran, pending), Acting(Head(fs), g)
  PROVE  /\ Tail(fs) \in Seq(Callback)
         /\ Quiet(Tail(fs), g) /\ Quiet(Tail(fs), g + 1)
         /\ Due(Head(fs), m, s, ran)
         /\ Head(fs) \in Callback
         /\ Operating(Head(fs)) => pending /\ m.busy /\ m.phase # "running"
         /\ ~ Operating(Head(fs)) => ~ pending /\ ~ m.busy /\ m.phase = "running"
<1>1. /\ Head(fs) \in Callback /\ Tail(fs) \in Seq(Callback)
      /\ Len(Tail(fs)) = Len(fs) - 1 /\ Len(fs) \in Nat
      /\ \A n \in 1 .. Len(Tail(fs)) : Tail(fs)[n] = fs[n + 1]
      /\ DOMAIN fs = 1 .. Len(fs) /\ DOMAIN Tail(fs) = 1 .. Len(Tail(fs))
  BY HeadTailProperties, LenProperties
<1>2. Head(fs) = fs[1] /\ 1 \in DOMAIN fs
  BY <1>1, EmptySeq
<1>3. \A n \in DOMAIN Tail(fs) : n + 1 \in DOMAIN fs /\ n + 1 # 1
                                 /\ Tail(fs)[n] = fs[n + 1]
  BY <1>1
<1>4. \A n \in DOMAIN fs : Acting(fs[n], g) => n = 1
  BY <1>2 DEF Queue
<1>5. Quiet(Tail(fs), g)
  BY <1>3, <1>4 DEF Queue, Quiet
<1>6. Operating(Head(fs)) => ~ Live(Head(fs), g)
  BY DEF Operating, Live, Operations
<1>7. (\E n \in DOMAIN fs : Operating(fs[n])) <=> Operating(Head(fs))
  BY <1>2, <1>4 DEF Acting
<1>8. (\E n \in DOMAIN fs : Live(fs[n], g)) <=> Live(Head(fs), g)
  BY <1>2, <1>4 DEF Acting
<1>9. Live(Head(fs), g) <=> ~ Operating(Head(fs))
  BY <1>6 DEF Acting
<1>10. /\ pending <=> Operating(Head(fs)) 
       /\ m.busy <=> Operating(Head(fs))
       /\ m.phase = "running" <=> ~ Operating(Head(fs))
  BY <1>7, <1>8, <1>9 DEF Queue
<1>11. Due(Head(fs), m, s, ran)
  BY <1>2 DEF Queue
<1> QED BY <1>1, <1>5, <1>10, <1>11, QuietLater

(* A callback that may not act leaves without a trace.                     *)
LEMMA StaleQueue ==
  ASSUME NEW fs \in Seq(Callback), fs # << >>, NEW g \in Nat, NEW m, NEW s,
         NEW ran, NEW pending \in BOOLEAN,
         Queue(fs, g, m, s, ran, pending), ~ Acting(Head(fs), g)
  PROVE  Tail(fs) \in Seq(Callback) /\ Queue(Tail(fs), g, m, s, ran, pending)
<1>1. /\ Tail(fs) \in Seq(Callback)
      /\ Len(Tail(fs)) = Len(fs) - 1 /\ Len(fs) \in Nat
      /\ \A n \in 1 .. Len(Tail(fs)) : Tail(fs)[n] = fs[n + 1]
      /\ DOMAIN fs = 1 .. Len(fs) /\ DOMAIN Tail(fs) = 1 .. Len(Tail(fs))
  BY HeadTailProperties, LenProperties
<1>2. Head(fs) = fs[1] /\ 1 \in DOMAIN fs
  BY <1>1, EmptySeq
<1>3. \A n \in DOMAIN Tail(fs) : n + 1 \in DOMAIN fs /\ Tail(fs)[n] = fs[n + 1]
  BY <1>1
<1>4. \A n \in DOMAIN fs : n = 1 \/ \E k \in DOMAIN Tail(fs) : n = k + 1
  <2>1. ASSUME NEW n \in DOMAIN fs, n # 1
        PROVE  n - 1 \in DOMAIN Tail(fs) /\ n = (n - 1) + 1
    BY <1>1, <2>1
  <2> QED BY <2>1
<1>5. \A j, k \in DOMAIN Tail(fs) : j + 1 = k + 1 => j = k
  BY <1>1
<1>6. ~ Operating(fs[1]) /\ ~ Live(fs[1], g)
  BY <1>2 DEF Acting
<1>7. (\E n \in DOMAIN fs : Operating(fs[n]))
        <=> \E n \in DOMAIN Tail(fs) : Operating(Tail(fs)[n])
  BY <1>3, <1>4, <1>6
<1>8. (\E n \in DOMAIN fs : Live(fs[n], g))
        <=> \E n \in DOMAIN Tail(fs) : Live(Tail(fs)[n], g)
  BY <1>3, <1>4, <1>6
<1>9. \A j, k \in DOMAIN Tail(fs) :
        Acting(Tail(fs)[j], g) /\ Acting(Tail(fs)[k], g) => j = k
  BY <1>3, <1>5 DEF Queue
<1>10. \A n \in DOMAIN Tail(fs) :
         /\ ~ Operating(Tail(fs)[n]) => Tail(fs)[n].gen <= g
         /\ Acting(Tail(fs)[n], g) => Due(Tail(fs)[n], m, s, ran)
  BY <1>3 DEF Queue
<1> QED BY <1>1, <1>7, <1>8, <1>9, <1>10 DEF Queue

-----------------------------------------------------------------------------
(* The invariant holds initially.                                          *)
LEMMA InitInv == Init => PageInv
<1> SUFFICES ASSUME Init PROVE PageInv
  OBVIOUS
<1>1. PICK src \in Program :
        /\ machine = [phase |-> "empty", busy |-> FALSE, snapshot |-> NoSnapshot,
                      assembly |-> NoProgram, source |-> src, selected |-> 0,
                      breakpoints |-> {}, count |-> 0, message |-> "none"]
        /\ history = [ran |-> 0, typed |-> src, chosen |-> 0, failed |-> FALSE]
  BY DEF Init
<1>2. 0 \in Position /\ RunLimit \in Nat /\ MaxGeneration \in Nat
  BY ProgramAssumption, RunAssumption DEF Position
<1>3. frames = << >> /\ frames \in Seq(Callback) /\ DOMAIN frames = {}
  BY EmptySeq, LenProperties DEF Init
<1>4. session = [program |-> NoProgram, pc |-> 0, halted |-> FALSE, breakpoints |-> {}]
  BY DEF Init, NewSession
<1>5. shown = [initialized |-> FALSE, phase |-> "empty", busy |-> FALSE,
               loaded |-> FALSE]
  BY <1>1 DEF Init, View
<1>6. machine \in MachineType
  BY <1>1, <1>2 DEF MachineType, Phases, Messages, Source
<1>7. TypeOK
  <2>1. session \in SessionType
    BY <1>2, <1>4 DEF SessionType
  <2>2. history \in HistoryType
    BY <1>1, <1>2 DEF HistoryType, Source
  <2>3. shown \in [initialized : BOOLEAN, phase : Phases, busy : BOOLEAN,
                  loaded : BOOLEAN]
    BY <1>5 DEF Phases
  <2>4. wasm = "loading" /\ generation = 0 /\ operationPending = FALSE
    BY DEF Init
  <2>5. 0 \in 0 .. MaxGeneration + 1
    BY <1>2
  <2> QED BY <1>3, <1>6, <2>1, <2>2, <2>3, <2>4, <2>5 DEF TypeOK
<1>8. Quiet(frames, generation)
  BY <1>3 DEF Quiet
<1>9. Queue(frames, generation, machine, session, history.ran, operationPending)
  BY <1>1, <1>8, QuietQueue DEF Init
<1>10. Consistent(machine, session, history)
  BY <1>1, <1>4 DEF Consistent, Standing, Loaded, Working
<1>11. PageTruthful /\ InputKept /\ RunBudget /\ MessageTruthful
  BY <1>1, <1>2, <1>4
     DEF PageTruthful, InputKept, RunBudget, MessageTruthful, Loaded
<1>12. PageBehind
  BY <1>1, <1>3, <1>5 DEF PageBehind, Working
<1> QED BY <1>2, <1>7, <1>9, <1>10, <1>11, <1>12 DEF PageInv, Init

-----------------------------------------------------------------------------
(* Delivery of the session, and rendering.                                 *)

(* A machine that may be anything but running or busy, without a callback  *)
(* that may act.                                                           *)
LEMMA IdleUser ==
  ASSUME PageInv, ~ shown.busy, shown.phase # "running"
  PROVE  /\ ~ machine.busy /\ machine.phase # "running"
         /\ Quiet(frames, generation) /\ ~ operationPending
<1>1. ~ machine.busy /\ machine.phase # "running"
  BY DEF PageInv, PageBehind
<1>2. operationPending \in BOOLEAN
  BY DEF PageInv, TypeOK
<1> QED BY <1>1, <1>2, IdleQuiet DEF PageInv

LEMMA ReadyInv == PageInv /\ SessionReady => PageInv'
<1> SUFFICES ASSUME PageInv, SessionReady PROVE PageInv'
  OBVIOUS
<1> USE DEF SessionReady
<1>1. TypeOK'
  BY DEF PageInv, TypeOK
<1>2. PageBehind'
  BY DEF PageInv, PageBehind
<1> QED BY <1>1, <1>2 DEF PageInv, PageTruthful, InputKept, RunBudget, MessageTruthful

LEMMA RenderInv == PageInv /\ Render => PageInv'
<1> SUFFICES ASSUME PageInv, Render PROVE PageInv'
  OBVIOUS
<1> USE DEF Render
<1>1. shown' = [initialized |-> (wasm = "ready"), phase |-> machine.phase,
                busy |-> machine.busy, loaded |-> (machine.snapshot # NoSnapshot)]
  BY DEF View
<1>2. machine.phase \in Phases /\ machine.busy \in BOOLEAN
  BY DEF PageInv, TypeOK, MachineType
<1>3. TypeOK'
  BY <1>1, <1>2 DEF PageInv, TypeOK
<1>4. PageBehind'
  <2>1. /\ shown'.initialized = (wasm = "ready") /\ shown'.phase = machine.phase
        /\ shown'.busy = machine.busy
        /\ shown'.loaded = (machine.snapshot # NoSnapshot)
    BY <1>1
  <2>2. shown'.loaded \/ shown'.phase \in Working => Loaded(session)
    BY <2>1 DEF PageInv, Consistent
  <2>3. wasm # "ready" => frames = << >>
    BY DEF PageInv, PageBehind
  <2> QED BY <2>1, <2>2, <2>3 DEF PageBehind
<1> QED BY <1>3, <1>4 DEF PageInv, PageTruthful, InputKept, RunBudget, MessageTruthful

LEMMA FailsInv == PageInv /\ SessionFails => PageInv'
<1> SUFFICES ASSUME PageInv, SessionFails PROVE PageInv'
  OBVIOUS
<1> USE DEF SessionFails
<1>1. machine \in MachineType
  BY DEF PageInv, TypeOK
<1>2. machine' \in MachineType
      /\ machine' = [machine EXCEPT !.phase = "error", !.busy = FALSE, !.message = "none"]
  BY <1>1 DEF ErrorState, MachineType, Phases, Messages
<1>3. /\ machine'.phase = "error" /\ ~ machine'.busy /\ machine'.message = "none"
      /\ machine'.snapshot = machine.snapshot /\ machine'.source = machine.source
      /\ machine'.selected = machine.selected /\ machine'.assembly = machine.assembly
      /\ machine'.breakpoints = machine.breakpoints
  BY <1>1, <1>2 DEF MachineType
<1>4. frames = << >> /\ DOMAIN frames = {}
  BY DEF PageInv, PageBehind
<1>5. Quiet(frames, generation)
  BY <1>4 DEF Quiet
<1>6. ~ operationPending /\ operationPending \in BOOLEAN
  BY <1>4 DEF PageInv, Queue, TypeOK
<1>7. Queue(frames, generation, machine', session, history.ran, operationPending)
  BY <1>3, <1>5, <1>6, QuietQueue
<1>8. TypeOK'
  BY <1>2 DEF PageInv, TypeOK
<1>9. Consistent(machine', session, history)
  BY <1>3 DEF PageInv, Consistent, Working
<1>10. PageTruthful' /\ InputKept' /\ RunBudget' /\ MessageTruthful'
  BY <1>3 DEF PageInv, PageTruthful, InputKept, RunBudget, MessageTruthful
<1>11. PageBehind'
  <2>1. ~ shown.initialized
    BY DEF PageInv, PageBehind
  <2>2. shown.loaded \/ shown.phase \in Working => Loaded(session)
    BY DEF PageInv, PageBehind
  <2> QED BY <1>3, <1>4, <2>1, <2>2 DEF PageBehind
<1> QED BY <1>7, <1>8, <1>9, <1>10, <1>11 DEF PageInv

-----------------------------------------------------------------------------
(* User events.                                                            *)

(* A page rendered after an event shows the machine the event left.        *)
LEMMA RenderedBehind ==
  ASSUME Rendered, UNCHANGED wasm, machine' \in MachineType,
         Consistent(machine', session', history'), wasm # "ready" => frames' = << >>
  PROVE  /\ PageBehind'
         /\ shown' \in [initialized : BOOLEAN, phase : Phases, busy : BOOLEAN,
                        loaded : BOOLEAN]
<1>1. shown' = [initialized |-> (wasm = "ready"), phase |-> machine'.phase,
                busy |-> machine'.busy, loaded |-> (machine'.snapshot # NoSnapshot)]
  BY DEF Rendered, View
<1>2. machine'.phase \in Phases /\ machine'.busy \in BOOLEAN
  BY DEF MachineType
<1>3. /\ shown'.initialized = (wasm = "ready") /\ shown'.phase = machine'.phase
      /\ shown'.busy = machine'.busy
      /\ shown'.loaded = (machine'.snapshot # NoSnapshot)
  BY <1>1
<1>4. shown'.loaded \/ shown'.phase \in Working => Loaded(session')
  BY <1>3 DEF Consistent
<1> QED BY <1>1, <1>2, <1>3, <1>4 DEF PageBehind

LEMMA OperationInv ==
  ASSUME NEW op \in Operations
  PROVE  PageInv /\ ClickOperation(op) => PageInv'
<1> SUFFICES ASSUME PageInv, ClickOperation(op) PROVE PageInv'
  OBVIOUS
<1> USE DEF ClickOperation
<1> DEFINE f == [kind |-> op, state |-> machine']
<1>1. machine \in MachineType /\ frames \in Seq(Callback) /\ generation \in Nat
  BY RunAssumption DEF PageInv, TypeOK
<1>2. /\ ~ machine.busy /\ machine.phase # "running"
      /\ Quiet(frames, generation) /\ ~ operationPending
  BY IdleUser DEF ButtonEnabled, ControlsDisabled
<1>3. /\ machine' = [machine EXCEPT !.busy = TRUE, !.message = "none"]
      /\ machine' \in MachineType
  BY <1>1 DEF MachineType, Messages
<1>4. /\ machine'.phase = machine.phase /\ machine'.busy = TRUE
      /\ machine'.message = "none" /\ machine'.count = machine.count
      /\ machine'.snapshot = machine.snapshot /\ machine'.source = machine.source
      /\ machine'.selected = machine.selected /\ machine'.assembly = machine.assembly
      /\ machine'.breakpoints = machine.breakpoints
  BY <1>1, <1>3 DEF MachineType
<1>5. f \in Callback /\ f.kind = op /\ f.state = machine'
  BY <1>3 DEF Callback
<1>6. op \in {"reset", "step"} => Loaded(session)
  <2>1. shown.loaded \/ shown.phase \in Working => Loaded(session)
    BY DEF PageInv, PageBehind
  <2> QED BY <2>1 DEF ButtonEnabled, Working
<1>7. Operating(f) /\ Acting(f, generation)
  BY <1>5 DEF Operating, Acting
<1>8. Due(f, machine', session, history.ran)
  BY <1>5, <1>6 DEF Due, Operations
<1> HIDE DEF f
<1>9. Queue(frames', generation', machine', session', history'.ran, operationPending')
  <2>1. frames' = Append(frames, f)
    BY DEF f
  <2>2. Queue(Append(frames, f), generation, machine', session, history.ran, TRUE)
    BY <1>1, <1>2, <1>4, <1>5, <1>7, <1>8, JoinQueue
  <2> QED BY <2>1, <2>2
<1>10. frames' \in Seq(Callback)
  BY <1>1, <1>5, AppendProperties DEF f
<1>11. Consistent(machine', session', history')
  BY <1>4 DEF PageInv, Consistent
<1>12. wasm = "ready"
  BY DEF PageInv, PageBehind, ButtonEnabled
<1>13. /\ PageBehind'
       /\ shown' \in [initialized : BOOLEAN, phase : Phases, busy : BOOLEAN,
                      loaded : BOOLEAN]
  BY <1>3, <1>11, <1>12, RenderedBehind
<1>14. TypeOK'
  BY <1>3, <1>10, <1>13 DEF PageInv, TypeOK
<1>15. PageTruthful' /\ InputKept' /\ RunBudget' /\ MessageTruthful'
  BY <1>4 DEF PageInv, PageTruthful, InputKept, RunBudget, MessageTruthful
<1>16. generation' < MaxGeneration /\ generation' <= MaxGeneration
  BY DEF PageInv
<1> QED BY <1>9, <1>11, <1>13, <1>14, <1>15, <1>16 DEF PageInv

LEMMA RunInv == PageInv /\ ClickRun => PageInv'
<1> SUFFICES ASSUME PageInv, ClickRun PROVE PageInv'
  OBVIOUS
<1> USE DEF ClickRun
<1> DEFINE f == [kind |-> "start", gen |-> generation', state |-> machine']
<1>1. /\ machine \in MachineType /\ frames \in Seq(Callback) /\ generation \in Nat
      /\ history \in HistoryType /\ generation' \in 0 .. MaxGeneration
  BY RunAssumption DEF PageInv, TypeOK
<1>2. /\ ~ machine.busy /\ machine.phase # "running"
      /\ Quiet(frames, generation) /\ ~ operationPending
  BY IdleUser DEF ButtonEnabled, ControlsDisabled
<1>3. /\ machine' = [machine EXCEPT !.phase = "running", !.count = 0, !.message = "none"]
      /\ machine' \in MachineType
  <2>1. 0 \in 0 .. RunLimit /\ "running" \in Phases /\ "none" \in Messages
    BY RunAssumption DEF Messages, Phases
  <2> QED BY <1>1, <2>1 DEF MachineType
<1>4. /\ machine'.phase = "running" /\ machine'.busy = machine.busy
      /\ machine'.message = "none" /\ machine'.count = 0
      /\ machine'.snapshot = machine.snapshot /\ machine'.source = machine.source
      /\ machine'.selected = machine.selected /\ machine'.assembly = machine.assembly
      /\ machine'.breakpoints = machine.breakpoints
  BY <1>1, <1>3 DEF MachineType
<1>5. /\ history' \in HistoryType /\ history'.ran = 0
      /\ history'.failed = history.failed /\ history'.typed = history.typed
      /\ history'.chosen = history.chosen
  BY <1>1 DEF HistoryType
<1>6. f \in Callback /\ f.kind = "start" /\ f.gen = generation' /\ f.state = machine'
  BY <1>1, <1>3, RunAssumption DEF Callback
<1>7. ~ Operating(f) /\ Acting(f, generation')
  BY <1>6 DEF Operating, Acting, Live, Operations
<1>8. Due(f, machine', session, history'.ran)
  BY <1>5, <1>6 DEF Due
<1>9. Quiet(frames, generation')
  BY <1>1, <1>2, QuietLater
<1> HIDE DEF f
<1>10. Queue(frames', generation', machine', session', history'.ran, operationPending')
  <2>1. frames' = Append(frames, f) /\ operationPending' = FALSE
    BY <1>2 DEF f, PageInv, TypeOK
  <2>2. generation' \in Nat
    BY <1>1
  <2>3. Queue(Append(frames, f), generation', machine', session, history'.ran, FALSE)
    BY <1>1, <1>2, <1>4, <1>6, <1>7, <1>8, <1>9, <2>2, JoinQueue
  <2> QED BY <2>1, <2>3
<1>11. frames' \in Seq(Callback)
  BY <1>1, <1>6, AppendProperties DEF f
<1>12. Consistent(machine', session', history')
  <2>1. Loaded(session)
    BY DEF PageInv, Consistent, Working
  <2> QED BY <1>2, <1>4, <1>5, <2>1 DEF PageInv, Consistent
<1>13. wasm = "ready"
  BY DEF PageInv, PageBehind, ButtonEnabled
<1>14. /\ PageBehind'
       /\ shown' \in [initialized : BOOLEAN, phase : Phases, busy : BOOLEAN,
                      loaded : BOOLEAN]
  BY <1>3, <1>12, <1>13, RenderedBehind
<1>15. TypeOK'
  BY <1>1, <1>3, <1>5, <1>11, <1>14, RunAssumption DEF PageInv, TypeOK
<1>16. PageTruthful'
  BY <1>4, <1>5 DEF PageInv, PageTruthful
<1>17. InputKept' /\ RunBudget' /\ MessageTruthful'
  BY <1>4, <1>5, RunAssumption DEF PageInv, InputKept, RunBudget, MessageTruthful
<1>18. ~ operationPending' /\ generation' <= MaxGeneration
  BY <1>1, <1>2 DEF PageInv
<1> QED BY <1>10, <1>12, <1>14, <1>15, <1>16, <1>17, <1>18 DEF PageInv

LEMMA PauseInv == PageInv /\ ClickPause => PageInv'
<1> SUFFICES ASSUME PageInv, ClickPause PROVE PageInv'
  OBVIOUS
<1> USE DEF ClickPause
<1>1. /\ machine \in MachineType /\ frames \in Seq(Callback) /\ generation \in Nat
      /\ operationPending \in BOOLEAN
      /\ generation' \in 0 .. MaxGeneration
  BY RunAssumption DEF PageInv, TypeOK
<1>2. ~ machine.busy /\ ~ operationPending /\ \A n \in DOMAIN frames : ~ Operating(frames[n])
  <2>1. PICK n \in DOMAIN frames : Live(frames[n], generation)
    BY DEF PageInv, Queue
  <2>2. ~ Operating(frames[n])
    BY <2>1 DEF Live, Operating, Operations
  <2>3. \A k \in DOMAIN frames : Acting(frames[k], generation) => k = n
    BY <2>1 DEF PageInv, Queue, Acting
  <2>4. \A k \in DOMAIN frames : ~ Operating(frames[k])
    BY <2>2, <2>3 DEF Acting
  <2> QED BY <2>4 DEF PageInv, Queue
<1>3. /\ machine' = [machine EXCEPT !.phase = "paused", !.message = "paused"]
      /\ machine' \in MachineType
  BY <1>1 DEF MachineType, Messages, Phases
<1>4. /\ machine'.phase = "paused" /\ machine'.busy = machine.busy
      /\ machine'.message = "paused" /\ machine'.count = machine.count
      /\ machine'.snapshot = machine.snapshot /\ machine'.source = machine.source
      /\ machine'.selected = machine.selected /\ machine'.assembly = machine.assembly
      /\ machine'.breakpoints = machine.breakpoints
  BY <1>1, <1>3 DEF MachineType
<1>5. Quiet(frames, generation')
  BY <1>1, <1>2, LaterQuiet DEF PageInv, Queue
<1>6. Queue(frames', generation', machine', session', history'.ran, operationPending')
  BY <1>1, <1>2, <1>4, <1>5, QuietQueue
<1>7. Consistent(machine', session', history')
  <2>1. Loaded(session)
    BY DEF PageInv, Consistent, Working
  <2> QED BY <1>2, <1>4, <2>1 DEF PageInv, Consistent
<1>8. /\ PageBehind'
      /\ shown' \in [initialized : BOOLEAN, phase : Phases, busy : BOOLEAN,
                     loaded : BOOLEAN]
  BY <1>3, <1>7, RenderedBehind DEF PageInv, PageBehind
<1>9. TypeOK'
  BY <1>1, <1>3, <1>8, RunAssumption DEF PageInv, TypeOK
<1>10. PageTruthful' /\ InputKept' /\ RunBudget' /\ MessageTruthful'
  BY <1>4 DEF PageInv, PageTruthful, InputKept, RunBudget, MessageTruthful
<1> QED BY <1>1, <1>2, <1>6, <1>7, <1>8, <1>9, <1>10 DEF PageInv

LEMMA ToggleBreakpointFields ==
  ASSUME NEW s \in SessionType, NEW a \in Position
  PROVE  LET t == ToggleBreakpoint(s, a)
         IN  /\ t \in SessionType
             /\ t.program = s.program /\ t.pc = s.pc /\ t.halted = s.halted
<1> DEFINE bs == IF a \in s.breakpoints THEN s.breakpoints \ {a}
                 ELSE s.breakpoints \cup {a}
<1>1. bs \in SUBSET Position
  BY DEF SessionType
<1>2. ToggleBreakpoint(s, a) = [s EXCEPT !.breakpoints = bs]
  BY DEF ToggleBreakpoint, SessionType
<1> HIDE DEF bs
<1> QED BY <1>1, <1>2 DEF SessionType

LEMMA BreakpointInv ==
  ASSUME NEW a \in Position
  PROVE  PageInv /\ ClickBreakpoint(a) => PageInv'
<1> SUFFICES ASSUME PageInv, ClickBreakpoint(a) PROVE PageInv'
  OBVIOUS
<1> USE DEF ClickBreakpoint
<1>1. machine \in MachineType /\ session \in SessionType
  BY DEF PageInv, TypeOK
<1>2. /\ ~ machine.busy /\ machine.phase # "running"
      /\ Quiet(frames, generation) /\ ~ operationPending
  BY IdleUser DEF ControlsDisabled
<1>3. /\ session' \in SessionType /\ session'.program = session.program
      /\ session'.pc = session.pc /\ session'.halted = session.halted
  BY <1>1, ToggleBreakpointFields
<1>4. session'.breakpoints \in SUBSET Position
  BY <1>3 DEF SessionType
<1>5. /\ machine' = [machine EXCEPT !.breakpoints = session'.breakpoints, !.message = "none"]
      /\ machine' \in MachineType
  BY <1>1, <1>4 DEF MachineType, Messages
<1>6. /\ machine'.phase = machine.phase /\ machine'.busy = machine.busy
      /\ machine'.message = "none" /\ machine'.count = machine.count
      /\ machine'.snapshot = machine.snapshot /\ machine'.source = machine.source
      /\ machine'.selected = machine.selected /\ machine'.assembly = machine.assembly
      /\ machine'.breakpoints = session'.breakpoints
  BY <1>1, <1>5 DEF MachineType
<1>7. Loaded(session) /\ Loaded(session')
  BY <1>3 DEF PageInv, InputKept, Loaded
<1>8. operationPending' = FALSE
  BY <1>2 DEF PageInv, TypeOK
<1>9. Queue(frames', generation', machine', session', history'.ran, operationPending')
  BY <1>2, <1>6, <1>8, QuietQueue
<1>10. Consistent(machine', session', history')
  BY <1>2, <1>3, <1>6, <1>7 DEF PageInv, Consistent, Standing
<1>11. /\ PageBehind'
       /\ shown' \in [initialized : BOOLEAN, phase : Phases, busy : BOOLEAN,
                      loaded : BOOLEAN]
  BY <1>5, <1>10, RenderedBehind DEF PageInv, PageBehind
<1>12. TypeOK'
  BY <1>3, <1>5, <1>11 DEF PageInv, TypeOK
<1>13. PageTruthful' /\ InputKept' /\ RunBudget' /\ MessageTruthful'
  BY <1>3, <1>6, <1>7
     DEF PageInv, PageTruthful, InputKept, RunBudget, MessageTruthful, Snapshot
<1> QED BY <1>8, <1>9, <1>10, <1>11, <1>12, <1>13 DEF PageInv

LEMMA SelectInv ==
  ASSUME NEW a \in Position
  PROVE  PageInv /\ SelectMemory(a) => PageInv'
<1> SUFFICES ASSUME PageInv, SelectMemory(a) PROVE PageInv'
  OBVIOUS
<1> USE DEF SelectMemory
<1>1. machine \in MachineType /\ history \in HistoryType
  BY DEF PageInv, TypeOK
<1>2. /\ ~ machine.busy /\ machine.phase # "running"
      /\ Quiet(frames, generation) /\ ~ operationPending
  BY IdleUser DEF ControlsDisabled
<1>3. machine' = [machine EXCEPT !.selected = a] /\ machine' \in MachineType
  BY <1>1 DEF MachineType
<1>4. /\ machine'.phase = machine.phase /\ machine'.busy = machine.busy
      /\ machine'.message = machine.message /\ machine'.count = machine.count
      /\ machine'.snapshot = machine.snapshot /\ machine'.source = machine.source
      /\ machine'.selected = a /\ machine'.assembly = machine.assembly
      /\ machine'.breakpoints = machine.breakpoints
  BY <1>1, <1>3 DEF MachineType
<1>5. /\ history' \in HistoryType /\ history'.ran = history.ran
      /\ history'.failed = history.failed /\ history'.typed = history.typed
      /\ history'.chosen = a
  BY <1>1 DEF HistoryType
<1>6. operationPending' = FALSE
  BY <1>2 DEF PageInv, TypeOK
<1>7. Queue(frames', generation', machine', session', history'.ran, operationPending')
  BY <1>2, <1>4, <1>6, QuietQueue
<1>8. Consistent(machine', session', history')
  BY <1>2, <1>4, <1>5 DEF PageInv, Consistent
<1>9. /\ PageBehind'
      /\ shown' \in [initialized : BOOLEAN, phase : Phases, busy : BOOLEAN,
                     loaded : BOOLEAN]
  BY <1>3, <1>8, RenderedBehind DEF PageInv, PageBehind
<1>10. TypeOK'
  BY <1>3, <1>5, <1>9 DEF PageInv, TypeOK
<1>11. PageTruthful' /\ InputKept' /\ RunBudget' /\ MessageTruthful'
  BY <1>4, <1>5 DEF PageInv, PageTruthful, InputKept, RunBudget, MessageTruthful
<1> QED BY <1>6, <1>7, <1>8, <1>9, <1>10, <1>11 DEF PageInv

LEMMA SourceInv ==
  ASSUME NEW src \in Source
  PROVE  PageInv /\ UpdateSource(src) => PageInv'
<1> SUFFICES ASSUME PageInv, UpdateSource(src) PROVE PageInv'
  OBVIOUS
<1> USE DEF UpdateSource
<1> DEFINE phase == IF machine.snapshot = NoSnapshot THEN "empty"
                    ELSE IF machine.snapshot.halted THEN "halted" ELSE "ready"
<1>1. machine \in MachineType /\ history \in HistoryType
  BY DEF PageInv, TypeOK
<1>2. /\ ~ machine.busy /\ machine.phase # "running"
      /\ Quiet(frames, generation) /\ ~ operationPending
  BY IdleUser DEF ControlsDisabled
<1>3. /\ phase \in Phases /\ phase \notin {"running", "paused"}
      /\ phase = "empty" <=> machine.snapshot = NoSnapshot
  BY DEF Phases
<1>4. machine' = [machine EXCEPT !.source = src, !.phase = phase]
  OBVIOUS
<1>5. machine' \in MachineType
  BY <1>1, <1>3, <1>4 DEF MachineType
<1>6. /\ machine'.phase = phase /\ machine'.busy = machine.busy
      /\ machine'.message = machine.message /\ machine'.count = machine.count
      /\ machine'.snapshot = machine.snapshot /\ machine'.source = src
      /\ machine'.selected = machine.selected /\ machine'.assembly = machine.assembly
      /\ machine'.breakpoints = machine.breakpoints
  BY <1>1, <1>4 DEF MachineType
<1>7. /\ history' \in HistoryType /\ history'.ran = history.ran
      /\ history'.failed = history.failed /\ history'.typed = src
      /\ history'.chosen = history.chosen
  BY <1>1 DEF HistoryType
<1>8. operationPending' = FALSE
  BY <1>2 DEF PageInv, TypeOK
<1>9. PageTruthful'
  <2>1. Loaded(session) =>
          /\ phase = "halted" => machine.snapshot.halted
          /\ phase = "ready" => ~ machine.snapshot.halted
    OBVIOUS
  <2> HIDE DEF phase
  <2> QED BY <1>3, <1>6, <1>7, <2>1 DEF PageInv, PageTruthful
<1> HIDE DEF phase
<1>10. Queue(frames', generation', machine', session', history'.ran, operationPending')
  BY <1>2, <1>3, <1>6, <1>8, QuietQueue
<1>11. Consistent(machine', session', history')
  BY <1>2, <1>3, <1>6, <1>7 DEF PageInv, Consistent, Working
<1>12. /\ PageBehind'
       /\ shown' \in [initialized : BOOLEAN, phase : Phases, busy : BOOLEAN,
                      loaded : BOOLEAN]
  BY <1>5, <1>11, RenderedBehind DEF PageInv, PageBehind
<1>13. TypeOK'
  BY <1>5, <1>7, <1>12 DEF PageInv, TypeOK
<1>14. InputKept' /\ RunBudget' /\ MessageTruthful'
  BY <1>3, <1>6, <1>7 DEF PageInv, InputKept, RunBudget, MessageTruthful
<1> QED BY <1>8, <1>9, <1>10, <1>11, <1>12, <1>13, <1>14 DEF PageInv

-----------------------------------------------------------------------------
(* The callback of a single operation.                                     *)

(* A callback that was allowed to act leaves an idle machine: whatever it  *)
(* computed, the queue, the types and the page are in order.               *)
LEMMA LeftInOrder ==
  ASSUME PageInv, frames # << >>, Acting(Head(frames), generation),
         frames' = Tail(frames), UNCHANGED <<wasm, shown>>,
         operationPending' = FALSE,
         generation' \in {generation, generation + 1}, generation' <= MaxGeneration,
         machine' \in MachineType, ~ machine'.busy, machine'.phase # "running",
         session' \in SessionType, history' \in HistoryType,
         Loaded(session) => Loaded(session')
  PROVE  /\ TypeOK' /\ PageBehind'
         /\ Queue(frames, generation, machine, session, history.ran, operationPending)'
<1>1. /\ frames \in Seq(Callback) /\ generation \in Nat /\ operationPending \in BOOLEAN
      /\ generation' \in 0 .. MaxGeneration + 1
  BY RunAssumption DEF PageInv, TypeOK
<1>2. /\ Tail(frames) \in Seq(Callback)
      /\ Quiet(Tail(frames), generation) /\ Quiet(Tail(frames), generation + 1)
  BY <1>1, LeaveQueue DEF PageInv
<1>3. Quiet(frames', generation')
  BY <1>2
<1>4. Queue(frames', generation', machine', session', history'.ran, operationPending')
  BY <1>3, QuietQueue
<1>5. TypeOK'
  BY <1>1, <1>2 DEF PageInv, TypeOK
<1>6. PageBehind'
  BY <1>2 DEF PageInv, PageBehind
<1> QED BY <1>4, <1>5, <1>6

(* What the operation at the head of the queue relies on.                  *)
LEMMA OperationDue ==
  ASSUME PageInv, frames # << >>, Operating(Head(frames))
  PROVE  /\ Acting(Head(frames), generation)
         /\ Head(frames).state = machine
         /\ Head(frames).kind \in {"reset", "step"} => Loaded(session)
         /\ machine.busy /\ operationPending
         /\ generation \in Nat /\ generation < MaxGeneration
         /\ machine \in MachineType /\ session \in SessionType
         /\ history \in HistoryType
<1>1. /\ frames \in Seq(Callback) /\ generation \in Nat /\ operationPending \in BOOLEAN
  BY DEF PageInv, TypeOK
<1>2. Acting(Head(frames), generation)
  BY DEF Acting
<1>3. /\ Due(Head(frames), machine, session, history.ran)
      /\ operationPending /\ machine.busy
  BY <1>1, <1>2, LeaveQueue DEF PageInv
<1> QED BY <1>1, <1>2, <1>3 DEF PageInv, TypeOK, Due

LEMMA ErrorFields ==
  ASSUME NEW m \in MachineType
  PROVE  LET e == ErrorState(m)
         IN  /\ e \in MachineType
             /\ e.phase = "error" /\ e.busy = FALSE /\ e.message = "none"
             /\ e.snapshot = m.snapshot /\ e.assembly = m.assembly
             /\ e.source = m.source /\ e.selected = m.selected
             /\ e.breakpoints = m.breakpoints /\ e.count = m.count
<1>1. "error" \in Phases /\ "none" \in Messages
  BY DEF Phases, Messages
<1> QED BY <1>1 DEF MachineType, ErrorState

(* Refreshing takes the registers and breakpoints from the session.        *)
LEMMA RefreshedFields ==
  ASSUME NEW m \in MachineType, NEW s \in SessionType
  PROVE  LET n == Refreshed(m, s)
         IN  /\ n \in MachineType
             /\ n.phase = m.phase /\ n.busy = FALSE /\ n.message = m.message
             /\ n.snapshot = Snapshot(s) /\ n.assembly = m.assembly
             /\ n.source = m.source /\ n.selected = m.selected
             /\ n.breakpoints = s.breakpoints /\ n.count = m.count
<1>1. /\ Snapshot(s) \in [pc : Position, halted : BOOLEAN]
      /\ s.breakpoints \in SUBSET Position
  BY DEF Snapshot, SessionType
<1> QED BY <1>1 DEF MachineType, Refreshed

LEMMA SnapshotTaken ==
  ASSUME NEW s \in SessionType
  PROVE  Snapshot(s) # NoSnapshot
<1>1. s.pc \in Nat
  BY ProgramAssumption DEF SessionType, Position
<1> QED BY <1>1 DEF Snapshot, NoSnapshot

LEMMA LoadFields ==
  ASSUME NEW s \in SessionType, NEW p \in Program
  PROVE  LET t == Load(s, p)
         IN  /\ t \in SessionType /\ Standing(t) /\ Loaded(t)
             /\ t.program = p /\ ~ t.halted /\ t.breakpoints = s.breakpoints
<1>1. /\ Length[p] \in 1 .. MaxLength /\ MaxLength \in Nat /\ p # NoProgram
      /\ 0 \in Position
  BY ProgramAssumption DEF Position
<1>2. /\ Load(s, p).program = p /\ Load(s, p).pc = 0 /\ Load(s, p).halted = FALSE
      /\ Load(s, p).breakpoints = s.breakpoints
      /\ Load(s, p) \in SessionType
  BY <1>1 DEF Load, SessionType
<1> QED BY <1>1, <1>2 DEF Standing, Loaded

LEMMA CompileInv == PageInv /\ CompileFrame => PageInv'
<1> SUFFICES ASSUME PageInv, CompileFrame PROVE PageInv'
  OBVIOUS
<1>1. Operating(Head(frames)) /\ frames # << >>
  BY DEF CompileFrame, Operating, Operations
<1>2. /\ Acting(Head(frames), generation) /\ Head(frames).state = machine
      /\ generation \in Nat /\ generation < MaxGeneration /\ machine.busy
      /\ machine \in MachineType /\ session \in SessionType /\ history \in HistoryType
  BY <1>1, OperationDue
<1>3. /\ generation' = generation + 1 /\ generation' <= MaxGeneration
      /\ generation' \in {generation, generation + 1}
  BY <1>2, RunAssumption DEF CompileFrame
<1>4. CASE machine.source = Broken
  <2>1. /\ machine' = ErrorState(machine) /\ session' = session
        /\ history' = [history EXCEPT !.failed = history.failed]
        /\ operationPending' = FALSE /\ frames' = Tail(frames)
        /\ UNCHANGED <<wasm, shown>>
    BY <1>2, <1>4 DEF CompileFrame, Finish
  <2>2. history' = history
    BY <1>2, <2>1 DEF HistoryType
  <2>3. /\ machine' \in MachineType
        /\ machine'.phase = "error" /\ machine'.busy = FALSE /\ machine'.message = "none"
        /\ machine'.snapshot = machine.snapshot /\ machine'.assembly = machine.assembly
        /\ machine'.source = machine.source /\ machine'.selected = machine.selected
        /\ machine'.breakpoints = machine.breakpoints
    BY <1>2, <2>1, ErrorFields
  <2>4. /\ TypeOK' /\ PageBehind'
        /\ Queue(frames, generation, machine, session, history.ran, operationPending)'
    BY <1>1, <1>2, <1>3, <2>1, <2>2, <2>3, LeftInOrder
  <2>5. Consistent(machine', session', history')
    BY <2>1, <2>2, <2>3 DEF PageInv, Consistent, Working
  <2>6. PageTruthful' /\ InputKept' /\ RunBudget' /\ MessageTruthful'
    BY <2>1, <2>2, <2>3 DEF PageInv, PageTruthful, InputKept, RunBudget, MessageTruthful
  <2> QED BY <1>3, <2>1, <2>4, <2>5, <2>6 DEF PageInv
<1>5. CASE machine.source # Broken
  <2>1. /\ session' = Load(session, machine.source)
        /\ machine' = CompiledState(machine, session')
        /\ history' = [history EXCEPT !.failed = FALSE]
        /\ operationPending' = FALSE /\ frames' = Tail(frames)
        /\ UNCHANGED <<wasm, shown>>
    BY <1>2, <1>5 DEF CompileFrame, Finish
  <2>2. machine.source \in Program
    BY <1>2, <1>5 DEF MachineType, Source
  <2>3. /\ session' \in SessionType /\ Standing(session') /\ Loaded(session')
        /\ session'.program = machine.source /\ ~ session'.halted
        /\ session'.breakpoints = session.breakpoints
    BY <1>2, <2>1, <2>2, LoadFields
  <2>4. /\ history' \in HistoryType /\ history'.ran = history.ran
        /\ history'.failed = FALSE /\ history'.typed = history.typed
        /\ history'.chosen = history.chosen
    BY <1>2, <2>1 DEF HistoryType
  <2>5. /\ machine' \in MachineType
        /\ machine'.phase = "ready" /\ machine'.busy = FALSE /\ machine'.message = "none"
        /\ machine'.snapshot = Snapshot(session') /\ machine'.assembly = session'.program
        /\ machine'.source = machine.source /\ machine'.selected = machine.selected
        /\ machine'.breakpoints = session'.breakpoints
    <3> DEFINE n == Refreshed(machine, session')
    <3>1. /\ n \in MachineType /\ n.busy = FALSE
          /\ n.snapshot = Snapshot(session') /\ n.source = machine.source
          /\ n.selected = machine.selected /\ n.breakpoints = session'.breakpoints
      BY <1>2, <2>3, RefreshedFields
    <3>2. machine' = [n EXCEPT !.assembly = session'.program, !.count = 0,
                               !.message = "none", !.phase = "ready"]
      BY <2>1, <2>3 DEF CompiledState
    <3>3. /\ "ready" \in Phases /\ "none" \in Messages /\ 0 \in 0 .. RunLimit
          /\ session'.program \in Program \cup {NoProgram}
      BY <2>3, RunAssumption DEF Phases, Messages, SessionType
    <3> HIDE DEF n
    <3> QED BY <3>1, <3>2, <3>3 DEF MachineType
  <2>6. /\ TypeOK' /\ PageBehind'
        /\ Queue(frames, generation, machine, session, history.ran, operationPending)'
    BY <1>1, <1>2, <1>3, <2>1, <2>3, <2>4, <2>5, LeftInOrder
  <2>7. Consistent(machine', session', history')
    BY <2>3, <2>4, <2>5, SnapshotTaken DEF Consistent
  <2>8. PageTruthful' /\ InputKept' /\ RunBudget' /\ MessageTruthful'
    BY <2>3, <2>4, <2>5
       DEF PageInv, PageTruthful, InputKept, RunBudget, MessageTruthful, Snapshot
  <2> QED BY <1>3, <2>1, <2>6, <2>7, <2>8 DEF PageInv
<1> QED BY <1>4, <1>5

LEMMA ResetInv == PageInv /\ ResetFrame => PageInv'
<1> SUFFICES ASSUME PageInv, ResetFrame PROVE PageInv'
  OBVIOUS
<1>1. Operating(Head(frames)) /\ frames # << >> /\ Head(frames).kind = "reset"
  BY DEF ResetFrame, Operating, Operations
<1>2. /\ Acting(Head(frames), generation) /\ Head(frames).state = machine
      /\ Loaded(session)
      /\ generation \in Nat /\ generation < MaxGeneration /\ machine.busy
      /\ machine \in MachineType /\ session \in SessionType /\ history \in HistoryType
  BY <1>1, OperationDue
<1>3. /\ generation' = generation + 1 /\ generation' <= MaxGeneration
      /\ generation' \in {generation, generation + 1}
  BY <1>2, RunAssumption DEF ResetFrame
<1>4. /\ session' = Load(session, session.program)
      /\ machine' = ResetState(machine, session')
      /\ history' = [history EXCEPT !.failed = FALSE]
      /\ operationPending' = FALSE /\ frames' = Tail(frames)
      /\ UNCHANGED <<wasm, shown>>
  BY <1>2 DEF ResetFrame, Finish
<1>5. session.program \in Program
  BY <1>2 DEF SessionType, Loaded
<1>6. /\ session' \in SessionType /\ Standing(session') /\ Loaded(session')
      /\ session'.program = session.program /\ ~ session'.halted
      /\ session'.breakpoints = session.breakpoints
  BY <1>2, <1>4, <1>5, LoadFields
<1>7. /\ history' \in HistoryType /\ history'.ran = history.ran
      /\ history'.failed = FALSE /\ history'.typed = history.typed
      /\ history'.chosen = history.chosen
  BY <1>2, <1>4 DEF HistoryType
<1>8. /\ machine' \in MachineType
      /\ machine'.phase = "ready" /\ machine'.busy = FALSE /\ machine'.message = "none"
      /\ machine'.snapshot = Snapshot(session') /\ machine'.assembly = machine.assembly
      /\ machine'.source = machine.source /\ machine'.selected = machine.selected
      /\ machine'.breakpoints = session'.breakpoints
  <2> DEFINE n == Refreshed(machine, session')
  <2>1. /\ n \in MachineType /\ n.busy = FALSE
        /\ n.snapshot = Snapshot(session') /\ n.source = machine.source
        /\ n.selected = machine.selected /\ n.breakpoints = session'.breakpoints
        /\ n.assembly = machine.assembly
    BY <1>2, <1>6, RefreshedFields
  <2>2. machine' = [n EXCEPT !.phase = "ready", !.count = 0, !.message = "none"]
    BY <1>4 DEF ResetState
  <2>3. "ready" \in Phases /\ "none" \in Messages /\ 0 \in 0 .. RunLimit
    BY RunAssumption DEF Phases, Messages
  <2> HIDE DEF n
  <2> QED BY <2>1, <2>2, <2>3 DEF MachineType
<1>9. /\ TypeOK' /\ PageBehind'
      /\ Queue(frames, generation, machine, session, history.ran, operationPending)'
  BY <1>1, <1>2, <1>3, <1>4, <1>6, <1>7, <1>8, LeftInOrder
<1>10. Consistent(machine', session', history')
  BY <1>6, <1>7, <1>8, SnapshotTaken DEF Consistent
<1>11. PageTruthful' /\ InputKept' /\ RunBudget' /\ MessageTruthful'
  BY <1>6, <1>7, <1>8
     DEF PageInv, PageTruthful, InputKept, RunBudget, MessageTruthful, Snapshot
<1> QED BY <1>3, <1>4, <1>9, <1>10, <1>11 DEF PageInv

LEMMA SteppedFields ==
  ASSUME NEW m \in MachineType, NEW s \in SessionType
  PROVE  LET n == SteppedState(m, s)
         IN  /\ n \in MachineType
             /\ n.phase = (IF s.halted THEN "halted" ELSE "ready")
             /\ n.message = (IF s.halted THEN "halted" ELSE "none")
             /\ n.busy = FALSE
             /\ n.snapshot = Snapshot(s) /\ n.assembly = m.assembly
             /\ n.source = m.source /\ n.selected = m.selected
             /\ n.breakpoints = s.breakpoints /\ n.count = m.count
<1> DEFINE n == Refreshed(m, s)
           p == IF s.halted THEN "halted" ELSE "ready"
           w == IF s.halted THEN "halted" ELSE "none"
<1>1. /\ n \in MachineType /\ n.busy = FALSE
      /\ n.snapshot = Snapshot(s) /\ n.assembly = m.assembly
      /\ n.source = m.source /\ n.selected = m.selected
      /\ n.breakpoints = s.breakpoints /\ n.count = m.count
  BY RefreshedFields
<1>2. p \in Phases /\ w \in Messages
  BY DEF Phases, Messages
<1>3. SteppedState(m, s) = [n EXCEPT !.phase = p, !.message = w]
  BY DEF SteppedState
<1> HIDE DEF n
<1> QED BY <1>1, <1>2, <1>3 DEF MachineType

(* A call that throws leaves the registers on the page behind by what it   *)
(* executed: they were the processor's before.                             *)
LEMMA ThrownBehind ==
  ASSUME PageInv, Loaded(session), session \in SessionType,
         NEW most \in Nat, most <= ChunkSize,
         NEW r, Called(session, r, most), r.status = "thrown"
  PROVE  (session.pc + r.executed) - machine.snapshot.pc \in 1 .. ChunkSize
<1>1. r.executed \in 1 .. most /\ ~ session.halted
  BY DEF Called, SessionType
<1>2. ~ history.failed
  BY <1>1 DEF PageInv, Consistent
<1>3. machine.snapshot.pc = session.pc
  BY <1>2 DEF PageInv, PageTruthful, Snapshot
<1>4. session.pc \in Nat /\ ChunkSize \in Nat
  BY ProgramAssumption, RunAssumption DEF SessionType, Position
<1> QED BY <1>1, <1>3, <1>4

LEMMA StepInv == PageInv /\ StepFrame => PageInv'
<1> SUFFICES ASSUME PageInv, StepFrame PROVE PageInv'
  OBVIOUS
<1>1. Operating(Head(frames)) /\ frames # << >> /\ Head(frames).kind = "step"
  BY DEF StepFrame, Operating, Operations
<1>2. /\ Acting(Head(frames), generation) /\ Head(frames).state = machine
      /\ Loaded(session) /\ Standing(session)
      /\ generation \in Nat /\ generation < MaxGeneration /\ machine.busy
      /\ machine.message = "none"
      /\ machine \in MachineType /\ session \in SessionType /\ history \in HistoryType
  BY <1>1, OperationDue DEF PageInv, Consistent
<1>3. /\ generation' = generation /\ generation' <= MaxGeneration
      /\ generation' \in {generation, generation + 1}
  BY <1>2, RunAssumption DEF StepFrame, PageInv
<1> DEFINE r == StepSession(session)
<1>4. Called(session, r, 1) /\ r.status \in {"thrown", "halted", "executed"}
  BY <1>2, StepSessionCalled
<1>5. /\ session' = r.session
      /\ IF r.status = "thrown" THEN Finish(ErrorState(machine), TRUE)
         ELSE Finish(SteppedState(machine, r.session), FALSE)
  BY <1>2 DEF StepFrame
<1> HIDE DEF r
<1>6. /\ session' \in SessionType /\ Standing(session') /\ Loaded(session')
      /\ session'.program = session.program
      /\ session'.breakpoints = session.breakpoints
  BY <1>2, <1>4, <1>5 DEF Called, Loaded
<1>7. CASE r.status = "thrown"
  <2>1. /\ machine' = ErrorState(machine) /\ history' = [history EXCEPT !.failed = TRUE]
        /\ operationPending' = FALSE /\ frames' = Tail(frames)
        /\ UNCHANGED <<wasm, shown>>
    BY <1>5, <1>7 DEF Finish
  <2>2. /\ history' \in HistoryType /\ history'.ran = history.ran
        /\ history'.failed = TRUE /\ history'.typed = history.typed
        /\ history'.chosen = history.chosen
    BY <1>2, <2>1 DEF HistoryType
  <2>3. /\ machine' \in MachineType
        /\ machine'.phase = "error" /\ machine'.busy = FALSE /\ machine'.message = "none"
        /\ machine'.snapshot = machine.snapshot /\ machine'.assembly = machine.assembly
        /\ machine'.source = machine.source /\ machine'.selected = machine.selected
        /\ machine'.breakpoints = machine.breakpoints
    BY <1>2, <2>1, ErrorFields
  <2>4. session'.halted
    BY <1>4, <1>5, <1>7 DEF Called
  <2>5. /\ TypeOK' /\ PageBehind'
        /\ Queue(frames, generation, machine, session, history.ran, operationPending)'
    BY <1>1, <1>2, <1>3, <1>6, <2>1, <2>2, <2>3, LeftInOrder
  <2>6. Consistent(machine', session', history')
    BY <1>2, <1>6, <2>2, <2>3, <2>4 DEF PageInv, Consistent, Working
  <2>7. PageTruthful'
    <3>1. 1 \in Nat /\ 1 <= ChunkSize
      BY RunAssumption
    <3>2. (session.pc + r.executed) - machine.snapshot.pc \in 1 .. ChunkSize
      BY <1>2, <1>4, <1>7, <3>1, ThrownBehind
    <3>3. session'.pc = session.pc + r.executed
      BY <1>4, <1>5, <1>7 DEF Called
    <3>4. session'.pc - machine'.snapshot.pc \in 1 .. ChunkSize
      BY <2>3, <3>2, <3>3
    <3> QED BY <2>2, <2>3, <2>4, <3>4 DEF PageTruthful
  <2>8. InputKept' /\ RunBudget' /\ MessageTruthful'
    BY <1>6, <2>2, <2>3 DEF PageInv, InputKept, RunBudget, MessageTruthful
  <2> QED BY <1>3, <2>1, <2>5, <2>6, <2>7, <2>8 DEF PageInv
<1>8. CASE r.status # "thrown"
  <2>1. /\ machine' = SteppedState(machine, session')
        /\ history' = [history EXCEPT !.failed = FALSE]
        /\ operationPending' = FALSE /\ frames' = Tail(frames)
        /\ UNCHANGED <<wasm, shown>>
    BY <1>5, <1>8 DEF Finish
  <2>2. /\ history' \in HistoryType /\ history'.ran = history.ran
        /\ history'.failed = FALSE /\ history'.typed = history.typed
        /\ history'.chosen = history.chosen
    BY <1>2, <2>1 DEF HistoryType
  <2>3. /\ machine' \in MachineType
        /\ machine'.phase = (IF session'.halted THEN "halted" ELSE "ready")
        /\ machine'.message = (IF session'.halted THEN "halted" ELSE "none")
        /\ machine'.busy = FALSE
        /\ machine'.snapshot = Snapshot(session') /\ machine'.assembly = machine.assembly
        /\ machine'.source = machine.source /\ machine'.selected = machine.selected
        /\ machine'.breakpoints = session'.breakpoints
    BY <1>2, <1>6, <2>1, SteppedFields
  <2>4. /\ TypeOK' /\ PageBehind'
        /\ Queue(frames, generation, machine, session, history.ran, operationPending)'
    BY <1>1, <1>2, <1>3, <1>6, <2>1, <2>2, <2>3, LeftInOrder
  <2>5. Consistent(machine', session', history')
    BY <1>6, <2>2, <2>3, SnapshotTaken DEF Consistent
  <2>6. PageTruthful' /\ InputKept' /\ RunBudget' /\ MessageTruthful'
    BY <1>6, <2>2, <2>3
       DEF PageInv, PageTruthful, InputKept, RunBudget, MessageTruthful, Snapshot
  <2> QED BY <1>3, <2>1, <2>4, <2>5, <2>6 DEF PageInv
<1> QED BY <1>7, <1>8

-----------------------------------------------------------------------------
(* The callbacks of a run.                                                 *)

(* What the current run's callback at the head of the queue relies on.     *)
LEMMA RunDue ==
  ASSUME PageInv, frames # << >>, Head(frames).kind \in {"start", "loop"},
         IsCurrent(Head(frames))
  PROVE  /\ Acting(Head(frames), generation)
         /\ Head(frames).state = machine
         /\ Head(frames).kind = "start" => history.ran = 0
         /\ Head(frames).kind = "loop" => history.ran > 0
         /\ machine.busy = FALSE /\ machine.phase = "running"
         /\ operationPending = FALSE
         /\ machine.count = history.ran /\ history.ran \in 0 .. RunLimit
         /\ Loaded(session) /\ Standing(session)
         /\ machine \in MachineType /\ session \in SessionType
         /\ history \in HistoryType
<1>1. /\ frames \in Seq(Callback) /\ generation \in Nat
      /\ operationPending \in BOOLEAN /\ machine \in MachineType
      /\ machine.busy \in BOOLEAN /\ history.ran \in Nat
  BY DEF PageInv, TypeOK, MachineType, HistoryType
<1>2. Acting(Head(frames), generation) /\ ~ Operating(Head(frames))
  BY DEF Acting, Live, IsCurrent, Operating, Operations
<1>3. /\ Due(Head(frames), machine, session, history.ran)
      /\ ~ operationPending /\ ~ machine.busy /\ machine.phase = "running"
  BY <1>1, <1>2, LeaveQueue DEF PageInv
<1>4. Loaded(session) /\ Standing(session)
  BY <1>3 DEF PageInv, Consistent, Working
<1>5. machine.count = history.ran /\ history.ran \in 0 .. RunLimit
  BY <1>1, <1>3, RunAssumption DEF PageInv, RunBudget
<1> QED BY <1>1, <1>2, <1>3, <1>4, <1>5 DEF PageInv, TypeOK, Due

(* A run that goes on leaves one callback, of the same generation.         *)
LEMMA AwaitInOrder ==
  ASSUME PageInv, frames # << >>, Head(frames).kind \in {"start", "loop"},
         IsCurrent(Head(frames)), Await(Head(frames), machine'),
         UNCHANGED <<wasm, shown, operationPending, generation>>,
         machine' \in MachineType, ~ machine'.busy, machine'.phase = "running",
         session' \in SessionType, history' \in HistoryType,
         Loaded(session'), history'.ran > 0
  PROVE  /\ TypeOK' /\ PageBehind'
         /\ Queue(frames, generation, machine, session, history.ran, operationPending)'
<1> DEFINE f == [Head(frames) EXCEPT !.kind = "loop", !.state = machine']
<1>1. /\ frames \in Seq(Callback) /\ generation \in Nat
      /\ operationPending \in BOOLEAN /\ ~ operationPending
      /\ Acting(Head(frames), generation) /\ machine.phase = "running"
  <2>1. frames \in Seq(Callback) /\ generation \in Nat
    BY DEF PageInv, TypeOK
  <2> QED BY <2>1, RunDue
<1>2. /\ Tail(frames) \in Seq(Callback) /\ Quiet(Tail(frames), generation)
      /\ Head(frames) \in Callback
  BY <1>1, LeaveQueue DEF PageInv
<1>3. Head(frames) \in [kind : {"start", "loop"}, gen : 0 .. MaxGeneration + 1,
                        state : MachineType]
  BY <1>2 DEF Callback, Operations
<1>4. /\ f.kind = "loop" /\ f.gen = generation /\ f.state = machine'
      /\ f \in Callback
  BY <1>3 DEF Callback, IsCurrent
<1>5. frames' = Append(Tail(frames), f)
  BY DEF Await
<1> HIDE DEF f
<1>6. /\ Acting(f, generation) /\ ~ Operating(f)
      /\ Due(f, machine', session', history'.ran)
  BY <1>4 DEF Acting, Live, Operating, Operations, Due
<1>7. Queue(Append(Tail(frames), f), generation, machine', session', history'.ran, FALSE)
  BY <1>1, <1>2, <1>4, <1>6, JoinQueue
<1>8. Queue(frames', generation', machine', session', history'.ran, operationPending')
  BY <1>1, <1>5, <1>7
<1>9. frames' \in Seq(Callback)
  BY <1>2, <1>4, <1>5, AppendProperties
<1>10. TypeOK'
  BY <1>9 DEF PageInv, TypeOK
<1>11. PageBehind'
  <2>1. wasm = "ready" /\ shown.phase = "running"
    BY <1>1 DEF PageInv, PageBehind
  <2> QED BY <2>1 DEF PageInv, PageBehind
<1> QED BY <1>8, <1>10, <1>11

(* A run that stops leaves an idle machine.                                *)
LEMMA StopInOrder ==
  ASSUME PageInv, frames # << >>, Head(frames).kind \in {"start", "loop"},
         IsCurrent(Head(frames)), Stop(machine'),
         UNCHANGED <<wasm, shown, operationPending, generation>>,
         machine' \in MachineType, ~ machine'.busy, machine'.phase # "running",
         session' \in SessionType, history' \in HistoryType, Loaded(session')
  PROVE  /\ TypeOK' /\ PageBehind'
         /\ Queue(frames, generation, machine, session, history.ran, operationPending)'
<1>1. Acting(Head(frames), generation) /\ operationPending = FALSE
  BY RunDue
<1>2. generation' \in {generation, generation + 1} /\ generation' <= MaxGeneration
  BY DEF PageInv
<1> QED BY <1>1, <1>2, LeftInOrder DEF Stop

(* The history counts what a call executed.                                *)
LEMMA ExecutedHistory ==
  ASSUME history \in HistoryType, NEW s, NEW most \in Nat, NEW r,
         Called(s, r, most), Executed(r)
  PROVE  /\ history' \in HistoryType /\ history'.ran = history.ran + r.executed
         /\ history'.failed = (r.status = "thrown")
         /\ history'.typed = history.typed /\ history'.chosen = history.chosen
<1> DEFINE sum == history.ran + r.executed
           thrown == r.status = "thrown"
<1>1. sum \in Nat /\ thrown \in BOOLEAN
  BY DEF Called, HistoryType
<1>2. history' = [history EXCEPT !.ran = sum, !.failed = thrown]
  BY DEF Executed
<1> HIDE DEF sum, thrown
<1>3. /\ history' \in HistoryType /\ history'.ran = sum /\ history'.failed = thrown
      /\ history'.typed = history.typed /\ history'.chosen = history.chosen
  BY <1>1, <1>2 DEF HistoryType
<1> QED BY <1>3 DEF sum, thrown

(* An instruction that threw ends a run in the error phase, with the page  *)
(* as it was.                                                              *)
LEMMA ThrownInv ==
  ASSUME PageInv, frames # << >>, Head(frames).kind \in {"start", "loop"},
         IsCurrent(Head(frames)), Stop(ErrorState(machine)),
         UNCHANGED <<wasm, shown, operationPending, generation>>,
         NEW r, NEW most \in Nat, Called(session, r, most), Executed(r),
         r.status = "thrown", history.ran + most <= RunLimit, most <= ChunkSize
  PROVE  PageInv'
<1>1. /\ Acting(Head(frames), generation)
      /\ operationPending = FALSE /\ history.ran \in 0 .. RunLimit
      /\ Loaded(session) /\ Standing(session)
      /\ machine \in MachineType /\ session \in SessionType /\ history \in HistoryType
  BY RunDue
<1>2. /\ session' \in SessionType /\ Standing(session') /\ Loaded(session')
      /\ session'.program = session.program /\ session'.halted
      /\ session'.breakpoints = session.breakpoints
      /\ session'.pc = session.pc + r.executed
  BY <1>1 DEF Called, Loaded, Executed
<1>3. /\ history' \in HistoryType /\ history'.ran = history.ran + r.executed
      /\ history'.failed = TRUE /\ history'.typed = history.typed
      /\ history'.chosen = history.chosen
  BY <1>1, ExecutedHistory
<1>4. /\ machine' \in MachineType
      /\ machine'.phase = "error" /\ machine'.busy = FALSE /\ machine'.message = "none"
      /\ machine'.snapshot = machine.snapshot /\ machine'.assembly = machine.assembly
      /\ machine'.source = machine.source /\ machine'.selected = machine.selected
      /\ machine'.breakpoints = machine.breakpoints
  BY <1>1, ErrorFields DEF Stop
<1>5. history'.ran <= RunLimit
  BY <1>1, <1>3, RunAssumption DEF Called
<1>6. Stop(machine')
  BY DEF Stop
<1>7. /\ TypeOK' /\ PageBehind'
      /\ Queue(frames, generation, machine, session, history.ran, operationPending)'
  BY <1>2, <1>3, <1>4, <1>6, StopInOrder
<1>8. Consistent(machine', session', history')
  BY <1>1, <1>2, <1>3, <1>4 DEF PageInv, Consistent, Working
<1>9. PageTruthful'
  <2>1. (session.pc + r.executed) - machine.snapshot.pc \in 1 .. ChunkSize
    BY <1>1, ThrownBehind
  <2>2. session'.pc - machine'.snapshot.pc \in 1 .. ChunkSize
    BY <1>2, <1>4, <2>1
  <2> QED BY <1>2, <1>3, <1>4, <2>2 DEF PageTruthful
<1>10. InputKept' /\ RunBudget' /\ MessageTruthful'
  BY <1>2, <1>3, <1>4, <1>5 DEF PageInv, InputKept, RunBudget, MessageTruthful
<1> QED BY <1>1, <1>7, <1>8, <1>9, <1>10 DEF PageInv

LEMMA StepOverInv == PageInv /\ StepOverFrame => PageInv'
<1> SUFFICES ASSUME PageInv, StepOverFrame PROVE PageInv'
  OBVIOUS
<1> DEFINE f == Head(frames)
           r == StepSession(session)
           m == [SteppedState(machine, r.session) EXCEPT
                   !.phase = IF @ = "halted" THEN "halted" ELSE "running",
                   !.count = r.executed]
<1>1. /\ frames # << >> /\ f.kind = "start" /\ f.kind \in {"start", "loop"}
      /\ IsCurrent(f)
  BY DEF StepOverFrame, StepsOver
<1>2. /\ f.state = machine /\ history.ran = 0 /\ operationPending = FALSE
      /\ Loaded(session) /\ Standing(session)
      /\ machine \in MachineType /\ session \in SessionType /\ history \in HistoryType
  BY <1>1, RunDue
<1>3. /\ Called(session, r, 1) /\ r.status \in {"thrown", "halted", "executed"}
      /\ session.halted \/ r.executed = 1
  BY <1>2, StepSessionCalled
<1>4. /\ Executed(r)
      /\ IF r.status = "thrown" THEN Stop(ErrorState(machine))
         ELSE IF r.session.halted THEN Stop(m) ELSE Await(f, m)
      /\ UNCHANGED <<wasm, shown, operationPending, generation>>
  BY <1>2 DEF StepOverFrame
<1>5. RunLimit \in Nat \ {0}
  BY RunAssumption
<1>6. CASE r.status = "thrown"
  <2>1. history.ran + 1 <= RunLimit /\ 1 \in Nat /\ 1 <= ChunkSize
    BY <1>2, <1>5, RunAssumption
  <2> HIDE DEF r
  <2> QED BY <1>1, <1>3, <1>4, <1>6, <2>1, ThrownInv
<1>7. CASE r.status # "thrown"
  <2>1. /\ session' = r.session /\ session' \in SessionType
        /\ Standing(session') /\ Loaded(session')
        /\ session'.program = session.program
        /\ session'.breakpoints = session.breakpoints
        /\ r.executed \in {0, 1}
        /\ ~ session'.halted => r.executed = 1
    <3> HIDE DEF r
    <3> QED BY <1>2, <1>3, <1>4 DEF Called, Loaded, Executed
  <2>2. /\ history' \in HistoryType /\ history'.ran = r.executed
        /\ history'.failed = FALSE /\ history'.typed = history.typed
        /\ history'.chosen = history.chosen
    <3> HIDE DEF r
    <3>1. /\ history' \in HistoryType /\ history'.ran = history.ran + r.executed
          /\ history'.failed = (r.status = "thrown") /\ history'.typed = history.typed
          /\ history'.chosen = history.chosen
      BY <1>2, <1>3, <1>4, ExecutedHistory
    <3>2. history.ran + r.executed = r.executed
      BY <1>2, <2>1
    <3>3. (r.status = "thrown") = FALSE
      BY <1>7
    <3> QED BY <3>1, <3>2, <3>3
  <2>3. /\ machine' = m
        /\ IF session'.halted THEN Stop(machine') ELSE Await(f, machine')
    BY <1>4, <1>7, <2>1 DEF Stop, Await
  <2>4. /\ machine' \in MachineType
        /\ machine'.phase = (IF session'.halted THEN "halted" ELSE "running")
        /\ machine'.message = (IF session'.halted THEN "halted" ELSE "none")
        /\ machine'.busy = FALSE /\ machine'.count = r.executed
        /\ machine'.snapshot = Snapshot(session') /\ machine'.assembly = machine.assembly
        /\ machine'.source = machine.source /\ machine'.selected = machine.selected
        /\ machine'.breakpoints = session'.breakpoints
    <3> DEFINE n == SteppedState(machine, session')
               p == IF session'.halted THEN "halted" ELSE "running"
    <3>1. /\ n \in MachineType
          /\ n.phase = (IF session'.halted THEN "halted" ELSE "ready")
          /\ n.message = (IF session'.halted THEN "halted" ELSE "none")
          /\ n.busy = FALSE
          /\ n.snapshot = Snapshot(session') /\ n.assembly = machine.assembly
          /\ n.source = machine.source /\ n.selected = machine.selected
          /\ n.breakpoints = session'.breakpoints
      BY <1>2, <2>1, SteppedFields
    <3>2. machine' = [n EXCEPT !.phase = IF n.phase = "halted" THEN "halted" ELSE "running",
                               !.count = r.executed]
      BY <2>1, <2>3, <3>1 DEF MachineType
    <3>3. p \in Phases /\ r.executed \in 0 .. RunLimit
      BY <1>5, <2>1 DEF Phases
    <3>4. p = IF n.phase = "halted" THEN "halted" ELSE "running"
      BY <3>1
    <3> HIDE DEF n, r, m, p
    <3>5. machine' = [n EXCEPT !.phase = p, !.count = r.executed]
      BY <3>2, <3>4
    <3>6. /\ machine' \in MachineType /\ machine'.phase = p /\ machine'.count = r.executed
          /\ machine'.message = n.message /\ machine'.busy = n.busy
          /\ machine'.snapshot = n.snapshot /\ machine'.assembly = n.assembly
          /\ machine'.source = n.source /\ machine'.selected = n.selected
          /\ machine'.breakpoints = n.breakpoints
      BY <3>1, <3>3, <3>5 DEF MachineType
    <3> QED BY <3>1, <3>6 DEF p
  <2> HIDE DEF r, m
  <2>5. /\ TypeOK' /\ PageBehind'
        /\ Queue(frames, generation, machine, session, history.ran, operationPending)'
    <3>1. CASE session'.halted
      BY <1>1, <1>4, <2>1, <2>2, <2>3, <2>4, <3>1, StopInOrder
    <3>2. CASE ~ session'.halted
      BY <1>1, <1>4, <2>1, <2>2, <2>3, <2>4, <3>2, AwaitInOrder
    <3> QED BY <3>1, <3>2
  <2>6. Consistent(machine', session', history')
    BY <2>1, <2>2, <2>4, SnapshotTaken DEF Consistent
  <2>7. PageTruthful' /\ InputKept' /\ RunBudget' /\ MessageTruthful'
    <3>1. history'.ran <= RunLimit
      BY <1>5, <2>1, <2>2
    <3> QED BY <2>1, <2>2, <2>4, <3>1
       DEF PageInv, PageTruthful, InputKept, RunBudget, MessageTruthful, Snapshot
  <2>8. ~ operationPending' /\ generation' <= MaxGeneration
    BY <1>2, <1>4 DEF PageInv
  <2> QED BY <2>5, <2>6, <2>7, <2>8 DEF PageInv
<1> QED BY <1>6, <1>7

LEMMA StaleInv == PageInv /\ StaleFrame => PageInv'
<1> SUFFICES ASSUME PageInv, StaleFrame PROVE PageInv'
  OBVIOUS
<1> USE DEF StaleFrame
<1>1. frames \in Seq(Callback) /\ generation \in Nat /\ operationPending \in BOOLEAN
  BY DEF PageInv, TypeOK
<1>2. ~ Acting(Head(frames), generation)
  BY DEF Acting, Live, IsCurrent, Operating, Operations
<1>3. /\ Tail(frames) \in Seq(Callback)
      /\ Queue(Tail(frames), generation, machine, session, history.ran, operationPending)
  BY <1>1, <1>2, StaleQueue DEF PageInv
<1>4. TypeOK'
  BY <1>3 DEF PageInv, TypeOK
<1>5. PageBehind'
  BY DEF PageInv, PageBehind
<1> QED BY <1>3, <1>4, <1>5
   DEF PageInv, PageTruthful, InputKept, RunBudget, MessageTruthful

LEMMA ChunkOfBounds ==
  ASSUME NEW remaining \in Nat \ {0}
  PROVE  ChunkOf(remaining) \in 1 .. remaining /\ ChunkOf(remaining) <= ChunkSize
<1> DEFINE both == {remaining, ChunkSize}
           least(x) == \A y \in both : x =< y
           x == CHOOSE x \in both : least(x)
<1>1. ChunkSize \in Nat \ {0}
  BY RunAssumption
<1>2. \E y \in both : least(y)
  BY <1>1
<1>3. ChunkOf(remaining) = x
  BY DEF ChunkOf, Min
<1>4. x \in both /\ least(x)
  BY <1>2
<1>5. x <= remaining /\ x <= ChunkSize
  BY <1>4
<1> QED BY <1>1, <1>3, <1>4, <1>5

(* What a chunk that did not throw puts on the page.                       *)
LEMMA ChunkFields ==
  ASSUME NEW m \in MachineType, NEW r, r.session \in SessionType,
         r.status \in {"halted", "breakpoint", "running"},
         r.executed \in Nat, m.count + r.executed <= RunLimit
  PROVE  LET n == ChunkState(m, r)
         IN  /\ n \in MachineType
             /\ n.phase = (CASE r.status = "running" -> "running"
                              [] r.status = "halted" -> "halted"
                              [] OTHER -> "paused")
             /\ n.message = (IF r.status = "running" THEN "none" ELSE r.status)
             /\ n.busy = FALSE /\ n.count = m.count + r.executed
             /\ n.snapshot = Snapshot(r.session) /\ n.assembly = m.assembly
             /\ n.source = m.source /\ n.selected = m.selected
             /\ n.breakpoints = r.session.breakpoints
<1> DEFINE n == Refreshed(m, r.session)
           p == CASE r.status = "running" -> "running"
                  [] r.status = "halted" -> "halted"
                  [] OTHER -> "paused"
           w == IF r.status = "running" THEN "none" ELSE r.status
           c == m.count + r.executed
<1>1. /\ n \in MachineType /\ n.busy = FALSE
      /\ n.snapshot = Snapshot(r.session) /\ n.assembly = m.assembly
      /\ n.source = m.source /\ n.selected = m.selected
      /\ n.breakpoints = r.session.breakpoints /\ n.count = m.count
  BY RefreshedFields
<1>2. p \in Phases /\ w \in Messages
  BY DEF Phases, Messages
<1>3. c \in 0 .. RunLimit
  BY RunAssumption DEF MachineType
<1>4. ChunkState(m, r) = [n EXCEPT !.phase = p, !.message = w, !.count = c]
  BY <1>1 DEF ChunkState, MachineType
<1> HIDE DEF n, p, w, c
<1>5. LET k == ChunkState(m, r)
      IN  /\ k \in MachineType /\ k.phase = p /\ k.message = w /\ k.count = c
          /\ k.busy = n.busy
          /\ k.snapshot = n.snapshot /\ k.assembly = n.assembly
          /\ k.source = n.source /\ k.selected = n.selected
          /\ k.breakpoints = n.breakpoints
  BY <1>1, <1>2, <1>3, <1>4 DEF MachineType
<1> QED BY <1>1, <1>5 DEF p, w, c

LEMMA LimitFields ==
  ASSUME NEW m \in MachineType
  PROVE  LET n == LimitState(m)
         IN  /\ n \in MachineType
             /\ n.phase = "paused" /\ n.message = "limit" /\ n.busy = m.busy
             /\ n.snapshot = m.snapshot /\ n.assembly = m.assembly
             /\ n.source = m.source /\ n.selected = m.selected
             /\ n.breakpoints = m.breakpoints /\ n.count = m.count
<1>1. "paused" \in Phases /\ "limit" \in Messages
  BY DEF Phases, Messages
<1> QED BY <1>1 DEF MachineType, LimitState

LEMMA ChunkInv == PageInv /\ ChunkFrame => PageInv'
<1> SUFFICES ASSUME PageInv, ChunkFrame PROVE PageInv'
  OBVIOUS
<1> DEFINE f == Head(frames)
           remaining == RunLimit - machine.count
           most == ChunkOf(remaining)
           r == RunChunk(session, most)
           m == ChunkState(machine, r)
<1>1. frames # << >> /\ f.kind \in {"start", "loop"} /\ IsCurrent(f)
  BY DEF ChunkFrame
<1>2. /\ f.state = machine /\ operationPending = FALSE
      /\ f.kind = "start" => history.ran = 0
      /\ f.kind = "loop" => history.ran > 0
      /\ machine.busy = FALSE /\ machine.phase = "running"
      /\ machine.count = history.ran /\ history.ran \in 0 .. RunLimit
      /\ Loaded(session) /\ Standing(session)
      /\ machine \in MachineType /\ session \in SessionType /\ history \in HistoryType
  BY <1>1, RunDue
<1>3. /\ ~ StepsOver(f)
      /\ IF remaining <= 0
         THEN Stop(LimitState(machine)) /\ UNCHANGED <<session, history>>
         ELSE /\ Executed(r)
              /\ IF r.status = "thrown" THEN Stop(ErrorState(machine))
                 ELSE IF r.status # "running" THEN Stop(m)
                 ELSE IF m.count >= RunLimit THEN Stop(LimitState(m))
                 ELSE Await(f, m)
      /\ UNCHANGED <<wasm, shown, operationPending, generation>>
  BY <1>2 DEF ChunkFrame
<1>4. RunLimit \in Nat \ {0} /\ remaining \in Nat
  BY <1>2, RunAssumption
<1>5. ~ operationPending' /\ generation' <= MaxGeneration
  BY <1>2, <1>3 DEF PageInv
<1>6. CASE remaining <= 0
  <2>1. machine' = LimitState(machine) /\ UNCHANGED <<session, history>> /\ Stop(machine')
    BY <1>3, <1>6 DEF Stop
  <2>2. /\ machine' \in MachineType
        /\ machine'.phase = "paused" /\ machine'.message = "limit"
        /\ machine'.busy = machine.busy
        /\ machine'.snapshot = machine.snapshot /\ machine'.assembly = machine.assembly
        /\ machine'.source = machine.source /\ machine'.selected = machine.selected
        /\ machine'.breakpoints = machine.breakpoints /\ machine'.count = machine.count
    BY <1>2, <2>1, LimitFields
  <2>3. history.ran = RunLimit
    BY <1>2, <1>4, <1>6
  <2>4. /\ TypeOK' /\ PageBehind'
        /\ Queue(frames, generation, machine, session, history.ran, operationPending)'
    BY <1>1, <1>2, <1>3, <2>1, <2>2, StopInOrder
  <2>5. Consistent(machine', session', history')
    BY <1>2, <2>1, <2>2 DEF PageInv, Consistent
  <2>6. PageTruthful' /\ InputKept' /\ RunBudget' /\ MessageTruthful'
    BY <1>2, <2>1, <2>2, <2>3
       DEF PageInv, PageTruthful, InputKept, RunBudget, MessageTruthful
  <2> QED BY <1>5, <2>4, <2>5, <2>6 DEF PageInv
<1>7. CASE ~ remaining <= 0
  <2>1. /\ most \in Nat \ {0} /\ most <= remaining
        /\ history.ran + most <= RunLimit /\ most <= ChunkSize
    <3>1. most \in 1 .. remaining /\ most <= ChunkSize
      BY <1>4, <1>7, ChunkOfBounds
    <3> HIDE DEF most
    <3> QED BY <1>2, <1>4, <3>1
  <2> HIDE DEF most
  <2>2. /\ Called(session, r, most)
        /\ r.status \in {"thrown", "halted", "breakpoint", "running"}
        /\ r.status = "breakpoint" => r.session.pc \in session.breakpoints
        /\ r.status = "running" => r.executed = most
    BY <1>2, <2>1, RunChunkCalled
  <2> HIDE DEF r
  <2>3. CASE r.status = "thrown"
    <3>1. Stop(ErrorState(machine)) /\ Executed(r)
      BY <1>3, <1>7, <2>3
    <3> QED BY <1>1, <1>3, <2>1, <2>2, <2>3, <3>1, ThrownInv
  <2>4. CASE r.status # "thrown"
    <3>1. /\ session' = r.session /\ session' \in SessionType
          /\ Standing(session') /\ Loaded(session')
          /\ session'.program = session.program
          /\ session'.breakpoints = session.breakpoints
          /\ r.executed \in 0 .. most
          /\ r.status = "halted" => session'.halted
          /\ r.status # "halted" => ~ session'.halted
      BY <1>2, <1>3, <1>7, <2>2, <2>4 DEF Called, Loaded, Executed
    <3>2. /\ history' \in HistoryType /\ history'.ran = history.ran + r.executed
          /\ history'.failed = FALSE /\ history'.typed = history.typed
          /\ history'.chosen = history.chosen
      <4>1. /\ history' \in HistoryType /\ history'.ran = history.ran + r.executed
            /\ history'.failed = (r.status = "thrown") /\ history'.typed = history.typed
            /\ history'.chosen = history.chosen
        BY <1>2, <1>3, <1>7, <2>1, <2>2, ExecutedHistory
      <4>2. (r.status = "thrown") = FALSE
        BY <2>4
      <4> QED BY <4>1, <4>2
    <3>3. machine.count + r.executed <= RunLimit /\ r.executed \in Nat
      BY <1>2, <1>4, <2>1, <3>1
    <3>4. history'.ran <= RunLimit /\ machine.count + r.executed = history'.ran
      BY <1>2, <3>2, <3>3
    <3>5. /\ m \in MachineType
          /\ m.phase = (CASE r.status = "running" -> "running"
                           [] r.status = "halted" -> "halted"
                           [] OTHER -> "paused")
          /\ m.message = (IF r.status = "running" THEN "none" ELSE r.status)
          /\ m.busy = FALSE /\ m.count = history'.ran
          /\ m.snapshot = Snapshot(session') /\ m.assembly = machine.assembly
          /\ m.source = machine.source /\ m.selected = machine.selected
          /\ m.breakpoints = session'.breakpoints
      <4>1. r.status \in {"halted", "breakpoint", "running"}
        BY <2>2, <2>4
      <4>2. r.session \in SessionType
        BY <3>1
      <4> QED BY <1>2, <3>1, <3>3, <3>4, <4>1, <4>2, ChunkFields
    <3> HIDE DEF m
    <3>6. r.status = "breakpoint" =>
            session'.pc \in session'.breakpoints /\ history'.ran > 0
      <4>1. ASSUME r.status = "breakpoint", ~ history'.ran > 0 PROVE FALSE
        <5>1. history.ran = 0 /\ r.executed = 0 /\ f.kind = "start"
          BY <1>1, <1>2, <3>1, <3>2, <4>1
        <5>2. session' = session /\ session.pc \in session.breakpoints /\ ~ session.halted
          BY <2>2, <3>1, <4>1, <5>1 DEF Called
        <5>3. machine.snapshot = Snapshot(session) /\ machine.breakpoints = session.breakpoints
          BY <1>2, <5>2 DEF PageInv, Consistent, PageTruthful, InputKept
        <5>4. machine.snapshot.pc \in machine.breakpoints
          BY <5>2, <5>3 DEF Snapshot
        <5> QED BY <1>1, <1>2, <1>3, <5>1, <5>4 DEF StepsOver
      <4> QED BY <2>2, <3>1, <4>1
    <3>7. CASE r.status # "running"
      <4>1. machine' = m /\ Stop(machine')
        BY <1>3, <1>7, <2>4, <3>7 DEF Stop
      <4>2. /\ TypeOK' /\ PageBehind'
            /\ Queue(frames, generation, machine, session, history.ran, operationPending)'
        BY <1>1, <1>3, <3>1, <3>2, <3>5, <3>7, <4>1, StopInOrder
      <4>3. Consistent(machine', session', history')
        BY <3>1, <3>2, <3>5, <4>1, SnapshotTaken DEF Consistent
      <4>4. PageTruthful' /\ InputKept'
        BY <2>2, <2>4, <3>1, <3>2, <3>5, <3>7, <4>1
           DEF PageInv, PageTruthful, InputKept, Snapshot
      <4>5. RunBudget' /\ MessageTruthful'
        BY <2>2, <2>4, <3>1, <3>4, <3>5, <3>6, <3>7, <4>1 DEF RunBudget, MessageTruthful
      <4> QED BY <1>5, <4>2, <4>3, <4>4, <4>5 DEF PageInv
    <3>8. CASE r.status = "running" /\ m.count >= RunLimit
      <4>1. machine' = LimitState(m) /\ Stop(machine')
        BY <1>3, <1>7, <3>8 DEF Stop
      <4>2. /\ machine' \in MachineType
            /\ machine'.phase = "paused" /\ machine'.message = "limit"
            /\ machine'.busy = FALSE /\ machine'.count = history'.ran
            /\ machine'.snapshot = Snapshot(session')
            /\ machine'.assembly = machine.assembly
            /\ machine'.source = machine.source /\ machine'.selected = machine.selected
            /\ machine'.breakpoints = session'.breakpoints
        BY <3>5, <4>1, LimitFields
      <4>3. history'.ran = RunLimit
        BY <1>4, <3>2, <3>4, <3>5, <3>8 DEF HistoryType
      <4>4. /\ TypeOK' /\ PageBehind'
            /\ Queue(frames, generation, machine, session, history.ran, operationPending)'
        BY <1>1, <1>3, <3>1, <3>2, <4>1, <4>2, StopInOrder
      <4>5. Consistent(machine', session', history')
        BY <3>1, <3>2, <4>2, SnapshotTaken DEF Consistent
      <4>6. PageTruthful' /\ InputKept' /\ RunBudget' /\ MessageTruthful'
        BY <3>1, <3>2, <3>4, <3>8, <4>2, <4>3
           DEF PageInv, PageTruthful, InputKept, RunBudget, MessageTruthful, Snapshot
      <4> QED BY <1>5, <4>4, <4>5, <4>6 DEF PageInv
    <3>9. CASE r.status = "running" /\ ~ m.count >= RunLimit
      <4>1. machine' = m /\ Await(f, machine')
        BY <1>3, <1>7, <3>9 DEF Await
      <4>2. history'.ran > 0
        BY <1>2, <2>1, <2>2, <3>2, <3>9
      <4>3. /\ TypeOK' /\ PageBehind'
            /\ Queue(frames, generation, machine, session, history.ran, operationPending)'
        BY <1>1, <1>3, <3>1, <3>2, <3>5, <3>9, <4>1, <4>2, AwaitInOrder
      <4>4. Consistent(machine', session', history')
        BY <3>1, <3>2, <3>5, <4>1, SnapshotTaken DEF Consistent
      <4>5. PageTruthful' /\ InputKept' /\ RunBudget' /\ MessageTruthful'
        BY <3>1, <3>2, <3>4, <3>5, <3>9, <4>1
           DEF PageInv, PageTruthful, InputKept, RunBudget, MessageTruthful, Snapshot
      <4> QED BY <1>5, <4>3, <4>4, <4>5 DEF PageInv
    <3> QED BY <3>7, <3>8, <3>9
  <2> QED BY <2>3, <2>4
<1> QED BY <1>6, <1>7

-----------------------------------------------------------------------------
LEMMA NextInv == PageInv /\ [Next]_vars => PageInv'
<1> SUFFICES ASSUME PageInv, [Next]_vars PROVE PageInv'
  OBVIOUS
<1>1. CASE SessionReady \/ SessionFails \/ Render
  BY <1>1, ReadyInv, FailsInv, RenderInv
<1>2. CASE User
  <2>1. CASE \E op \in Operations : ClickOperation(op)
    BY <2>1, OperationInv
  <2>2. CASE ClickRun \/ ClickPause
    BY <2>2, RunInv, PauseInv
  <2>3. CASE \E a \in Position : ClickBreakpoint(a) \/ SelectMemory(a)
    BY <2>3, BreakpointInv, SelectInv
  <2>4. CASE \E src \in Source : UpdateSource(src)
    BY <2>4, SourceInv
  <2> QED BY <1>2, <2>1, <2>2, <2>3, <2>4 DEF User
<1>3. CASE Frame
  BY <1>3, CompileInv, ResetInv, StepInv, StepOverInv, ChunkInv, StaleInv DEF Frame
<1>4. CASE UNCHANGED vars
  BY <1>4 DEF vars, PageInv, TypeOK, PageTruthful, InputKept, RunBudget,
     MessageTruthful, PageBehind
<1> QED BY <1>1, <1>2, <1>3, <1>4 DEF Next

(* The invariant holds of every state of the playground.                   *)
LEMMA PageInvariant == Spec => []PageInv
<1>1. PageInv /\ [Next]_vars => PageInv'
  BY NextInv
<1> QED BY InitInv, <1>1, PTL DEF Spec

(* The state stays within its types, for every set of programs, limit,     *)
(* chunk size and number of runs.                                          *)
THEOREM PlaygroundTypes == Spec => []TypeOK
<1>1. PageInv => TypeOK
  BY DEF PageInv
<1> QED BY PageInvariant, <1>1, PTL

(* A set of places in the queue among which no two differ.                 *)
LEMMA AtMostOne ==
  ASSUME NEW S, NEW T, \A x, y \in S \cup T : x = y, S \cap T = {}
  PROVE  Cardinality(S) + Cardinality(T) <= 1
<1>1. CASE S = {} /\ T = {}
  BY <1>1, FS_EmptySet
<1>2. CASE S = {} /\ T # {}
  <2>1. PICK x : T = {x}
    BY <1>2
  <2>2. Cardinality(S) = 0 /\ Cardinality(T) = 1
    BY <1>2, <2>1, FS_EmptySet, FS_Singleton
  <2> QED BY <2>2
<1>3. CASE S # {}
  <2>1. PICK x : S = {x}
    BY <1>3
  <2>2. T = {}
    BY <2>1
  <2>3. Cardinality(S) = 1 /\ Cardinality(T) = 0
    BY <2>1, <2>2, FS_EmptySet, FS_Singleton
  <2> QED BY <2>3
<1> QED BY <1>1, <1>2, <1>3

(* At most one callback can still change the session, and the page knows   *)
(* which, however many runs were started, paused and started again.        *)
THEOREM OneActorAlways == Spec => []OneActor
<1>1. PageInv => OneActor
  <2> SUFFICES ASSUME PageInv PROVE OneActor
    OBVIOUS
  <2>1. /\ \A n \in OperationFrames : n \in DOMAIN frames /\ Operating(frames[n])
        /\ \A n \in LiveFrames : n \in DOMAIN frames /\ Live(frames[n], generation)
    BY DEF OperationFrames, LiveFrames, Operating, Live
  <2>2. \A x, y \in OperationFrames \cup LiveFrames : x = y
    BY <2>1 DEF PageInv, Queue, Acting
  <2>3. OperationFrames \cap LiveFrames = {}
    BY DEF OperationFrames, LiveFrames, Operations
  <2>4. Cardinality(OperationFrames) + Cardinality(LiveFrames) <= 1
    BY <2>2, <2>3, AtMostOne
  <2>5. /\ OperationFrames # {} <=> \E n \in DOMAIN frames : Operating(frames[n])
        /\ LiveFrames # {} <=> \E n \in DOMAIN frames : Live(frames[n], generation)
    BY DEF OperationFrames, LiveFrames, Operating, Live
  <2> QED BY <2>4, <2>5 DEF OneActor, PageInv, Queue
<1> QED BY PageInvariant, <1>1, PTL

(* The phase agrees with the registers on the page, and these are the      *)
(* processor's, or after a call that threw at most one chunk older.        *)
THEOREM PageTruthfulAlways == Spec => []PageTruthful
<1>1. PageInv => PageTruthful
  BY DEF PageInv
<1> QED BY PageInvariant, <1>1, PTL

(* No commit of an awaited callback undoes what the user entered, and the  *)
(* page lists the session's breakpoints and program.                       *)
THEOREM InputKeptAlways == Spec => []InputKept
<1>1. PageInv => InputKept
  BY DEF PageInv
<1> QED BY PageInvariant, <1>1, PTL

(* One press of Run executes at most RunLimit instructions, whatever the   *)
(* limit and the chunk size.                                               *)
THEOREM RunBudgetAlways == Spec => []RunBudget
<1>1. PageInv => RunBudget
  BY DEF PageInv
<1> QED BY PageInvariant, <1>1, PTL

(* The stop message is always a true one.                                  *)
THEOREM MessageTruthfulAlways == Spec => []MessageTruthful
<1>1. PageInv => MessageTruthful
  BY DEF PageInv
<1> QED BY PageInvariant, <1>1, PTL

(* The processor moves only for an operation in flight or a run the page   *)
(* shows as running.                                                       *)
THEOREM MovesOnCommandAlways == Spec => MovesOnCommand
<1> DEFINE where == <<session.program, session.pc, session.halted>>
           Moves == where' # where => operationPending \/ machine.phase = "running"
<1>1. PageInv /\ [Next]_vars => [Moves]_vars
  <2> SUFFICES ASSUME PageInv, Next, session' # session, where' # where
               PROVE  operationPending \/ machine.phase = "running"
    BY DEF vars
  <2>1. CASE SessionReady \/ SessionFails \/ Render
    BY <2>1 DEF SessionReady, SessionFails, Render
  <2>2. CASE User
    <3>1. ASSUME NEW a \in Position, ClickBreakpoint(a) PROVE FALSE
      <4>1. /\ session'.program = session.program /\ session'.pc = session.pc
            /\ session'.halted = session.halted
        BY <3>1, ToggleBreakpointFields DEF ClickBreakpoint, PageInv, TypeOK
      <4> QED BY <4>1
    <3> QED BY <2>2, <3>1 DEF User, ClickOperation, ClickRun, ClickPause,
           SelectMemory, UpdateSource
  <2>3. CASE CompileFrame \/ ResetFrame \/ StepFrame
    <3>1. Operating(Head(frames)) /\ frames # << >>
      BY <2>3 DEF CompileFrame, ResetFrame, StepFrame, Operating, Operations
    <3> QED BY <3>1, OperationDue
  <2>4. CASE StepOverFrame \/ ChunkFrame
    <3>1. /\ frames # << >> /\ Head(frames).kind \in {"start", "loop"}
          /\ IsCurrent(Head(frames))
      BY <2>4 DEF StepOverFrame, StepsOver, ChunkFrame
    <3> QED BY <3>1, RunDue
  <2>5. CASE StaleFrame
    BY <2>5 DEF StaleFrame
  <2> QED BY <2>1, <2>2, <2>3, <2>4, <2>5 DEF Next, Frame
<1> QED BY PageInvariant, <1>1, PTL DEF Spec, MovesOnCommand

(* Whatever the chunks, a run executes the instruction at a breakpoint     *)
(* only as its first.                                                      *)
THEOREM BreakpointRespectedAlways == Spec => BreakpointRespected
<1> DEFINE Respects ==
      history'.ran > history.ran =>
        \A n \in 0 .. history'.ran - history.ran - 1 :
          After(session, n).pc \in session.breakpoints => n = 0 /\ history.ran = 0
<1>1. PageInv /\ [Next]_vars => [Respects]_vars
  <2> SUFFICES ASSUME PageInv, Next PROVE Respects
    BY DEF vars
  <2>1. history \in HistoryType /\ history.ran \in Nat
    BY DEF PageInv, TypeOK, HistoryType
  <2>2. CASE ~ StepOverFrame /\ ~ ChunkFrame
    <3>1. history'.ran = history.ran \/ history'.ran = 0
      BY <2>1, <2>2 DEF Next, User, Frame, SessionReady, SessionFails, Render,
         ClickOperation, ClickRun, ClickPause, ClickBreakpoint, SelectMemory,
         UpdateSource, CompileFrame, ResetFrame, StepFrame, StaleFrame, Finish,
         HistoryType
    <3> QED BY <2>1, <3>1
  <2>3. CASE StepOverFrame
    <3> DEFINE r == StepSession(session)
    <3>1. /\ frames # << >> /\ Head(frames).kind \in {"start", "loop"}
          /\ Head(frames).kind = "start" /\ IsCurrent(Head(frames)) /\ Executed(r)
      BY <2>3 DEF StepOverFrame, StepsOver
    <3>2. history.ran = 0 /\ Called(session, r, 1)
      BY <3>1, RunDue, StepSessionCalled
    <3> HIDE DEF r
    <3>3. history'.ran = history.ran + r.executed /\ r.executed \in 0 .. 1
      BY <2>1, <3>1, <3>2, ExecutedHistory DEF Called
    <3> QED BY <3>2, <3>3
  <2>4. CASE ChunkFrame
    <3> DEFINE f == Head(frames)
               remaining == RunLimit - machine.count
               r == RunChunk(session, ChunkOf(remaining))
    <3>1. /\ frames # << >> /\ f.kind \in {"start", "loop"} /\ IsCurrent(f)
      BY <2>4 DEF ChunkFrame
    <3>2. /\ f.state = machine /\ machine.count = history.ran
          /\ history.ran \in 0 .. RunLimit
          /\ Loaded(session) /\ Standing(session) /\ session \in SessionType
      BY <3>1, RunDue
    <3>3. CASE remaining <= 0
      BY <2>1, <2>4, <3>2, <3>3 DEF ChunkFrame
    <3>4. CASE ~ remaining <= 0
      <4>1. Executed(r)
        BY <2>4, <3>2, <3>4 DEF ChunkFrame
      <4>2. ChunkOf(remaining) \in Nat
        <5>1. remaining \in Nat \ {0}
          BY <3>2, <3>4, RunAssumption
        <5> QED BY <5>1, ChunkOfBounds
      <4>3. /\ Called(session, r, ChunkOf(remaining))
            /\ \A l \in 0 .. r.executed - 1 : After(session, l).pc \notin session.breakpoints
        BY <3>2, <4>2, RunChunkCalled
      <4> HIDE DEF r
      <4>4. history'.ran = history.ran + r.executed /\ r.executed \in Nat
        BY <2>1, <4>1, <4>2, <4>3, ExecutedHistory DEF Called
      <4>5. history'.ran - history.ran = r.executed
        BY <2>1, <4>4
      <4> QED BY <4>3, <4>5
    <3> QED BY <3>3, <3>4
  <2> QED BY <2>2, <2>3, <2>4
<1> QED BY PageInvariant, <1>1, PTL DEF Spec, BreakpointRespected

-----------------------------------------------------------------------------
(* The page is a run control.                                              *)

(* What is under way is the kind of the one operation that waits, a run    *)
(* that may act, or nothing.                                               *)
UnderWayTrue ==
  /\ \A n \in DOMAIN frames : Operating(frames[n]) =>
       machine.busy /\ UnderWay = frames[n].kind
  /\ machine.busy => machine.phase # "running"
                     /\ \E n \in DOMAIN frames : frames[n].kind = UnderWay
                     /\ UnderWay \in Operations
  /\ ~ machine.busy =>
       UnderWay = IF machine.phase = "running" THEN "run" ELSE "none"

LEMMA UnderWayKnown == PageInv => UnderWayTrue
<1> SUFFICES ASSUME PageInv PROVE UnderWayTrue
  OBVIOUS
<1> DEFINE Kind(op) == \E n \in OperationFrames : frames[n].kind = op
<1>1. /\ machine.busy <=> \E n \in DOMAIN frames : Operating(frames[n])
      /\ \A j, k \in DOMAIN frames :
           Operating(frames[j]) /\ Acting(frames[k], generation) => j = k
  BY DEF PageInv, Queue, Acting
<1>2. ASSUME NEW n \in DOMAIN frames, Operating(frames[n])
      PROVE  machine.busy /\ UnderWay = frames[n].kind
  <2>1. machine.busy
    BY <1>1, <1>2
  <2>2. n \in OperationFrames /\ frames[n].kind \in Operations
    BY <1>2 DEF OperationFrames, Operating
  <2>3. \A k \in OperationFrames : k = n
    BY <1>1, <1>2 DEF OperationFrames, Acting, Operating
  <2>4. \A op \in Operations : Kind(op) <=> op = frames[n].kind
    BY <2>2, <2>3
  <2>5. UnderWay = CHOOSE op \in Operations : Kind(op)
    BY <2>1 DEF UnderWay
  <2> HIDE DEF Kind
  <2> QED BY <2>1, <2>2, <2>4, <2>5
<1>3. machine.busy => \E n \in DOMAIN frames : Operating(frames[n]) /\ frames[n].kind = UnderWay
  BY <1>1, <1>2
<1>4. machine.busy => machine.phase # "running"
  <2>1. ASSUME machine.busy, machine.phase = "running" PROVE FALSE
    <3>1. PICK n \in DOMAIN frames : Operating(frames[n])
      BY <1>1, <2>1
    <3>2. PICK k \in DOMAIN frames : Live(frames[k], generation)
      BY <2>1 DEF PageInv, Queue
    <3>3. n = k
      BY <1>1, <3>1, <3>2 DEF Acting
    <3> QED BY <3>1, <3>2, <3>3 DEF Operating, Live, Operations
  <2> QED BY <2>1
<1> QED BY <1>2, <1>3, <1>4 DEF UnderWayTrue, UnderWay, Operating

(* While nothing is shown to be under way, nothing is.                     *)
LEMMA IdleNone ==
  ASSUME PageInv, ~ shown.busy, shown.phase # "running"
  PROVE  UnderWay = "none" /\ ~ machine.busy /\ machine.phase # "running"
  BY IdleUser, UnderWayKnown DEF UnderWayTrue

LEMMA UserControl ==
  ASSUME PageInv, PageInv', User
  PROVE  Control!Next \/ UNCHANGED <<session, UnderWay, machine.source, history.ran>>
<1>0. /\ machine \in MachineType /\ history \in HistoryType /\ session \in SessionType
      /\ frames \in Seq(Callback)
  BY DEF PageInv, TypeOK
<1>1. UnderWayTrue'
  BY UnderWayKnown, PTL
<1>2. shown.loaded \/ shown.phase \in Working => Loaded(session)
  BY DEF PageInv, PageBehind
<1>3. ASSUME NEW op \in Operations, ClickOperation(op) PROVE Control!Ask(op)
  <2>1. UnderWay = "none"
    BY <1>3, IdleNone DEF ClickOperation, ButtonEnabled, ControlsDisabled
  <2>2. op # "compile" => Loaded(session)
    BY <1>2, <1>3 DEF ClickOperation, ButtonEnabled, Operations, Working
  <2> DEFINE f == [kind |-> op, state |-> machine']
  <2>3. frames' = Append(frames, f) /\ f.kind = op
    BY <1>3 DEF ClickOperation
  <2> HIDE DEF f
  <2>4. Len(frames) + 1 \in DOMAIN frames' /\ frames'[Len(frames) + 1] = f
    BY <1>0, <2>3
  <2>5. UnderWay' = op
    BY <1>1, <2>3, <2>4 DEF UnderWayTrue, Operating
  <2>6. /\ session' = session /\ machine'.source = machine.source
        /\ history' = history /\ op # "run"
    BY <1>0, <1>3 DEF ClickOperation, MachineType, Operations
  <2> QED BY <2>1, <2>2, <2>5, <2>6 DEF Control!Ask, Control!Loaded, Loaded
<1>4. CASE ClickRun
  <2>1. UnderWay = "none"
    BY <1>4, IdleNone DEF ClickRun, ButtonEnabled, ControlsDisabled
  <2>2. Loaded(session)
    BY <1>2, <1>4 DEF ClickRun, ButtonEnabled, Working
  <2>3. /\ machine'.phase = "running" /\ machine'.source = machine.source
        /\ history'.ran = 0 /\ session' = session
    BY <1>0, <1>4 DEF ClickRun, MachineType, HistoryType
  <2>4. UnderWay' = "run"
    BY <1>1, <2>3 DEF UnderWayTrue
  <2>5. Control!Ask("run")
    BY <2>1, <2>2, <2>3, <2>4 DEF Control!Ask, Control!Loaded, Loaded
  <2> QED BY <2>5 DEF Control!Next
<1>5. CASE ClickPause
  <2>1. UnderWay = "run"
    BY <1>5, UnderWayKnown DEF UnderWayTrue, ClickPause
  <2>2. /\ machine'.phase = "paused" /\ machine'.source = machine.source
        /\ machine'.busy = machine.busy
        /\ history' = history /\ session' = session
    BY <1>0, <1>5 DEF ClickPause, MachineType
  <2>3. ~ machine'.busy
    BY <1>5, <2>2, UnderWayKnown DEF UnderWayTrue, ClickPause
  <2>4. UnderWay' = "none"
    BY <1>1, <2>2, <2>3 DEF UnderWayTrue
  <2>5. Control!Pause
    BY <2>1, <2>2, <2>4 DEF Control!Pause
  <2> QED BY <2>5 DEF Control!Next
<1>6. ASSUME NEW a \in Position, ClickBreakpoint(a) PROVE Control!Toggle
  <2>1. UnderWay = "none" /\ ~ machine.busy /\ machine.phase # "running"
    BY <1>6, IdleNone DEF ClickBreakpoint, ControlsDisabled
  <2>2. /\ machine'.phase = machine.phase /\ machine'.source = machine.source
        /\ machine'.busy = machine.busy
        /\ history' = history /\ session' = ToggleBreakpoint(session, a)
    BY <1>0, <1>6 DEF ClickBreakpoint, MachineType
  <2>3. Loaded(session)
    BY <1>6 DEF ClickBreakpoint, PageInv, InputKept, Loaded
  <2>4. UnderWay' = "none"
    BY <1>1, <2>1, <2>2 DEF UnderWayTrue
  <2> QED BY <1>6, <2>1, <2>2, <2>3, <2>4 DEF Control!Toggle, Control!Loaded, Loaded,
       Control!Position, Position, Control!ToggleBreakpoint, ToggleBreakpoint
<1>7. ASSUME NEW a \in Position, SelectMemory(a)
      PROVE  UNCHANGED <<session, UnderWay, machine.source, history.ran>>
  <2>1. /\ machine'.phase = machine.phase /\ machine'.source = machine.source
        /\ machine'.busy = machine.busy
        /\ history'.ran = history.ran /\ session' = session
    BY <1>0, <1>7 DEF SelectMemory, MachineType, HistoryType
  <2>2. UnderWay = "none" /\ ~ machine.busy /\ machine.phase # "running"
    BY <1>7, IdleNone DEF SelectMemory, ControlsDisabled
  <2>3. UnderWay' = "none"
    BY <1>1, <2>1, <2>2 DEF UnderWayTrue
  <2> QED BY <2>1, <2>2, <2>3
<1>8. ASSUME NEW src \in Source, UpdateSource(src) PROVE Control!Write
  <2>1. UnderWay = "none" /\ ~ machine.busy /\ machine.phase # "running"
    BY <1>8, IdleNone DEF UpdateSource, ControlsDisabled
  <2>2. /\ machine'.phase # "running" /\ machine'.source = src
        /\ machine'.busy = machine.busy
        /\ history'.ran = history.ran /\ session' = session
    BY <1>0, <1>8 DEF UpdateSource, MachineType, HistoryType
  <2>3. UnderWay' = "none"
    BY <1>1, <2>1, <2>2 DEF UnderWayTrue
  <2> QED BY <2>1, <2>2, <2>3 DEF Control!Write, Source
<1> QED BY <1>3, <1>4, <1>5, <1>6, <1>7, <1>8 DEF User, Control!Next, Operations

(* A callback that leaves the machine idle ends what was under way.        *)
LEMMA FrameControl ==
  ASSUME PageInv, PageInv', CompileFrame \/ ResetFrame \/ StepFrame
  PROVE  Control!Next
<1> DEFINE f == Head(frames)
<1>0. /\ machine \in MachineType /\ history \in HistoryType /\ session \in SessionType
      /\ frames \in Seq(Callback) /\ frames # << >>
      /\ Operating(f)
  BY DEF PageInv, TypeOK, CompileFrame, ResetFrame, StepFrame, Operating, Operations
<1>1. UnderWayTrue /\ UnderWayTrue'
  BY UnderWayKnown, PTL
<1>2. f = frames[1] /\ 1 \in DOMAIN frames
  BY <1>0
<1>3. UnderWay = f.kind
  BY <1>0, <1>1, <1>2 DEF UnderWayTrue
<1>4. /\ f.state = machine
      /\ f.kind \in {"reset", "step"} => Loaded(session)
  BY <1>0, OperationDue
<1>5. ASSUME ~ machine'.busy, machine'.phase # "running" PROVE UnderWay' = "none"
  BY <1>1, <1>5 DEF UnderWayTrue
<1>6. ASSUME NEW m, NEW failed, Finish(m, failed)
      PROVE  machine' = m /\ history'.ran = history.ran
  BY <1>0, <1>6 DEF Finish, HistoryType
<1>7. CASE CompileFrame
  <2>1. /\ machine' = IF machine.source = Broken THEN ErrorState(machine)
                      ELSE CompiledState(machine, session')
        /\ session' = IF machine.source = Broken THEN session
                      ELSE Load(session, machine.source)
        /\ history'.ran = history.ran
    <3>1. CASE machine.source = Broken
      <4>1. Finish(ErrorState(machine), history.failed) /\ session' = session
        BY <1>4, <1>7, <3>1 DEF CompileFrame
      <4> QED BY <1>6, <3>1, <4>1
    <3>2. CASE machine.source # Broken
      <4>1. /\ session' = Load(session, machine.source)
            /\ Finish(CompiledState(machine, session'), FALSE)
        BY <1>4, <1>7, <3>2 DEF CompileFrame
      <4> QED BY <1>6, <3>2, <4>1
    <3> QED BY <3>1, <3>2
  <2>2. /\ ~ machine'.busy /\ machine'.phase # "running"
        /\ machine'.source = machine.source
    BY <1>0, <2>1 DEF ErrorState, CompiledState, Refreshed, MachineType
  <2>3. Control!Compile
    BY <1>3, <1>5, <1>7, <2>1, <2>2
       DEF CompileFrame, Control!Compile, Control!Done, Control!Load, Load
  <2> QED BY <2>3 DEF Control!Next
<1>8. CASE ResetFrame
  <2>1. /\ machine' = ResetState(machine, session')
        /\ session' = Load(session, session.program)
        /\ history'.ran = history.ran
    BY <1>4, <1>6, <1>8 DEF ResetFrame
  <2>2. /\ ~ machine'.busy /\ machine'.phase # "running"
        /\ machine'.source = machine.source
    BY <1>0, <2>1 DEF ResetState, Refreshed, MachineType
  <2>3. Control!Restart
    BY <1>3, <1>5, <1>8, <2>1, <2>2
       DEF ResetFrame, Control!Restart, Control!Done, Control!Load, Load
  <2> QED BY <2>3 DEF Control!Next
<1>9. CASE StepFrame
  <2>1. /\ machine' \in {ErrorState(machine), SteppedState(machine, session')}
        /\ session' = StepSession(session).session
        /\ history'.ran = history.ran
    BY <1>4, <1>6, <1>9 DEF StepFrame
  <2>2. /\ ~ machine'.busy /\ machine'.phase # "running"
        /\ machine'.source = machine.source
    BY <1>0, <2>1 DEF ErrorState, SteppedState, Refreshed, MachineType
  <2>3. Control!SingleStep
    BY <1>3, <1>5, <1>9, <2>1, <2>2
       DEF StepFrame, Control!SingleStep, Control!Done, Control!StepSession, StepSession,
           Control!Answer, Answer, Control!After, After
  <2> QED BY <2>3 DEF Control!Next
<1> QED BY <1>7, <1>8, <1>9

(* What a callback of a run does is what the run control's run may do: n   *)
(* instructions that are its to execute, and an end only for a reason.     *)
LEMMA AdvanceControl ==
  ASSUME PageInv, PageInv', frames # << >>, Head(frames).kind \in {"start", "loop"},
         IsCurrent(Head(frames)),
         NEW n \in Nat, session' = After(session, n), history'.ran = history.ran + n,
         \A l \in 0 .. n - 1 :
           /\ ~ After(session, l).halted
           /\ After(session, l).pc \in session.breakpoints => l = 0 /\ history.ran = 0,
         ~ machine'.busy, machine'.source = machine.source,
         machine'.phase # "running" =>
           \/ session'.halted
           \/ history'.ran > 0 /\ session'.pc \in session'.breakpoints
           \/ history'.ran = RunLimit
  PROVE  Control!Next
<1>1. UnderWayTrue /\ UnderWayTrue'
  BY UnderWayKnown, PTL
<1>2. UnderWay = "run" /\ history.ran \in Nat /\ RunLimit \in Nat
  <2>1. /\ machine.busy = FALSE /\ machine.phase = "running"
        /\ history.ran \in 0 .. RunLimit
    BY RunDue
  <2>2. RunLimit \in Nat
    BY RunAssumption
  <2> QED BY <1>1, <2>1, <2>2 DEF UnderWayTrue
<1>3. UnderWay' = IF machine'.phase = "running" THEN "run" ELSE "none"
  BY <1>1 DEF UnderWayTrue
<1>4. history'.ran <= RunLimit
  BY DEF PageInv, RunBudget
<1>5. n \in 0 .. RunLimit - history.ran
  BY <1>2, <1>4
<1>6. \A l \in Nat : Control!After(session, l) = After(session, l)
  BY DEF Control!After, After
<1>7. Control!MayExecute(n)
  BY <1>6 DEF Control!MayExecute
<1>8. UnderWay' = "run" \/ (UnderWay' = "none" /\ Control!Over')
  BY <1>3 DEF Control!Over
<1>9. Control!Advance
  BY <1>2, <1>5, <1>6, <1>7, <1>8 DEF Control!Advance
<1> QED BY <1>9 DEF Control!Next

LEMMA StepOverControl ==
  ASSUME PageInv, PageInv', StepOverFrame
  PROVE  Control!Next
<1> DEFINE f == Head(frames)
           r == StepSession(session)
           n == r.executed
<1>1. /\ frames # << >> /\ f.kind = "start" /\ f.kind \in {"start", "loop"}
      /\ IsCurrent(f)
  BY DEF StepOverFrame, StepsOver
<1>2. /\ f.state = machine /\ history.ran = 0
      /\ Loaded(session) /\ Standing(session)
      /\ machine \in MachineType /\ session \in SessionType /\ history \in HistoryType
  BY <1>1, RunDue
<1>3. /\ Called(session, r, 1)
      /\ r.session = After(session, n)
      /\ n \in 0 .. 1 /\ (n = 1 => ~ session.halted)
  BY <1>2, StepSessionCalled DEF StepSession, Answer, Called
<1>4. /\ Executed(r)
      /\ machine'.busy = FALSE /\ machine'.source = machine.source
      /\ machine'.phase # "running" => r.status = "thrown" \/ r.session.halted
  BY <1>2 DEF StepOverFrame, Stop, Await, ErrorState, SteppedState, Refreshed, MachineType
<1> HIDE DEF r
<1>5. session' = After(session, n) /\ history'.ran = history.ran + n
  <2>1. session' = r.session
    BY <1>4 DEF Executed
  <2>2. history'.ran = history.ran + r.executed
    <3>1. 1 \in Nat
      OBVIOUS
    <3> QED BY <1>2, <1>3, <1>4, <3>1, ExecutedHistory
  <2> QED BY <1>3, <2>1, <2>2
<1>6. machine'.phase # "running" => session'.halted
  BY <1>3, <1>4, <1>5 DEF Called
<1>7. \A l \in 0 .. n - 1 : l = 0 /\ ~ After(session, l).halted
  <2>1. After(session, 0) = session
    BY <1>2, AfterFields
  <2> QED BY <1>3, <2>1
<1>8. n \in Nat
  BY <1>3
<1> QED BY <1>1, <1>2, <1>4, <1>5, <1>6, <1>7, <1>8, AdvanceControl

LEMMA ChunkControl ==
  ASSUME PageInv, PageInv', ChunkFrame
  PROVE  Control!Next
<1> DEFINE f == Head(frames)
           remaining == RunLimit - machine.count
           r == RunChunk(session, ChunkOf(remaining))
           m == ChunkState(machine, r)
           n == r.executed
<1>1. frames # << >> /\ f.kind \in {"start", "loop"} /\ IsCurrent(f)
  BY DEF ChunkFrame
<1>2. /\ f.state = machine /\ machine.count = history.ran
      /\ history.ran \in 0 .. RunLimit /\ machine.busy = FALSE
      /\ Loaded(session) /\ Standing(session)
      /\ machine \in MachineType /\ session \in SessionType /\ history \in HistoryType
  BY <1>1, RunDue
<1>3. CASE remaining <= 0
  <2>1. /\ session' = session /\ history' = history
        /\ machine'.source = machine.source /\ machine'.busy = machine.busy
    BY <1>2, <1>3 DEF ChunkFrame, Stop, LimitState, MachineType
  <2>2. session' = After(session, 0) /\ history'.ran = history.ran + 0
    BY <1>2, <2>1, AfterFields
  <2>3. history'.ran = RunLimit
    BY <1>2, <1>3, <2>1, RunAssumption
  <2>4. 0 \in Nat /\ \A l \in 0 .. 0 - 1 : FALSE
    OBVIOUS
  <2>5. ~ machine'.busy /\ machine'.source = machine.source
    BY <1>2, <2>1
  <2> HIDE DEF f
  <2> QED BY <1>1, <2>2, <2>3, <2>4, <2>5, AdvanceControl DEF f
<1>4. CASE ~ remaining <= 0
  <2>1. ChunkOf(remaining) \in Nat
    <3>1. remaining \in Nat \ {0}
      BY <1>2, <1>4, RunAssumption
    <3> QED BY <3>1, ChunkOfBounds
  <2>2. /\ Called(session, r, ChunkOf(remaining))
        /\ r.status \in {"thrown", "halted", "breakpoint", "running"}
        /\ r.session = After(session, n)
        /\ \A l \in 0 .. n - 1 :
             After(session, l).pc \notin session.breakpoints /\ ~ After(session, l).halted
        /\ r.status = "breakpoint" => r.session.pc \in session.breakpoints
    BY <1>2, <2>1, RunChunkCalled
  <2>3. /\ Executed(r)
        /\ IF r.status = "thrown" THEN Stop(ErrorState(machine))
           ELSE IF r.status # "running" THEN Stop(m)
           ELSE IF m.count >= RunLimit THEN Stop(LimitState(m))
           ELSE Await(f, m)
    BY <1>2, <1>4 DEF ChunkFrame
  <2> HIDE DEF r
  <2>4. /\ session' = After(session, n) /\ history'.ran = history.ran + n
        /\ n \in Nat /\ session'.breakpoints = session.breakpoints
    <3>1. session' = r.session
      BY <2>3 DEF Executed
    <3>2. history'.ran = history.ran + r.executed
      BY <1>2, <2>1, <2>2, <2>3, ExecutedHistory
    <3>3. r.executed \in Nat /\ r.session.breakpoints = session.breakpoints
      BY <2>1, <2>2 DEF Called
    <3> QED BY <2>2, <3>1, <3>2, <3>3
  <2>5. /\ m.source = machine.source /\ m.busy = FALSE /\ m.count = history'.ran
        /\ r.status = "running" => m.phase = "running"
    BY <1>2, <2>4 DEF ChunkState, Refreshed, MachineType
  <2>6. machine'.source = machine.source /\ machine'.busy = FALSE
    <3> HIDE DEF m
    <3>1. machine' \in {ErrorState(machine), m, LimitState(m)}
      BY <2>3 DEF Stop, Await
    <3>2. /\ ErrorState(machine).source = machine.source
          /\ ErrorState(machine).busy = FALSE
      BY <1>2 DEF ErrorState, MachineType
    <3>3. LimitState(m).source = m.source /\ LimitState(m).busy = m.busy
      BY DEF LimitState, m, ChunkState, Refreshed
    <3> QED BY <2>5, <3>1, <3>2, <3>3
  <2>7. machine'.phase # "running" =>
          \/ session'.halted
          \/ history'.ran > 0 /\ session'.pc \in session'.breakpoints
          \/ history'.ran = RunLimit
    <3>1. CASE r.status \in {"thrown", "halted"}
      BY <2>2, <2>4, <3>1 DEF Called
    <3>2. CASE r.status = "breakpoint"
      <4>1. machine'.phase = "paused" /\ machine'.message = "breakpoint"
        BY <1>2, <2>3, <3>2 DEF Stop, ChunkState, Refreshed, MachineType
      <4> QED BY <2>2, <4>1 DEF PageInv, MessageTruthful
    <3>3. CASE r.status = "running" /\ m.count >= RunLimit
      <4>1. history'.ran <= RunLimit /\ history'.ran \in Nat
        BY DEF PageInv, RunBudget, TypeOK, HistoryType
      <4> QED BY <2>5, <3>3, <4>1, RunAssumption
    <3>4. CASE r.status = "running" /\ ~ m.count >= RunLimit
      BY <2>3, <2>5, <3>4 DEF Await
    <3> QED BY <2>2, <3>1, <3>2, <3>3, <3>4
  <2> QED BY <1>1, <2>2, <2>4, <2>6, <2>7, AdvanceControl
<1> QED BY <1>3, <1>4

(* A callback whose run was paused, or whose generation has passed, leaves *)
(* what is under way as it was.                                            *)
LEMMA StaleControl ==
  ASSUME PageInv, PageInv', StaleFrame
  PROVE  UNCHANGED <<session, UnderWay, machine.source, history.ran>>
<1>1. UnderWayTrue /\ UnderWayTrue'
  BY UnderWayKnown, PTL
<1>2. /\ frames' = Tail(frames) /\ frames # << >> /\ frames \in Seq(Callback)
      /\ session' = session /\ machine' = machine /\ history' = history
  BY DEF StaleFrame, PageInv, TypeOK
<1>3. ASSUME machine.busy PROVE UnderWay' = UnderWay
  <2>1. PICK n \in DOMAIN frames' : frames'[n].kind = UnderWay'
    BY <1>1, <1>2, <1>3 DEF UnderWayTrue
  <2>2. UnderWay' \in Operations
    BY <1>1, <1>2, <1>3 DEF UnderWayTrue
  <2>3. n + 1 \in DOMAIN frames /\ frames[n + 1] = frames'[n]
    BY <1>2, <2>1
  <2> QED BY <1>1, <2>1, <2>2, <2>3 DEF UnderWayTrue, Operating
<1>4. ASSUME ~ machine.busy PROVE UnderWay' = UnderWay
  BY <1>1, <1>2, <1>4 DEF UnderWayTrue
<1> QED BY <1>2, <1>3, <1>4

LEMMA PageControl ==
  ASSUME PageInv, PageInv', SessionReady \/ SessionFails \/ Render
  PROVE  UNCHANGED <<session, UnderWay, machine.source, history.ran>>
<1>0. machine \in MachineType
  BY DEF PageInv, TypeOK
<1>1. UnderWayTrue /\ UnderWayTrue'
  BY UnderWayKnown, PTL
<1>2. CASE SessionReady \/ Render
  <2>1. /\ session' = session /\ machine' = machine /\ history' = history
        /\ frames' = frames
    BY <1>2 DEF SessionReady, Render
  <2>2. UnderWay' = UnderWay
    BY <2>1 DEF UnderWay, OperationFrames
  <2> QED BY <2>1, <2>2
<1>3. CASE SessionFails
  <2>1. frames = << >> /\ DOMAIN frames = {} /\ frames' = frames
    BY <1>3 DEF PageInv, PageBehind, SessionFails
  <2>2. /\ ~ machine.busy /\ machine.phase # "running"
    BY <2>1 DEF PageInv, Queue
  <2>3. /\ machine'.phase = "error" /\ machine'.source = machine.source
        /\ ~ machine'.busy /\ UNCHANGED <<session, history>>
    BY <1>0, <1>3 DEF SessionFails, ErrorState, MachineType
  <2> QED BY <1>1, <2>2, <2>3 DEF UnderWayTrue
<1> QED BY <1>2, <1>3

(* The playground is a run control: whatever the order of its callbacks,   *)
(* renders and clicks, commands are carried out one at a time, once, on    *)
(* what was entered last, nothing executes after Pause, and a run ends by  *)
(* itself only for one of the three reasons (App.tsx, runner.ts).          *)
THEOREM ControlCorrect == Spec => ControlSpec
<1> DEFINE mapped == <<session, UnderWay, machine.source, history.ran>>
<1>1. Init => Control!Init
  <2> SUFFICES ASSUME Init PROVE Control!Init
    OBVIOUS
  <2>1. /\ machine.busy = FALSE /\ machine.phase = "empty"
        /\ machine.source \in Program /\ session = NewSession /\ history.ran = 0
    BY DEF Init
  <2> QED BY <2>1 DEF Control!Init, UnderWay, Control!NewSession, NewSession
<1>2. PageInv /\ PageInv' /\ [Next]_vars => [Control!Next]_(Control!controlVars)
  <2> SUFFICES ASSUME PageInv, PageInv', [Next]_vars
               PROVE  Control!Next \/ UNCHANGED mapped
    BY DEF Control!controlVars
  <2>1. CASE UNCHANGED vars
    BY <2>1 DEF vars, UnderWay, OperationFrames
  <2>2. CASE SessionReady \/ SessionFails \/ Render
    BY <2>2, PageControl
  <2>3. CASE User
    BY <2>3, UserControl
  <2>4. CASE CompileFrame \/ ResetFrame \/ StepFrame
    BY <2>4, FrameControl
  <2>5. CASE StepOverFrame \/ ChunkFrame
    BY <2>5, StepOverControl, ChunkControl
  <2>6. CASE StaleFrame
    BY <2>6, StaleControl
  <2> QED BY <2>1, <2>2, <2>3, <2>4, <2>5, <2>6 DEF Next, Frame
<1> QED BY <1>1, <1>2, PageInvariant, PTL DEF Spec, ControlSpec, Control!Spec
=============================================================================
