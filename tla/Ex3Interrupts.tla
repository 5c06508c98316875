---------------------------- MODULE Ex3Interrupts ----------------------------
(***************************************************************************)
(* Interrupt transparency of the EX3 processor.  Ex3Cpu is run with one    *)
(* history variable, the contexts of the computations that interrupts have *)
(* suspended, outermost first.  The properties speak of programs that keep *)
(* the ABI: handlers preserve AC, the I/O selection and the mask, leave SP *)
(* where they found it and end in IRET.                                    *)
(***************************************************************************)
EXTENDS Ex3Cpu

CONSTANT MaxDepth   \* bound: the host asserts nothing at this nesting depth

VARIABLE suspended

ivars == <<vars, suspended>>

(* The stack grows down from address 0, the reset value of SP.             *)
LiveStack(p) == IF p = 0 THEN {} ELSE p .. HalfSize - 1

Context ==
  [pc |-> pc, sp |-> sp, ac |-> ac, psr |-> psr,
   device |-> serialSelected, mask |-> mask,
   stack |-> [a \in LiveStack(sp) |-> mem[a]]]

IInit == Init /\ suspended = << >>

Suspend ==
  EnterInterrupt /\ suspended' = Append(suspended, Context)

Resume ==
  /\ suspended # << >>
  /\ \E b \in Ticked : InterruptReturn(Decode[mem[pc]], b)
  /\ suspended' = SubSeq(suspended, 1, Len(suspended) - 1)

Continue ==
  /\ \/ DecodeFails
     \/ StepHalted
     \/ \E b \in Ticked : /\ Execute(Decode[mem[pc]], b)
                          /\ Decode[mem[pc]].op # "IRET" \/ suspended = << >>
  /\ UNCHANGED suspended

IStep == Suspend \/ Resume \/ Continue

IEnvironment ==
  /\ Len(suspended) < MaxDepth
  /\ \/ \E k \in Kind, v \in Byte : PushInput(k, v)
     \/ ForceInterrupt(TRUE)
  /\ UNCHANGED suspended

IClear == ForceInterrupt(FALSE) /\ UNCHANGED suspended

IReset == Reset /\ suspended' = << >>

INext == IStep \/ IEnvironment \/ IClear \/ IReset

ISpec == IInit /\ [][INext]_ivars

(* A host that does not reset, and keeps stepping the processor.           *)
IRunSpec ==
  IInit /\ [][IStep \/ IEnvironment \/ IClear]_ivars /\ WF_ivars(IStep)

-----------------------------------------------------------------------------
Top == suspended[Len(suspended)]

(* Every suspended computation still finds its return frame and its whole  *)
(* stack untouched, however deep the handlers nest (ABI 18: an interrupt   *)
(* may occur while any frame is active without changing its stack).        *)
FramesIntact ==
  \A n \in 1 .. Len(suspended) :
    LET c == suspended[n]
    IN  /\ mem[WrapAddr(c.sp, -1)] = PackPsr(c.psr)
        /\ mem[WrapAddr(c.sp, -2)] = c.pc
        /\ \A a \in DOMAIN c.stack : mem[a] = c.stack[a]

(* What the ABI asks of a program, step by step: an entry finds room on    *)
(* the stack (ABI 24); a handler takes nothing from the stack that it did  *)
(* not push and overwrites nothing there; its IRET finds SP at the two     *)
(* words of the entry, and what else it used as it was (ABI 19).           *)
StackDepth(p) == (HalfSize - p) % HalfSize

Reserved  == IF suspended = << >> THEN 0 ELSE StackDepth(Top.sp) + 2
Untouched == IF suspended = << >> THEN {} ELSE LiveStack(WrapAddr(Top.sp, -2))

KeepsAbi ==
  /\ Len(suspended') > Len(suspended) => StackDepth(sp) < StackDepth(sp')
  /\ suspended' = suspended =>
       Reserved <= StackDepth(sp') /\ \A a \in Untouched : mem'[a] = mem[a]
  /\ Resume =>
       /\ sp = WrapAddr(Top.sp, -2)
       /\ ac = Top.ac /\ serialSelected = Top.device /\ mask = Top.mask

(* Handlers written after the ABI's patterns keep it wherever they are     *)
(* entered, also when they interrupt one another (ABI 19.2).               *)
AbiKept == [][KeepsAbi]_ivars

(* The IRET that ends a handler hands the interrupted computation exactly  *)
(* the PC, SP, AC, PSR, I/O selection, mask and stack it was suspended     *)
(* with (ABI 18 and 19).                                                   *)
Transparent ==
  [][Resume =>
       LET c == Top
       IN  /\ pc' = c.pc /\ sp' = c.sp /\ ac' = c.ac /\ psr' = c.psr
           /\ serialSelected' = c.device /\ mask' = c.mask
           /\ \A a \in DOMAIN c.stack : mem'[a] = c.stack[a]]_ivars

(* An entry is never followed by another entry before the handler has      *)
(* executed an instruction of its own, even while the source stays         *)
(* asserted: a handler is re-entered only after its own ION or its IRET    *)
(* (ISA 22.2, 22.3).                                                       *)
NoReentry == [][Suspend => outcome # "interrupted"]_ivars

(* Once the host has stopped asserting sources, every suspended            *)
(* computation is resumed and the program stops at its own HLT, not at a   *)
(* word that is no instruction.                                            *)
Quiet == ~ bus.forced /\ ~ SourcePending(bus, mask)

StoppedAtHlt ==
  LET i == Decode[mem[WrapAddr(pc, -1)]]
  IN  halted /\ suspended = << >> /\ i # Illegal /\ i.op = "HLT"

CompletesWhenQuiet == (<>[]Quiet) => <>StoppedAtHlt
=============================================================================
