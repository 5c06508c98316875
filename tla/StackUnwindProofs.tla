-------------------------- MODULE StackUnwindProofs ---------------------------
(***************************************************************************)
(* The unwinding loop for every linked program, every memory and every     *)
(* depth: it shows no frame twice, every frame is the caller of the one    *)
(* before, it ends, and it warns exactly when the frames do not reach the  *)
(* startup code or a frame cannot be right.                                *)
(***************************************************************************)
EXTENDS StackUnwind, ValueProofs

Cursors == {Cursor(Linked, pc, sp) : pc \in DOMAIN Linked.instructions, sp \in Address}
Keys    == {Key(c) : c \in Cursors}
FramesOf == {FrameFound(Linked, m, c) : m \in Memories, c \in Cursors}

Walks == [next : {<< >>} \cup {<<c>> : c \in Cursors}, visited : SUBSET Keys,
          frames : Seq(FramesOf), warned : BOOLEAN]

KeyOf(frame) == <<frame.f, frame.base>>

(* A cursor or frame is the caller of a frame: where its return address    *)
(* points to, with SP just above it.                                       *)
Follows(c, frame) ==
  LET s == ReturnSlot(frame)
  IN  c.pc = Low(s.raw) /\ c.sp = WrapAddr(s.address, 1)

(* FramesDistinct is not inductive by itself: the frame that is added must *)
(* be new.  It is, because every frame shown is among the visited ones and *)
(* the next one is not.  CallersFollow needs that the next one is already  *)
(* the caller of the last frame shown.                                     *)
UInv ==
  /\ memory \in Memories
  /\ walk \in Walks
  /\ \A k \in DOMAIN walk.frames : KeyOf(walk.frames[k]) \in walk.visited
  /\ walk.next # << >> => Key(walk.next[1]) \notin walk.visited
  /\ FramesDistinct
  /\ walk.next # << >> /\ walk.frames # << >> =>
       Follows(walk.next[1], walk.frames[Len(walk.frames)])
  /\ CallersFollow
  /\ EndsAtStartup

-----------------------------------------------------------------------------
(* An address and an offset make an address.                               *)
LEMMA OffsetAddress ==
  ASSUME NEW a \in Address, NEW n \in Int
  PROVE  WrapAddr(a, n) \in Address
  BY SizeFacts DEF WrapAddr, Address

(* A cursor has a function of the program and a base that is an address.   *)
LEMMA CursorFields ==
  ASSUME NEW c \in Cursors
  PROVE  /\ c.f \in DOMAIN Linked.functions
         /\ c.base \in Address
<1>1. PICK pc \in DOMAIN Linked.instructions, sp \in Address : c = Cursor(Linked, pc, sp)
  BY DEF Cursors
<1>2. /\ Linked.instructions[pc].delta \in Int
      /\ Linked.instructions[pc].f \in DOMAIN Linked.functions
  BY LinkedAssumption
<1>3. WrapAddr(sp, Linked.instructions[pc].delta) \in Address
  BY <1>2, OffsetAddress
<1> QED BY <1>1, <1>2, <1>3 DEF Cursor

(* The caller of a cursor is a cursor, if its address has a context.       *)
LEMMA CallerIsCursor ==
  ASSUME NEW c \in Cursors, NEW m,
         ReturnTarget(Linked, m, c) \in DOMAIN Linked.instructions
  PROVE  Caller(Linked, m, c) \in Cursors
<1> DEFINE size == Linked.functions[c.f].frame.size
<1>1. c.base \in Address /\ size \in Nat
  BY CursorFields, LinkedAssumption
<1>2. size + 1 \in Int
  BY <1>1
<1> HIDE DEF size
<1>3. WrapAddr(c.base, size + 1) \in Address
  BY <1>1, <1>2, OffsetAddress
<1>4. Caller(Linked, m, c) =
        Cursor(Linked, ReturnTarget(Linked, m, c), WrapAddr(c.base, size + 1))
  BY DEF Caller, FrameOfCursor, size
<1> QED BY <1>3, <1>4 DEF Cursors

-----------------------------------------------------------------------------
(* A cursor that was not visited is added to walk w.                       *)
Fresh(w, c) ==
  /\ w \in Walks
  /\ w.next = <<c>> /\ c \in Cursors
  /\ \A k \in DOMAIN w.frames : KeyOf(w.frames[k]) \in w.visited
  /\ Key(c) \notin w.visited
  /\ \A j, k \in DOMAIN w.frames : KeyOf(w.frames[j]) = KeyOf(w.frames[k]) => j = k

(* Found adds one frame, that of the cursor, and marks it visited.         *)
LEMMA FoundFields ==
  ASSUME NEW w, NEW c, Fresh(w, c), NEW m \in Memories
  PROVE  LET found == Found(Linked, m, w)
         IN  /\ found \in Walks
             /\ found.visited = w.visited \cup {Key(c)}
             /\ found.frames = Append(w.frames, FrameFound(Linked, m, c))
<1> DEFINE frame   == FrameFound(Linked, m, c)
           visited == w.visited \cup {Key(c)}
           warned  == w.warned \/ MetadataWrong(FrameOfCursor(Linked, c),
                                                Linked.instructions[c.pc])
<1>1. w.next[1] = c /\ w \in Walks
  BY DEF Fresh
<1>2. frame \in FramesOf /\ Key(c) \in Keys
  BY DEF Fresh, FramesOf, Keys
<1>3. Append(w.frames, frame) \in Seq(FramesOf)
  BY <1>2, AppendProperties DEF Fresh, Walks
<1>4. visited \in SUBSET Keys /\ warned \in BOOLEAN
  BY <1>1, <1>2 DEF Walks
<1>5. Found(Linked, m, w) = [w EXCEPT !.visited = visited, !.warned = warned,
                                      !.frames = Append(w.frames, frame)]
  BY <1>1 DEF Found, Walks
<1> HIDE DEF frame, visited, warned
<1>6. Found(Linked, m, w) =
        [next |-> w.next, visited |-> visited, frames |-> Append(w.frames, frame),
         warned |-> warned]
  BY <1>1, <1>5 DEF Walks
<1>7. Found(Linked, m, w) \in Walks
  BY <1>1, <1>3, <1>4, <1>6 DEF Walks
<1>8. /\ Found(Linked, m, w).visited = visited
      /\ Found(Linked, m, w).frames = Append(w.frames, frame)
  BY <1>6
<1> QED BY <1>7, <1>8 DEF visited, frame

(* The frames with one more, none of them twice.                           *)
LEMMA FoundDistinct ==
  ASSUME NEW w, NEW c, Fresh(w, c), NEW m \in Memories
  PROVE  LET found == Found(Linked, m, w)
         IN  /\ \A k \in DOMAIN found.frames : KeyOf(found.frames[k]) \in found.visited
             /\ \A j, k \in DOMAIN found.frames :
                  KeyOf(found.frames[j]) = KeyOf(found.frames[k]) => j = k
<1> DEFINE found == Found(Linked, m, w)
           frame == FrameFound(Linked, m, c)
<1>1. /\ found.visited = w.visited \cup {Key(c)}
      /\ found.frames = Append(w.frames, frame)
  BY FoundFields
<1>2. KeyOf(frame) = Key(c)
  BY DEF KeyOf, Key, FrameFound
<1>3. w.frames \in Seq(FramesOf) /\ frame \in FramesOf
  BY DEF Fresh, Walks, FramesOf
<1>4. /\ \A k \in DOMAIN w.frames : KeyOf(w.frames[k]) \in w.visited
      /\ Key(c) \notin w.visited
      /\ \A j, k \in DOMAIN w.frames : KeyOf(w.frames[j]) = KeyOf(w.frames[k]) => j = k
  BY DEF Fresh
<1> HIDE DEF found, frame
<1>5. /\ Len(w.frames) \in Nat /\ DOMAIN w.frames = 1 .. Len(w.frames)
      /\ DOMAIN found.frames = 1 .. Len(w.frames) + 1
      /\ \A k \in 1 .. Len(w.frames) : found.frames[k] = w.frames[k]
      /\ found.frames[Len(w.frames) + 1] = frame
  BY <1>1, <1>3, LenProperties, AppendProperties
<1>6. ASSUME NEW k \in DOMAIN found.frames
      PROVE  \/ k \in DOMAIN w.frames /\ found.frames[k] = w.frames[k]
             \/ k = Len(w.frames) + 1 /\ found.frames[k] = frame
  BY <1>5
<1>7. \A k \in DOMAIN found.frames : KeyOf(found.frames[k]) \in found.visited
  BY <1>1, <1>2, <1>4, <1>6
<1>8. ASSUME NEW j \in DOMAIN found.frames, NEW k \in DOMAIN found.frames,
             KeyOf(found.frames[j]) = KeyOf(found.frames[k])
      PROVE  j = k
  BY <1>8, <1>2, <1>4, <1>6
<1> QED BY <1>7, <1>8 DEF found

(* One iteration keeps the frames apart.                                   *)
LEMMA StepKeeps ==
  ASSUME NEW w, NEW c, Fresh(w, c), NEW m \in Memories, NEW depth
  PROVE  LET v == UnwindStep(Linked, m, depth, w)
         IN  /\ v \in Walks
             /\ v.frames = Found(Linked, m, w).frames
             /\ v.visited = Found(Linked, m, w).visited
             /\ v.next # << >> => Key(v.next[1]) \notin v.visited
<1> DEFINE found  == Found(Linked, m, w)
           target == ReturnTarget(Linked, m, c)
           caller == Caller(Linked, m, c)
           v      == UnwindStep(Linked, m, depth, w)
<1>1. found \in Walks
  BY FoundFields
<1>2. w.next[1] = c /\ c \in Cursors
  BY DEF Fresh
<1>3. \/ \E warning \in BOOLEAN : v = Stop(found, warning)
      \/ /\ target \in DOMAIN Linked.instructions
         /\ Key(caller) \notin found.visited
         /\ v = [found EXCEPT !.next = <<caller>>]
  BY <1>2 DEF UnwindStep
<1>4. target \in DOMAIN Linked.instructions => caller \in Cursors
  BY <1>2, CallerIsCursor
<1> HIDE DEF found, target, caller, v
<1>5. CASE \E warning \in BOOLEAN : v = Stop(found, warning)
  <2>1. PICK warning \in BOOLEAN : v = Stop(found, warning)
    BY <1>5
  <2>2. v = [found EXCEPT !.next = << >>, !.warned = found.warned \/ warning]
    BY <2>1, <1>1 DEF Stop, Walks
  <2>3. /\ v \in Walks /\ v.frames = found.frames /\ v.visited = found.visited
        /\ v.next = << >>
    BY <2>2, <1>1 DEF Walks
  <2> QED BY <2>3 DEF v, found
<1>6. CASE /\ target \in DOMAIN Linked.instructions
           /\ Key(caller) \notin found.visited
           /\ v = [found EXCEPT !.next = <<caller>>]
  <2>1. <<caller>> \in {<<d>> : d \in Cursors}
    BY <1>4, <1>6
  <2>2. /\ v \in Walks /\ v.frames = found.frames /\ v.visited = found.visited
        /\ v.next = <<caller>>
    BY <2>1, <1>1, <1>6 DEF Walks
  <2>3. v.next[1] = caller
    BY <2>2
  <2> QED BY <2>2, <2>3, <1>6 DEF v, found
<1> QED BY <1>3, <1>5, <1>6

-----------------------------------------------------------------------------
(* The slots of a frame.                                                   *)

(* A function on 1 .. n is a list.                                         *)
LEMMA ListOf ==
  ASSUME NEW S, NEW n \in Nat, NEW s \in [1 .. n -> S]
  PROVE  s \in Seq(S)
  BY SeqDef

(* The elements of two lists, one after the other.                         *)
LEMMA ConcatElements ==
  ASSUME NEW S, NEW s \in Seq(S), NEW t \in Seq(S)
  PROVE  /\ s \o t \in Seq(S)
         /\ ToSet(s \o t) = ToSet(s) \cup ToSet(t)
<1> DEFINE all == s \o t
<1>1. /\ all \in Seq(S) /\ Len(all) = Len(s) + Len(t)
      /\ \A i \in 1 .. Len(s) + Len(t) :
           all[i] = IF i <= Len(s) THEN s[i] ELSE t[i - Len(s)]
  BY ConcatProperties
<1> HIDE DEF all
<1>2. /\ Len(s) \in Nat /\ Len(t) \in Nat
      /\ DOMAIN s = 1 .. Len(s) /\ DOMAIN t = 1 .. Len(t)
      /\ DOMAIN all = 1 .. Len(s) + Len(t)
  BY <1>1, LenProperties
<1>3. ASSUME NEW i \in DOMAIN all
      PROVE  all[i] \in ToSet(s) \cup ToSet(t)
  <2>1. CASE i <= Len(s)
    BY <1>1, <1>2, <2>1 DEF ToSet
  <2>2. CASE i > Len(s)
    <3>1. i - Len(s) \in DOMAIN t /\ all[i] = t[i - Len(s)]
      BY <1>1, <1>2, <2>2
    <3> QED BY <3>1 DEF ToSet
  <2> QED BY <1>2, <2>1, <2>2
<1>4. /\ \A i \in DOMAIN s : i \in DOMAIN all /\ all[i] = s[i]
      /\ \A i \in DOMAIN t : Len(s) + i \in DOMAIN all /\ all[Len(s) + i] = t[i]
  BY <1>1, <1>2
<1>5. ToSet(all) = ToSet(s) \cup ToSet(t)
  <2>1. ToSet(s) \cup ToSet(t) \subseteq ToSet(all)
    BY <1>4 DEF ToSet
  <2>2. ToSet(all) \subseteq ToSet(s) \cup ToSet(t)
    BY <1>3 DEF ToSet
  <2> QED BY <2>1, <2>2
<1> QED BY <1>1, <1>5 DEF all

(* One element among others.                                               *)
LEMMA AroundElements ==
  ASSUME NEW S, NEW s \in Seq(S), NEW x \in S, NEW t \in Seq(S)
  PROVE  /\ s \o <<x>> \o t \in Seq(S)
         /\ ToSet(s \o <<x>> \o t) = ToSet(s) \cup {x} \cup ToSet(t)
<1> DEFINE one == <<x>>
           front == s \o one
<1>1. one \in Seq(S) /\ ToSet(one) = {x}
  BY DEF ToSet
<1> HIDE DEF one
<1>2. front \in Seq(S) /\ ToSet(front) = ToSet(s) \cup {x}
  BY <1>1, ConcatElements
<1> HIDE DEF front
<1>3. /\ front \o t \in Seq(S) /\ ToSet(front \o t) = ToSet(front) \cup ToSet(t)
  BY <1>2, ConcatElements
<1> QED BY <1>2, <1>3 DEF front, one

(* The one slot of a frame that holds a return address is the one above    *)
(* the frame.                                                              *)
LEMMA ReturnSlotOfFrame ==
  ASSUME NEW c \in Cursors, NEW m
  PROVE  LET s == ReturnSlot(FrameFound(Linked, m, c))
             size == Linked.functions[c.f].frame.size
         IN  /\ s.raw = m[WrapAddr(c.base, size)]
             /\ s.address = WrapAddr(c.base, size)
<1> DEFINE frame == Linked.functions[c.f].frame
           i == Linked.instructions[c.pc]
           params == [n \in DOMAIN frame.params |->
             Slot("parameter", n - 1, frame.params[n], c.base, m, "value")]
           x == Slot("returnAddress", 0, frame.returnOffset, c.base, m, "control")
           locals == [n \in DOMAIN frame.locals |->
             Slot("local", n - 1, frame.locals[n], c.base, m, FixedStorage(i))]
           temps == [n \in 1 .. frame.temps |->
             Slot("temporary", n - 1, frame.temporaries[n], c.base, m, TemporaryStatus(i, n - 1))]
           dynamic == [n \in DOMAIN i.dynamic |->
             Slot("dynamic", i.dynamic[n].index, i.dynamic[n].offset, c.base, m, "value")]
           others == ToSet(params) \cup ToSet(locals) \cup ToSet(temps) \cup ToSet(dynamic)
           S == others \cup {x}
           slots == params \o <<x>> \o locals \o temps \o dynamic
<1>1. /\ c.f \in DOMAIN Linked.functions /\ c.pc \in DOMAIN Linked.instructions
  BY CursorFields DEF Cursors, Cursor
<1>2. /\ frame.returnOffset = frame.size
      /\ frame.params \in Seq(Int) /\ frame.locals \in Seq(Int)
      /\ frame.temporaries \in Seq(Int) /\ frame.temps = Len(frame.temporaries)
      /\ Len(i.dynamic) \in Nat /\ DOMAIN i.dynamic = 1 .. Len(i.dynamic)
  BY <1>1, FrameAssumption
<1>3. FrameFound(Linked, m, c).slots = slots
  BY DEF FrameFound, FrameOfCursor, Slots
<1>4. \A s \in others : s.kind # "returnAddress"
  <2>1. /\ \A n \in DOMAIN params  : params[n].kind = "parameter"
        /\ \A n \in DOMAIN locals  : locals[n].kind = "local"
        /\ \A n \in DOMAIN temps   : temps[n].kind = "temporary"
        /\ \A n \in DOMAIN dynamic : dynamic[n].kind = "dynamic"
    BY DEF Slot
  <2> HIDE DEF params, locals, temps, dynamic
  <2> QED BY <2>1 DEF ToSet
<1>5. /\ x.kind = "returnAddress"
      /\ x.address = WrapAddr(c.base, frame.returnOffset)
      /\ x.raw = m[WrapAddr(c.base, frame.returnOffset)]
  BY DEF Slot
<1>6. /\ Len(frame.params) \in Nat /\ DOMAIN frame.params = 1 .. Len(frame.params)
      /\ Len(frame.locals) \in Nat /\ DOMAIN frame.locals = 1 .. Len(frame.locals)
      /\ Len(frame.temporaries) \in Nat
  BY <1>2, LenProperties
<1>7. /\ params \in [1 .. Len(frame.params) -> ToSet(params)]
      /\ locals \in [1 .. Len(frame.locals) -> ToSet(locals)]
      /\ temps \in [1 .. frame.temps -> ToSet(temps)]
      /\ dynamic \in [1 .. Len(i.dynamic) -> ToSet(dynamic)]
  BY <1>2, <1>6 DEF ToSet
<1> HIDE DEF x, params, locals, temps, dynamic, frame
<1>8. /\ params \in Seq(S) /\ locals \in Seq(S) /\ temps \in Seq(S) /\ dynamic \in Seq(S)
  <2>1. /\ ToSet(params) \subseteq S /\ ToSet(locals) \subseteq S
        /\ ToSet(temps) \subseteq S /\ ToSet(dynamic) \subseteq S
    OBVIOUS
  <2> HIDE DEF S
  <2>2. /\ params \in [1 .. Len(frame.params) -> S]
        /\ locals \in [1 .. Len(frame.locals) -> S]
        /\ temps \in [1 .. Len(frame.temporaries) -> S]
        /\ dynamic \in [1 .. Len(i.dynamic) -> S]
    BY <1>2, <1>7, <2>1
  <2> HIDE DEF i
  <2> QED BY <1>2, <1>6, <2>2, ListOf
<1> DEFINE front == params \o <<x>> \o locals
<1>9. /\ front \in Seq(S)
      /\ ToSet(front) = ToSet(params) \cup {x} \cup ToSet(locals)
  BY <1>8, AroundElements
<1> HIDE DEF front
<1> DEFINE middle == front \o temps
<1>10. middle \in Seq(S) /\ ToSet(middle) = ToSet(front) \cup ToSet(temps)
  BY <1>8, <1>9, ConcatElements
<1> HIDE DEF middle
<1>11. ToSet(middle \o dynamic) = ToSet(middle) \cup ToSet(dynamic)
  BY <1>8, <1>10, ConcatElements
<1>12. ToSet(slots) = S
  BY <1>9, <1>10, <1>11 DEF middle, front
<1> HIDE DEF others, slots
<1>13. \A s \in ToSet(slots) : s.kind = "returnAddress" <=> s = x
  BY <1>4, <1>5, <1>12
<1>14. x \in ToSet(slots)
  BY <1>12
<1>15. ReturnSlot(FrameFound(Linked, m, c)) = x
  BY <1>3, <1>13, <1>14 DEF ReturnSlot
<1> QED BY <1>2, <1>5, <1>15 DEF frame

-----------------------------------------------------------------------------
(* Where an iteration goes: to the caller of the frame it showed, or       *)
(* nowhere, and then with a warning unless the caller is the startup code. *)
LEMMA StepOutcome ==
  ASSUME NEW w, NEW c, Fresh(w, c), NEW m \in Memories, NEW depth
  PROVE  LET v == UnwindStep(Linked, m, depth, w)
             frame == FrameFound(Linked, m, c)
         IN  /\ v.next # << >> => Follows(v.next[1], frame)
             /\ v.next = << >> /\ ~ v.warned =>
                  IsStartup(Linked, Low(ReturnSlot(frame).raw))
<1> DEFINE found  == Found(Linked, m, w)
           size   == Linked.functions[c.f].frame.size
           slot   == ReturnSlot(FrameFound(Linked, m, c))
           target == ReturnTarget(Linked, m, c)
           caller == Caller(Linked, m, c)
           v      == UnwindStep(Linked, m, depth, w)
<1>1. w.next[1] = c /\ c \in Cursors /\ found \in Walks
  BY FoundFields DEF Fresh
<1>2. /\ size \in Nat /\ c.base \in Address /\ c.base \in Int
      /\ Linked.functions[c.f].frame.returnOffset = size
  BY <1>1, CursorFields, LinkedAssumption, FrameAssumption, SizeFacts DEF Address
<1>3. slot.raw = m[WrapAddr(c.base, size)] /\ slot.address = WrapAddr(c.base, size)
  BY <1>1, ReturnSlotOfFrame
<1>4. target = Low(slot.raw)
  BY <1>2, <1>3 DEF ReturnTarget, FrameOfCursor
<1>5. Follows(caller, FrameFound(Linked, m, c))
  <2>1. /\ caller.pc = target /\ caller.sp = WrapAddr(c.base, size + 1)
    BY DEF Caller, Cursor, FrameOfCursor
  <2>2. WrapAddr(WrapAddr(c.base, size), 1) = WrapAddr(c.base, size + 1)
    <3>1. c.base \in Int /\ size \in Int /\ 1 \in Int
      BY <1>2
    <3> HIDE DEF size
    <3> QED BY <3>1, WrapTwice
  <2> QED BY <1>3, <1>4, <2>1, <2>2 DEF Follows
<1>6. \/ v = Stop(found, Classify(Linked, target, "none") # "startup")
      \/ v = Stop(found, TRUE)
      \/ v = [found EXCEPT !.next = <<caller>>]
  BY <1>1 DEF UnwindStep
<1> HIDE DEF found, target, caller, v, slot
<1>7. CASE v = Stop(found, Classify(Linked, target, "none") # "startup")
  <2> DEFINE warning == Classify(Linked, target, "none") # "startup"
  <2>1. v.next = << >> /\ v.warned = (found.warned \/ warning)
    BY <1>1, <1>7 DEF Stop, Walks
  <2>2. ~ v.warned => Classify(Linked, target, "none") = "startup"
    BY <2>1
  <2>3. Classify(Linked, target, "none") = "startup" => IsStartup(Linked, target)
    BY DEF Classify
  <2> QED BY <1>4, <2>1, <2>2, <2>3 DEF v, slot
<1>8. CASE v = Stop(found, TRUE)
  <2>1. v.next = << >> /\ v.warned = (found.warned \/ TRUE)
    BY <1>1, <1>8 DEF Stop, Walks
  <2> QED BY <2>1 DEF v
<1>9. CASE v = [found EXCEPT !.next = <<caller>>]
  <2>1. v.next = <<caller>>
    BY <1>1, <1>9 DEF Walks
  <2>2. v.next # << >> /\ v.next[1] = caller
    BY <2>1
  <2> QED BY <1>5, <2>2 DEF v
<1> QED BY <1>6, <1>7, <1>8, <1>9

-----------------------------------------------------------------------------
LEMMA UInvInit == UnwindInit => UInv
<1> SUFFICES ASSUME UnwindInit PROVE UInv
  OBVIOUS
<1>1. PICK pc \in DOMAIN Linked.instructions : walk = UnwindStart(Linked, pc, 0)
  BY DEF UnwindInit
<1> DEFINE c == Cursor(Linked, pc, 0)
<1>2. c \in Cursors
  BY SizeFacts DEF Cursors, Address
<1> HIDE DEF c
<1>3. walk = [next |-> <<c>>, visited |-> {}, frames |-> << >>, warned |-> FALSE]
  BY <1>1 DEF UnwindStart, c
<1>4. << >> \in Seq(FramesOf) /\ DOMAIN << >> = {}
  BY EmptySeq
<1>5. walk \in Walks
  BY <1>2, <1>3, <1>4 DEF Walks
<1>6. memory \in Memories
  BY DEF UnwindInit
<1>7. walk.next # << >>
  BY <1>3
<1> QED BY <1>3, <1>4, <1>5, <1>6, <1>7
   DEF UInv, FramesDistinct, CallersFollow, EndsAtStartup

LEMMA UInvNext == UInv /\ [Iterate]_unwindVars => UInv'
<1> SUFFICES ASSUME UInv, [Iterate]_unwindVars PROVE UInv'
  OBVIOUS
<1>1. CASE Iterate
  <2>1. PICK c \in Cursors : walk.next = <<c>>
    BY <1>1 DEF Iterate, UInv, Walks
  <2>2. Fresh(walk, c)
    BY <2>1 DEF UInv, Fresh, FramesDistinct, KeyOf
  <2>3. memory \in Memories /\ memory' = memory
    BY <1>1 DEF UInv, Iterate
  <2>4. walk' = UnwindStep(Linked, memory, Depth(request), walk)
    BY <1>1 DEF Iterate
  <2>5. /\ walk' \in Walks
        /\ walk'.next # << >> => Key(walk'.next[1]) \notin walk'.visited
        /\ walk'.frames = Found(Linked, memory, walk).frames
        /\ walk'.visited = Found(Linked, memory, walk).visited
    BY <2>2, <2>3, <2>4, StepKeeps
  <2>6. /\ \A k \in DOMAIN walk'.frames : KeyOf(walk'.frames[k]) \in walk'.visited
        /\ \A j, k \in DOMAIN walk'.frames :
             KeyOf(walk'.frames[j]) = KeyOf(walk'.frames[k]) => j = k
    BY <2>2, <2>3, <2>5, FoundDistinct
  <2>7. FramesDistinct'
    BY <2>6 DEF FramesDistinct, KeyOf
  <2> DEFINE frame == FrameFound(Linked, memory, c)
             last  == Len(walk.frames) + 1
  <2>8. walk'.frames = Append(walk.frames, frame)
    BY <2>2, <2>3, <2>5, FoundFields
  <2>9. /\ Len(walk.frames) \in Nat /\ DOMAIN walk.frames = 1 .. Len(walk.frames)
        /\ Len(walk'.frames) = last /\ DOMAIN walk'.frames = 1 .. last
        /\ \A k \in 1 .. Len(walk.frames) : walk'.frames[k] = walk.frames[k]
        /\ walk'.frames[last] = frame
    <3>1. walk.frames \in Seq(FramesOf) /\ frame \in FramesOf
      BY <2>3 DEF UInv, Walks, FramesOf
    <3> HIDE DEF frame
    <3> QED BY <2>8, <3>1, LenProperties, AppendProperties
  <2>10. /\ walk'.next # << >> => Follows(walk'.next[1], frame)
         /\ walk'.next = << >> /\ ~ walk'.warned =>
              IsStartup(Linked, Low(ReturnSlot(frame).raw))
    BY <2>2, <2>3, <2>4, StepOutcome
  <2>11. frame.pc = c.pc /\ frame.sp = c.sp
    BY DEF FrameFound
  <2> HIDE DEF frame
  <2>12. CallersFollow'
    <3> SUFFICES ASSUME NEW k \in DOMAIN walk'.frames \ {1}
                 PROVE  Follows(walk'.frames[k], walk'.frames[k - 1])
      BY DEF CallersFollow, Follows
    <3>1. k \in 2 .. last /\ k - 1 \in 1 .. Len(walk.frames)
      BY <2>9
    <3>2. walk'.frames[k - 1] = walk.frames[k - 1]
      BY <2>9, <3>1
    <3>3. CASE k = last
      <4>1. walk.frames # << >> /\ walk.next # << >> /\ walk.next[1] = c
        BY <2>1, <2>9, <3>1
      <4>2. Follows(c, walk.frames[k - 1])
        BY <2>9, <3>3, <4>1 DEF UInv
      <4> QED BY <2>9, <2>11, <3>2, <3>3, <4>2 DEF Follows
    <3>4. CASE k # last
      <4>1. k \in DOMAIN walk.frames \ {1} /\ walk'.frames[k] = walk.frames[k]
        BY <2>9, <3>1, <3>4
      <4> QED BY <3>2, <4>1 DEF UInv, CallersFollow, Follows
    <3> QED BY <3>3, <3>4
  <2>13. EndsAtStartup'
    BY <2>9, <2>10 DEF EndsAtStartup
  <2>14. walk'.next # << >> => Follows(walk'.next[1], walk'.frames[Len(walk'.frames)])
    BY <2>9, <2>10
  <2> QED BY <2>3, <2>5, <2>6, <2>7, <2>12, <2>13, <2>14 DEF UInv
<1>2. CASE UNCHANGED unwindVars
  BY <1>2 DEF UInv, FramesDistinct, CallersFollow, EndsAtStartup, unwindVars
<1> QED BY <1>1, <1>2

(* Whatever the program wrote where return addresses should be, the view   *)
(* shows no frame twice (stack_view.rs:248 and 289).                       *)
THEOREM FramesAreDistinct == UnwindSpec => []FramesDistinct
<1>1. UInv => FramesDistinct
  BY DEF UInv
<1> QED BY UInvInit, UInvNext, <1>1, PTL DEF UnwindSpec

(* Each frame is the caller of the one before: stopped where the return    *)
(* address shown there points to, with SP just above it, also where the    *)
(* addresses wrap.                                                         *)
THEOREM CallersFollowAlways == UnwindSpec => []CallersFollow
<1>1. UInv => CallersFollow
  BY DEF UInv
<1> QED BY UInvInit, UInvNext, <1>1, PTL DEF UnwindSpec

(* A view that ends without a warning is whole: the function shown last    *)
(* returns to the startup code (stack_view.rs:272-287).                    *)
THEOREM EndsAtStartupAlways == UnwindSpec => []EndsAtStartup
<1>1. UInv => EndsAtStartup
  BY DEF UInv
<1> QED BY UInvInit, UInvNext, <1>1, PTL DEF UnwindSpec

-----------------------------------------------------------------------------
(* Every iteration shows one more frame, and goes on only below the depth  *)
(* asked for: what Terminates rests on.                                    *)
WithinDepth ==
  /\ request \in Requests
  /\ Len(walk.frames) <= Depth(request)
  /\ walk.next # << >> => Len(walk.frames) < Depth(request)

LEMMA DepthBounds ==
  ASSUME NEW r \in Requests
  PROVE  Depth(r) \in Nat /\ 0 < Depth(r) /\ Depth(r) <= MaxUnwindDepth
  BY RequestAssumption DEF Depth, MaxUnwindDepth

LEMMA WithinDepthInit == UnwindInit => WithinDepth
<1> SUFFICES ASSUME UnwindInit PROVE WithinDepth
  OBVIOUS
<1>1. request \in Requests /\ walk.frames = << >>
  BY DEF UnwindInit, UnwindStart
<1>2. Depth(request) \in Nat /\ 0 < Depth(request)
  BY <1>1, DepthBounds
<1>3. Len(walk.frames) = 0
  BY <1>1
<1> QED BY <1>1, <1>2, <1>3 DEF WithinDepth

LEMMA WithinDepthNext == UInv /\ WithinDepth /\ [Iterate]_unwindVars => WithinDepth'
<1> SUFFICES ASSUME UInv, WithinDepth, [Iterate]_unwindVars PROVE WithinDepth'
  OBVIOUS
<1>1. CASE Iterate
  <2>1. PICK c \in Cursors : walk.next = <<c>>
    BY <1>1 DEF Iterate, UInv, Walks
  <2>2. Fresh(walk, c) /\ memory \in Memories
    BY <2>1 DEF UInv, Fresh, FramesDistinct, KeyOf
  <2> DEFINE found  == Found(Linked, memory, walk)
             depth  == Depth(request)
             target == ReturnTarget(Linked, memory, walk.next[1])
             caller == Caller(Linked, memory, walk.next[1])
             frame  == FrameFound(Linked, memory, c)
  <2>3. found \in Walks /\ found.frames = Append(walk.frames, frame)
    BY <2>2, FoundFields
  <2>4. Len(walk.frames) \in Nat /\ Len(found.frames) = Len(walk.frames) + 1
    <3>1. walk.frames \in Seq(FramesOf) /\ frame \in FramesOf
      BY <2>2 DEF UInv, Walks, FramesOf
    <3> HIDE DEF found, frame
    <3> QED BY <2>3, <3>1, LenProperties, AppendProperties
  <2>5. \/ \E warning : walk' = Stop(found, warning)
        \/ walk' = [found EXCEPT !.next = <<caller>>] /\ ~ Len(found.frames) >= depth
    BY <1>1 DEF Iterate, UnwindStep
  <2>6. walk.next # << >> /\ request' = request
    BY <1>1 DEF Iterate
  <2>7. depth \in Nat
    BY DepthBounds DEF WithinDepth
  <2> HIDE DEF found, caller, depth
  <2>8. CASE \E warning : walk' = Stop(found, warning)
    <3>1. walk'.next = << >> /\ walk'.frames = found.frames
      BY <2>3, <2>8 DEF Stop, Walks
    <3> QED BY <2>4, <2>6, <2>7, <3>1 DEF WithinDepth, depth
  <2>9. CASE walk' = [found EXCEPT !.next = <<caller>>] /\ ~ Len(found.frames) >= depth
    <3>1. walk'.frames = found.frames
      BY <2>3, <2>9 DEF Walks
    <3> QED BY <2>4, <2>6, <2>7, <2>9, <3>1 DEF WithinDepth, depth
  <2> QED BY <2>5, <2>8, <2>9
<1>2. CASE UNCHANGED unwindVars
  BY <1>2 DEF WithinDepth, unwindVars
<1> QED BY <1>1, <1>2

(* An unwinding shows at most the frames asked for and never more than 256 *)
(* (DEFAULT_MAX_UNWIND_DEPTH), whatever the memory leads it to.            *)
THEOREM UnwindBounded ==
  UnwindSpec => [](WithinDepth /\ Len(walk.frames) <= MaxUnwindDepth)
<1>1. UnwindInit => WithinDepth
  BY WithinDepthInit
<1>2. UInv /\ WithinDepth => Len(walk.frames) <= MaxUnwindDepth
  <2> SUFFICES ASSUME UInv, WithinDepth PROVE Len(walk.frames) <= MaxUnwindDepth
    OBVIOUS
  <2>1. Len(walk.frames) \in Nat
    BY LenProperties DEF UInv, Walks
  <2>2. Depth(request) \in Nat /\ Depth(request) <= MaxUnwindDepth
    BY DepthBounds DEF WithinDepth
  <2> QED BY <2>1, <2>2 DEF WithinDepth, MaxUnwindDepth
<1> QED BY UInvInit, UInvNext, WithinDepthNext, <1>1, <1>2, PTL DEF UnwindSpec

-----------------------------------------------------------------------------
(* An iteration shows one frame more, and only one that a walk within the  *)
(* depth has room for.                                                     *)
LEMMA OneFrameMore ==
  ASSUME UInv, WithinDepth, Iterate
  PROVE  /\ Len(walk.frames) \in Nat /\ Len(walk'.frames) = Len(walk.frames) + 1
         /\ Depth(request) \in Nat /\ Depth(request') = Depth(request)
         /\ Len(walk.frames) < Depth(request) /\ Len(walk'.frames) <= Depth(request)
<1>1. PICK c \in Cursors : walk.next = <<c>>
  BY DEF Iterate, UInv, Walks
<1>2. Fresh(walk, c) /\ memory \in Memories
  BY <1>1 DEF UInv, Fresh, FramesDistinct, KeyOf
<1> DEFINE frame == FrameFound(Linked, memory, c)
<1>3. walk'.frames = Append(walk.frames, frame)
  BY <1>2, StepKeeps, FoundFields DEF Iterate
<1>4. walk.frames \in Seq(FramesOf) /\ frame \in FramesOf
  BY <1>2 DEF UInv, Walks, FramesOf
<1> HIDE DEF frame
<1>5. Len(walk.frames) \in Nat /\ Len(walk'.frames) = Len(walk.frames) + 1
  BY <1>3, <1>4, LenProperties, AppendProperties
<1>6. request' = request /\ walk.next # << >>
  BY DEF Iterate
<1>7. Depth(request) \in Nat /\ Len(walk.frames) < Depth(request)
  BY <1>6, DepthBounds DEF WithinDepth
<1>8. Len(walk'.frames) <= Depth(request)
  BY <1>5, <1>7
<1> QED BY <1>5, <1>6, <1>7, <1>8

(* The unwinder cannot go round for ever: the frames still allowed become  *)
(* fewer with every iteration and their number is never negative, whatever *)
(* cycle the return addresses form (stack_view.rs:231 and 280).            *)
Allowed == Depth(request) - Len(walk.frames)

THEOREM AllowedDecreases ==
  UnwindSpec => [][Allowed' < Allowed /\ Allowed \in Nat /\ Allowed' \in Nat]_unwindVars
<1>1. ASSUME UInv, WithinDepth, [Iterate]_unwindVars
      PROVE  [Allowed' < Allowed /\ Allowed \in Nat /\ Allowed' \in Nat]_unwindVars
  <2>1. ASSUME Iterate
        PROVE  Allowed \in Nat /\ Allowed' \in Nat /\ Allowed' < Allowed
    BY <1>1, <2>1, OneFrameMore DEF Allowed
  <2> QED BY <1>1, <2>1
<1>2. UnwindInit => WithinDepth
  BY WithinDepthInit
<1> QED BY UInvInit, UInvNext, WithinDepthNext, <1>1, <1>2, PTL DEF UnwindSpec

-----------------------------------------------------------------------------
(* Why a view warns.                                                       *)

(* What the frame of a cursor adds to the warnings.                        *)
LEMMA FoundWarned ==
  ASSUME NEW w, NEW c, Fresh(w, c), NEW m \in Memories
  PROVE  Found(Linked, m, w).warned <=> w.warned \/ Defective(FrameFound(Linked, m, c))
<1> DEFINE frame == FrameFound(Linked, m, c)
           wrong == MetadataWrong(FrameOfCursor(Linked, c), Linked.instructions[c.pc])
<1>1. w.next[1] = c /\ w \in Walks
  BY DEF Fresh
<1>2. Found(Linked, m, w).warned = (w.warned \/ wrong)
  BY <1>1 DEF Found, Walks
<1>3. Defective(frame) <=> wrong
  BY DEF Defective, FrameFound, FrameOfCursor
<1> QED BY <1>2, <1>3

(* An iteration warns of the frame it shows and, when it is the last, of   *)
(* every end but the startup code.                                         *)
LEMMA StepWarned ==
  ASSUME NEW w, NEW c, Fresh(w, c), NEW m \in Memories, NEW depth
  PROVE  LET v == UnwindStep(Linked, m, depth, w)
             frame == FrameFound(Linked, m, c)
             target == Low(ReturnSlot(frame).raw)
             wrong == w.warned \/ Defective(frame)
         IN  /\ v.next # << >> => (v.warned <=> wrong)
             /\ v.next = << >> =>
                  (v.warned <=> \/ wrong
                                \/ target \in DOMAIN Linked.instructions
                                \/ Classify(Linked, target, "none") # "startup")
<1> DEFINE found  == Found(Linked, m, w)
           frame  == FrameFound(Linked, m, c)
           wrong  == w.warned \/ Defective(frame)
           target == ReturnTarget(Linked, m, c)
           caller == Caller(Linked, m, c)
           v      == UnwindStep(Linked, m, depth, w)
           strange == Classify(Linked, target, "none") # "startup"
           here    == target \in DOMAIN Linked.instructions
<1>1. w.next[1] = c /\ c \in Cursors /\ found \in Walks
  BY FoundFields DEF Fresh
<1>2. found.warned <=> wrong
  BY FoundWarned
<1>3. target = Low(ReturnSlot(frame).raw)
  <2>1. ReturnSlot(frame).raw = m[WrapAddr(c.base, Linked.functions[c.f].frame.size)]
    BY <1>1, ReturnSlotOfFrame
  <2>2. Linked.functions[c.f].frame.returnOffset = Linked.functions[c.f].frame.size
    BY <1>1, CursorFields, FrameAssumption
  <2> QED BY <2>1, <2>2 DEF ReturnTarget, FrameOfCursor
<1>4. \/ ~ here /\ v = Stop(found, strange)
      \/ here /\ v = Stop(found, TRUE)
      \/ here /\ v = [found EXCEPT !.next = <<caller>>]
  BY <1>1 DEF UnwindStep
<1> HIDE DEF found, frame, wrong, caller, v, target, strange, here
<1>5. CASE ~ here /\ v = Stop(found, strange)
  <2>1. v.next = << >> /\ v.warned = (found.warned \/ strange)
    BY <1>1, <1>5 DEF Stop, Walks
  <2>2. v.next = << >> /\ (v.warned <=> wrong \/ strange \/ here)
    BY <1>2, <1>5, <2>1
  <2> QED BY <1>3, <2>2 DEF v, wrong, frame, target, strange, here
<1>6. CASE here /\ v = Stop(found, TRUE)
  <2>1. v.next = << >> /\ v.warned = (found.warned \/ TRUE)
    BY <1>1, <1>6 DEF Stop, Walks
  <2>2. v.next = << >> /\ v.warned /\ here
    BY <1>6, <2>1
  <2> QED BY <1>3, <2>2 DEF v, wrong, frame, target, strange, here
<1>7. CASE here /\ v = [found EXCEPT !.next = <<caller>>]
  <2>1. v.next = <<caller>> /\ v.warned = found.warned
    BY <1>1, <1>7 DEF Walks
  <2>2. v.next # << >> /\ (v.warned <=> wrong)
    BY <1>2, <2>1
  <2> QED BY <2>2 DEF v, wrong, frame
<1> QED BY <1>4, <1>5, <1>6, <1>7

(* WarnedExactly is about the end; before it, a walk has warned of the     *)
(* frames it has shown and of nothing else.                                *)
WarnedOfFrames ==
  walk.next # << >> =>
    (walk.warned <=> \E k \in DOMAIN walk.frames : Defective(walk.frames[k]))

LEMMA WarnedNext ==
  UInv /\ WarnedOfFrames /\ WarnedExactly /\ [Iterate]_unwindVars
    => WarnedOfFrames' /\ WarnedExactly'
<1> SUFFICES ASSUME UInv, WarnedOfFrames, WarnedExactly, [Iterate]_unwindVars
             PROVE  WarnedOfFrames' /\ WarnedExactly'
  OBVIOUS
<1>1. CASE Iterate
  <2>1. PICK c \in Cursors : walk.next = <<c>>
    BY <1>1 DEF Iterate, UInv, Walks
  <2>2. Fresh(walk, c) /\ memory \in Memories
    BY <2>1 DEF UInv, Fresh, FramesDistinct, KeyOf
  <2> DEFINE frame  == FrameFound(Linked, memory, c)
             last   == Len(walk.frames) + 1
             target == Low(ReturnSlot(frame).raw)
  <2>3. walk' = UnwindStep(Linked, memory, Depth(request), walk)
    BY <1>1 DEF Iterate
  <2>4. walk'.frames = Append(walk.frames, frame)
    BY <2>2, <2>3, StepKeeps, FoundFields
  <2>5. /\ Len(walk.frames) \in Nat /\ DOMAIN walk.frames = 1 .. Len(walk.frames)
        /\ Len(walk'.frames) = last /\ DOMAIN walk'.frames = 1 .. last
        /\ \A k \in 1 .. Len(walk.frames) : walk'.frames[k] = walk.frames[k]
        /\ walk'.frames[last] = frame
    <3>1. walk.frames \in Seq(FramesOf) /\ frame \in FramesOf
      BY <2>2 DEF UInv, Walks, FramesOf
    <3> HIDE DEF frame
    <3> QED BY <2>4, <3>1, LenProperties, AppendProperties
  <2>6. /\ walk'.next # << >> => (walk'.warned <=> walk.warned \/ Defective(frame))
        /\ walk'.next = << >> =>
             (walk'.warned <=> \/ walk.warned \/ Defective(frame)
                               \/ target \in DOMAIN Linked.instructions
                               \/ Classify(Linked, target, "none") # "startup")
    BY <2>2, <2>3, StepWarned
  <2>7. walk.warned <=> \E k \in DOMAIN walk.frames : Defective(walk.frames[k])
    BY <2>1 DEF WarnedOfFrames
  <2> HIDE DEF frame
  <2>8. walk.warned \/ Defective(frame) <=>
          \E k \in DOMAIN walk'.frames : Defective(walk'.frames[k])
    <3>1. ASSUME NEW k \in DOMAIN walk'.frames
          PROVE  \/ k \in DOMAIN walk.frames /\ walk'.frames[k] = walk.frames[k]
                 \/ k = last /\ walk'.frames[k] = frame
      BY <2>5
    <3>2. /\ DOMAIN walk.frames \subseteq DOMAIN walk'.frames
          /\ last \in DOMAIN walk'.frames
          /\ \A k \in DOMAIN walk.frames : walk'.frames[k] = walk.frames[k]
      BY <2>5
    <3> QED BY <2>5, <2>7, <3>1, <3>2
  <2>9. WarnedOfFrames'
    BY <2>6, <2>8 DEF WarnedOfFrames, Defective
  <2>10. Low(ReturnSlot(walk'.frames[Len(walk'.frames)]).raw) = target
    BY <2>5
  <2>11. WarnedExactly'
    BY <2>6, <2>8, <2>10 DEF WarnedExactly, Whole, Defective
  <2> QED BY <2>9, <2>11
<1>2. CASE UNCHANGED unwindVars
  BY <1>2 DEF WarnedOfFrames, WarnedExactly, Whole, unwindVars
<1> QED BY <1>1, <1>2

(* A view warns exactly when it is not whole: it raises no false alarm and *)
(* hides no end but the startup code (stack_view.rs:247-300).              *)
THEOREM WarnedExactlyAlways == UnwindSpec => []WarnedExactly
<1>1. UnwindInit => WarnedOfFrames /\ WarnedExactly
  <2> SUFFICES ASSUME UnwindInit PROVE WarnedOfFrames /\ WarnedExactly
    OBVIOUS
  <2>1. walk.frames = << >> /\ walk.warned = FALSE /\ walk.next # << >>
    BY DEF UnwindInit, UnwindStart
  <2>2. DOMAIN walk.frames = {}
    BY <2>1
  <2> QED BY <2>1, <2>2 DEF WarnedOfFrames, WarnedExactly
<1> QED BY UInvInit, UInvNext, WarnedNext, <1>1, PTL DEF UnwindSpec
=============================================================================
