------------------------------ MODULE CMeaning -------------------------------
(***************************************************************************)
(* What an EX3 C program means, independently of how it is compiled: a big *)
(* step evaluator of the tree the parser builds.  Scopes are lexical,      *)
(* numbers are integers, arguments are evaluated from the last to the      *)
(* first.  A computation whose result the language leaves undefined, or    *)
(* that reads input there is none of, is stuck.                            *)
(*                                                                         *)
(* m is the state of a computation: variables of the open scopes (the      *)
(* parameters are the first) and globals, each with its type and value,    *)
(* and the bytes still to read and already written.                        *)
(***************************************************************************)
EXTENDS CSema

InType(n, ty) ==
  IF ty = "uint" THEN n \in 0 .. WordSize - 1 ELSE n \in -HalfWord .. HalfWord - 1

Convert(n, ty) == IF ty = "uint" THEN n % WordSize ELSE Signed(n % WordSize)

GetStuck(m) == [m EXCEPT !.stuck = TRUE]

(* The result of an expression: the state after it and its value.          *)
Value(m, ty, n) == [m |-> m, ty |-> ty, n |-> n]
StuckValue(m)   == Value(GetStuck(m), "int", 0)

(* An exact result, in a type: unsigned values wrap, signed ones may not.  *)
Exact(m, ty, n) ==
  IF ty = "uint" THEN Value(m, ty, n % WordSize)
  ELSE IF InType(n, ty) THEN Value(m, ty, n) ELSE StuckValue(m)

OfBits(m, ty, w) == Value(m, ty, Convert(w, ty))

Operate(m, op, ty, a, b) ==
  CASE op = "+" -> Exact(m, ty, a + b)
    [] op = "-" -> Exact(m, ty, a - b)
    [] op = "*" -> IF ty = "uint" THEN Value(m, ty, MulWord(a, b)) ELSE Exact(m, ty, a * b)
    [] op = "/" -> IF b = 0 THEN StuckValue(m) ELSE Exact(m, ty, Truncate(a, b))
    [] op = "%" -> IF b = 0 \/ ~ InType(Truncate(a, b), ty) THEN StuckValue(m)
                   ELSE Exact(m, ty, a - b * Truncate(a, b))
    [] op = "&" -> OfBits(m, ty, BitAnd(a % WordSize, b % WordSize))
    [] op = "|" -> OfBits(m, ty, BitOr(a % WordSize, b % WordSize))
    [] op = "^" -> OfBits(m, ty, BitXor(a % WordSize, b % WordSize))
    [] op = "<"  -> Value(m, "int", Flag(a < b))
    [] op = "<=" -> Value(m, "int", Flag(a <= b))
    [] op = ">"  -> Value(m, "int", Flag(a > b))
    [] op = ">=" -> Value(m, "int", Flag(a >= b))
    [] op = "==" -> Value(m, "int", Flag(a = b))
    [] op = "!=" -> Value(m, "int", Flag(a # b))

-----------------------------------------------------------------------------
(* Variables.                                                              *)

Stored(ty, n) == [ty |-> ty, n |-> Convert(n, ty), set |-> TRUE]
Unset(ty)     == [ty |-> ty, n |-> 0, set |-> FALSE]

ScopesWith(m, name) == {n \in DOMAIN m.scopes : name \in DOMAIN m.scopes[n]}

VariableNamed(m, name) ==
  IF ScopesWith(m, name) = {} THEN m.globals[name]
  ELSE m.scopes[Max(ScopesWith(m, name))][name]

Store(m, name, n) ==
  LET v == Stored(VariableNamed(m, name).ty, n)
  IN  IF ScopesWith(m, name) = {} THEN [m EXCEPT !.globals[name] = v]
      ELSE [m EXCEPT !.scopes[Max(ScopesWith(m, name))][name] = v]

DeclareAs(m, name, v) == [m EXCEPT !.scopes[Len(m.scopes)] = (name :> v) @@ @]

(* A declaration that is jumped over leaves its variable as it is, or      *)
(* without a value.                                                        *)
PassOver(m, s) ==
  IF s.k # "decl" \/ s.name \in DOMAIN m.scopes[Len(m.scopes)] THEN m
  ELSE DeclareAs(m, s.name, Unset(s.ty))

-----------------------------------------------------------------------------
(* Expressions.  fs are the functions that are defined, by name.           *)

UnaryMeaning(r, op) ==
  CASE op = "+" -> r
    [] op = "-" -> Exact(r.m, r.ty, -r.n)
    [] op = "~" -> OfBits(r.m, r.ty, -r.n - 1)
    [] op = "!" -> Value(r.m, "int", Flag(r.n = 0))

RECURSIVE Eval(_, _, _)
RECURSIVE Invoke(_, _, _, _)

ArgumentValues(args, m, fs) ==
  FoldRight(LAMBDA e, acc : LET v == Eval(e, acc.m, fs)
                            IN  [m |-> v.m, ns |-> <<v.n>> \o acc.ns],
            args, [m |-> m, ns |-> << >>])

CallMeaning(name, given, fs) ==
  CASE name = "putchar" ->
         Value([given.m EXCEPT !.out = Append(@, LowByte(given.ns[1] % WordSize))], "void", 0)
    [] name = "getchar" ->
         IF given.m.in = << >> THEN StuckValue(given.m)
         ELSE Value([given.m EXCEPT !.in = Tail(@)], "int", Head(given.m.in))
    [] OTHER -> Invoke(fs[name], given.m, given.ns, fs)

ReadVariable(m, v) == IF v.set THEN Value(m, v.ty, v.n) ELSE StuckValue(m)

Holding(m, name)   == ReadVariable(m, VariableNamed(m, name))

Truth(r) == Value(r.m, "int", Flag(r.n # 0))

(* Of a binary expression, l and r are the values of the operands.         *)
ShortCircuit(e, l, fs) ==
  IF (e.op = "&&") = (l.n = 0) THEN Value(l.m, "int", Flag(e.op = "||"))
  ELSE Truth(Eval(e.r, l.m, fs))

OperateIn(op, ty, l, r) == Operate(r.m, op, ty, Convert(l.n, ty), Convert(r.n, ty))
Combine(op, l, r)     == OperateIn(op, OperandType(l.ty, r.ty), l, r)

BinaryMeaning(e, l, fs) ==
  IF e.op \in {"&&", "||"} THEN ShortCircuit(e, l, fs)
  ELSE Combine(e.op, l, Eval(e.r, l.m, fs))

(* The value of an assignment is what the variable holds after it.         *)
Assign(name, r) == Holding(Store(r.m, name, r.n), name)

Eval(e, m, fs) ==
  CASE e.k = "num"    -> OfBits(m, e.ty, e.v)
    [] e.k = "var"    -> Holding(m, e.name)
    [] e.k = "assign" -> Assign(e.name, Eval(e.e, m, fs))
    [] e.k = "call"   -> CallMeaning(e.name, ArgumentValues(e.args, m, fs), fs)
    [] e.k = "un"     -> UnaryMeaning(Eval(e.e, m, fs), e.op)
    [] e.k = "bin"    -> BinaryMeaning(e, Eval(e.l, m, fs), fs)

-----------------------------------------------------------------------------
(* Statements.  The result is the state after one and how it ended: "next" *)
(* or the jump it asks for.  "to" is the label a goto is looking for, "",  *)
(* if none; a statement is then executed only if it contains the label.    *)

Ended(m, how)        == [m |-> m, how |-> how, n |-> 0, to |-> ""]
Returned(m, n)       == [m |-> m, how |-> "return", n |-> n, to |-> ""]
WentTo(m, label)     == [m |-> m, how |-> "goto", n |-> 0, to |-> label]

HasLabel(s, label) ==
  \E t \in ToSet(AllStatements(s)) : t.k = "label" /\ t.name = label

LeaveScope(r) == [r EXCEPT !.m.scopes = Front(@)]
NewScope(m) == [m EXCEPT !.scopes = Append(@, << >>)]

RECURSIVE Exec(_, _, _, _)

(* The statements of a block from the n-th on, and after the n-th.         *)
RECURSIVE ExecFrom(_, _, _, _, _)
GoOn(ss, n, r, fs) ==
  IF r.m.stuck THEN Returned(r.m, 0)
  ELSE IF r.how = "next" THEN ExecFrom(ss, n + 1, "", r.m, fs)
  ELSE IF r.how = "goto" /\ \E s \in ToSet(ss) : HasLabel(s, r.to)
  THEN ExecFrom(ss, 1, r.to, r.m, fs)
  ELSE r

ExecFrom(ss, n, to, m, fs) ==
  IF n > Len(ss) THEN Ended(m, "next")
  ELSE IF to # "" /\ ~ HasLabel(ss[n], to)
  THEN ExecFrom(ss, n + 1, to, PassOver(m, ss[n]), fs)
  ELSE GoOn(ss, n, Exec(ss[n], to, m, fs), fs)

RECURSIVE Repeat(_, _, _)
AfterBody(s, r, fs) ==
  IF r.m.stuck THEN Returned(r.m, 0)
  ELSE CASE r.how \in {"next", "continue"} -> Repeat(s, r.m, fs)
         [] r.how = "break"                -> Ended(r.m, "next")
         [] OTHER                          -> r

Turn(s, c, fs) ==
  IF c.m.stuck THEN Returned(c.m, 0)
  ELSE IF c.n = 0 THEN Ended(c.m, "next")
  ELSE AfterBody(s, Exec(s.s, "", c.m, fs), fs)

Repeat(s, m, fs) == Turn(s, Eval(s.c, m, fs), fs)

(* The part a switch on the value n continues at, past the last if none.   *)
PartFor(ps, n, m, fs) ==
  LET matches == SelectInSeq(ps, LAMBDA p : p.k = "case" /\
                                   Eval(p.e, m, fs).n % WordSize = n % WordSize)
      default == SelectInSeq(ps, LAMBDA p : p.k = "default")
  IN  IF matches # 0 THEN matches ELSE IF default # 0 THEN default ELSE Len(ps) + 1

LeaveSwitch(r) == LeaveScope([r EXCEPT !.how = IF @ = "break" THEN "next" ELSE @])

StatementsOf(ps) ==
  [n \in DOMAIN ps |-> IF ps[n].k = "stmt" THEN ps[n].s ELSE [k |-> "empty"]]

ExecParts(ss, start, m, fs) ==
  ExecFrom(ss, start, "", FoldLeft(PassOver, m, SubSeq(ss, 1, start - 1)), fs)

ExecChosen(s, v, fs) ==
  ExecParts(StatementsOf(s.parts), PartFor(s.parts, v.n, v.m, fs), NewScope(v.m), fs)

ExecSwitch(s, to, m, fs) ==
  LeaveSwitch(IF to # "" THEN ExecFrom(StatementsOf(s.parts), 1, to, NewScope(m), fs)
              ELSE ExecChosen(s, Eval(s.e, m, fs), fs))

Initialized(s, r) == Ended(DeclareAs(r.m, s.name, Stored(s.ty, r.n)), "next")
ReturnedValue(r)  == Returned(r.m, r.n)

(* An if statement whose condition has been evaluated.                     *)
ExecBranch(s, c, fs) ==
  IF c.n # 0 THEN Exec(s.t, "", c.m, fs)
  ELSE IF s.f # << >> THEN Exec(s.f[1], "", c.m, fs)
  ELSE Ended(c.m, "next")

Exec(s, to, m, fs) ==
  CASE s.k = "empty"  -> Ended(m, "next")
    [] s.k = "expr"   -> Ended(Eval(s.e, m, fs).m, "next")
    [] s.k = "block"  -> LeaveScope(ExecFrom(s.body, 1, to, NewScope(m), fs))
    [] s.k = "decl"   ->
         IF s.init = << >> THEN Ended(DeclareAs(m, s.name, Unset(s.ty)), "next")
         ELSE Initialized(s, Eval(s.init[1], m, fs))
    [] s.k = "if"     ->
         IF to = "" THEN ExecBranch(s, Eval(s.c, m, fs), fs)
         ELSE Exec(IF HasLabel(s.t, to) THEN s.t ELSE s.f[1], to, m, fs)
    [] s.k = "while"  -> IF to # "" THEN AfterBody(s, Exec(s.s, to, m, fs), fs)
                         ELSE Repeat(s, m, fs)
    [] s.k = "switch" -> ExecSwitch(s, to, m, fs)
    [] s.k \in {"break", "continue"} -> Ended(m, s.k)
    [] s.k = "goto"   -> WentTo(m, s.name)
    [] s.k = "label"  -> Exec(s.s, IF to = s.name THEN "" ELSE to, m, fs)
    [] s.k = "return" -> IF s.e = << >> THEN Returned(m, 0)
                         ELSE ReturnedValue(Eval(s.e[1], m, fs))

-----------------------------------------------------------------------------
(* Functions and programs.                                                 *)

Parameters(f, ns) ==
  [x \in {p.name : p \in ToSet(f.params)} |->
     LET n == SelectInSeq(f.params, LAMBDA p : p.name = x)
     IN  Stored(f.params[n].ty, ns[n])]

(* Back in the scopes of the caller.                                       *)
BackIn(scopes, f, r) ==
  Value([r.m EXCEPT !.scopes = scopes], f.ret,
        IF f.ret = "void" THEN 0 ELSE Convert(r.n, f.ret))

Invoke(f, m, ns, fs) ==
  BackIn(m.scopes, f, Exec(f.body[1], "", [m EXCEPT !.scopes = <<Parameters(f, ns)>>], fs))

DefinitionsOf(items) ==
  [name \in {f.name : f \in ToSet(SelectSeq(items, IsDefinition))} |->
     CHOOSE f \in ToSet(SelectSeq(items, IsDefinition)) : f.name = name]

EmptyState(input) ==
  [globals |-> << >>, scopes |-> << >>, in |-> input, out |-> << >>, stuck |-> FALSE]

GlobalsOf(items) ==
  FoldLeft(LAMBDA g, i :
             IF IsFunction(i) THEN g
             ELSE (i.name :> Stored(i.ty, IF i.init = << >> THEN 0
                                          ELSE Eval(i.init[1], EmptyState(<< >>), << >>).n)) @@ g,
           << >>, items)

(* The value main returns, the bytes written and the globals at the end.   *)
Result(r) ==
  [stuck |-> r.m.stuck, returned |-> r.n % WordSize, written |-> r.m.out,
   globals |-> [x \in DOMAIN r.m.globals |-> r.m.globals[x].n % WordSize]]

Start(fs, m) == Invoke(fs["main"], m, << >>, fs)

Meaning(items, input) ==
  Result(Start(DefinitionsOf(items), [EmptyState(input) EXCEPT !.globals = GlobalsOf(items)]))
=============================================================================
