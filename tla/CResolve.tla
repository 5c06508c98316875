------------------------------- MODULE CResolve ------------------------------
(***************************************************************************)
(* Name resolution (cc/sema/resolver.rs) and the check that a function     *)
(* with a value cannot run off its end (cc/sema/control_flow.rs).          *)
(*                                                                         *)
(* The context c of a function holds the tables of Collect, its            *)
(* parameters, return type and labels, and whether break and continue have *)
(* a statement to leave.  Statements thread x: the stack of scopes and the *)
(* locals declared so far, whose position is their slot.                   *)
(***************************************************************************)
EXTENDS CSema

Variable(kind, n, name) == [k |-> kind, n |-> n, name |-> name]

PositionOf(name, decls) ==
  {n \in DOMAIN decls : decls[n].name = name}

(* Resolver::variable: the innermost scope, a parameter, a global.         *)
Lookup(name, x, c) ==
  LET scopes == {n \in DOMAIN x.scopes : name \in DOMAIN x.scopes[n]}
      params == PositionOf(name, c.params)
  IN  IF scopes # {}
      THEN LET slot == x.scopes[Max(scopes)][name]
           IN  <<Variable("local", slot, ""), x.locals[slot + 1].ty>>
      ELSE IF params # {}
      THEN <<Variable("parameter", Max(params) - 1, ""), c.params[Max(params)].ty>>
      ELSE IF name \in DOMAIN c.globals
      THEN <<Variable("global", 0, name), c.globals[name]>>
      ELSE << >>

Wrong == [k |-> "wrong", bad |-> TRUE, ty |-> "int"]

NotScalar(r) == r.ty = "void"                       \* require_scalar

RECURSIVE Expression(_, _, _)
Expression(e, x, c) ==
  CASE e.k = "num" -> [k |-> "num", v |-> e.v, ty |-> e.ty, bad |-> FALSE]
    [] e.k = "var" ->
         LET v == Lookup(e.name, x, c)
         IN  IF v = << >> THEN Wrong
             ELSE [k |-> "load", var |-> v[1], ty |-> v[2], bad |-> FALSE]
    [] e.k = "assign" ->
         LET value == Expression(e.e, x, c)
             v     == Lookup(e.name, x, c)
         IN  IF v = << >> THEN Wrong
             ELSE [k |-> "assign", var |-> v[1], e |-> value, ty |-> v[2],
                   bad |-> value.bad \/ NotScalar(value)]
    [] e.k = "call" ->
         IF e.name \notin DOMAIN c.functions THEN Wrong
         ELSE LET f    == c.functions[e.name]
                  args == [n \in DOMAIN e.args |-> Expression(e.args[n], x, c)]
              IN  [k |-> "call", name |-> e.name, args |-> args, ty |-> f.ret,
                   builtin |-> e.name \in DOMAIN Builtins,
                   bad |-> \/ Len(args) # Len(f.params) \/ AnyBad(args)
                           \/ \E n \in DOMAIN args : NotScalar(args[n])]
    [] e.k = "un" ->
         LET r == Expression(e.e, x, c)
         IN  [k |-> "un", op |-> e.op, e |-> r, ty |-> UnaryType(e.op, r.ty),
              bad |-> r.bad \/ NotScalar(r)]
    [] e.k = "bin" ->
         LET l  == Expression(e.l, x, c)
             r  == Expression(e.r, x, c)
             ty == OperandType(l.ty, r.ty)
         IN  [k |-> "bin", op |-> e.op, l |-> l, r |-> r, operandType |-> ty,
              ty |-> BinaryType(e.op, ty),
              bad |-> l.bad \/ r.bad \/ NotScalar(l) \/ NotScalar(r)]

ScalarExpression(e, x, c) ==
  LET r == Expression(e, x, c) IN [r EXCEPT !.bad = @ \/ NotScalar(r)]

-----------------------------------------------------------------------------
(* Statements.  A result is the statement, x after it, and bad.            *)

Done(s, x, bad) == [s |-> s, x |-> x, bad |-> bad]

OpenScope(x)     == [x EXCEPT !.scopes = Append(@, << >>)]
CloseScope(x, y) == [y EXCEPT !.scopes = x.scopes]

Declare(x, d) ==
  [x EXCEPT !.scopes[Len(x.scopes)] = (d.name :> Len(x.locals)) @@ @,
            !.locals = Append(@, [name |-> d.name, ty |-> d.ty])]

Redeclared(d, x, c) ==
  \/ d.name \in DOMAIN x.scopes[Len(x.scopes)]
  \/ Len(x.scopes) = 1 /\ PositionOf(d.name, c.params) # {}

(* The identifier of a label, if it is one: its place in collect_labels.   *)
LabelIds(name, c) == {n \in DOMAIN c.labels : c.labels[n] = name}

ReturnBad(o, c) ==
  IF c.ret = "void" THEN o # << >> ELSE o = << >> \/ NotScalar(o[1])

RECURSIVE Statement(_, _, _)

(* The statements of a sequence, one after the other.                      *)
Statements(ss, x, c) ==
  FoldLong(LAMBDA acc, s : LET r == Statement(s, acc.x, c)
                           IN  Done(Append(acc.s, r.s), r.x, acc.bad \/ r.bad),
           Done(<< >>, x, FALSE), ss)

SwitchPart(p, x, c) ==
  CASE p.k = "case"    -> Done([k |-> "case", v |-> Evaluate(p.e)[1].v], x, FALSE)
    [] p.k = "default" -> Done([k |-> "default"], x, FALSE)
    [] p.k = "stmt"    -> LET r == Statement(p.s, x, c)
                          IN  Done([k |-> "stmt", s |-> r.s], r.x, r.bad)

SwitchParts(ps, x, c) ==
  FoldLeft(LAMBDA acc, p : LET r == SwitchPart(p, acc.x, c)
                           IN  Done(Append(acc.s, r.s), r.x, acc.bad \/ r.bad),
           Done(<< >>, x, FALSE), ps)

Statement(s, x, c) ==
  CASE s.k = "empty" -> Done(s, x, FALSE)
    [] s.k = "expr" ->
         LET e == Expression(s.e, x, c) IN Done([s EXCEPT !.e = e], x, e.bad)
    [] s.k = "block" ->
         LET r == Statements(s.body, OpenScope(x), c)
         IN  Done([s EXCEPT !.body = r.s], CloseScope(x, r.x), r.bad)
    [] s.k = "decl" ->
         IF x.scopes = << >> THEN Done(s, x, TRUE)
         ELSE LET init == Optional(LAMBDA e : ScalarExpression(e, x, c), s.init)
              IN  Done([k |-> "decl", slot |-> Len(x.locals), init |-> init],
                       Declare(x, s), Redeclared(s, x, c) \/ AnyBad(init))
    [] s.k = "if" ->
         LET e == ScalarExpression(s.c, x, c)
             t == Statement(s.t, x, c)
             f == Statements(s.f, t.x, c)
         IN  Done([s EXCEPT !.c = e, !.t = t.s, !.f = f.s], f.x,
                  e.bad \/ t.bad \/ f.bad)
    [] s.k = "while" ->
         LET e == ScalarExpression(s.c, x, c)
             b == Statement(s.s, x, [c EXCEPT !.break = TRUE, !.continue = TRUE])
         IN  Done([s EXCEPT !.c = e, !.s = b.s], b.x, e.bad \/ b.bad)
    [] s.k = "switch" ->
         LET e == ScalarExpression(s.e, x, c)
             r == SwitchParts(s.parts, OpenScope(x), [c EXCEPT !.break = TRUE])
         IN  Done([s EXCEPT !.e = e, !.parts = r.s], CloseScope(x, r.x), e.bad \/ r.bad)
    [] s.k = "break"    -> Done(s, x, ~ c.break)
    [] s.k = "continue" -> Done(s, x, ~ c.continue)
    [] s.k = "goto" ->
         Done([k |-> "goto", ids |-> LabelIds(s.name, c)], x, LabelIds(s.name, c) = {})
    [] s.k = "label" ->
         LET r == Statement(s.s, x, c)
         IN  Done([k |-> "label", ids |-> LabelIds(s.name, c), s |-> r.s], r.x, r.bad)
    [] s.k = "return" ->
         LET o == Optional(LAMBDA e : Expression(e, x, c), s.e)
         IN  Done([s EXCEPT !.e = o], x, AnyBad(o) \/ ReturnBad(o, c))

-----------------------------------------------------------------------------
(* control_flow.rs.  A node is the place of its statement in the body; the *)
(* graph of a statement has an entry and edges, and maps labels to nodes.  *)

RECURSIVE ConstantValue(_)
ConstantValue(e) ==
  CASE e.k = "num" -> <<e.v>>
    [] e.k = "un"  -> Optional(LAMBDA v : UnaryValue(e.op, v), ConstantValue(e.e))
    [] e.k = "bin" ->
         LET l == ConstantValue(e.l)
             r == ConstantValue(e.r)
         IN  IF l = << >> \/ r = << >> THEN << >>
             ELSE IF DividesByZero(e.op, r[1]) THEN << >>
             ELSE <<BinaryValue(e.op, l[1], r[1], e.operandType = "uint")>>
    [] OTHER -> << >>

FunctionExit == <<0>>

Graph(entry, edges) == [entry |-> entry, edges |-> edges]
Node(at, targets)   == Graph(at, {<<at, t>> : t \in targets})

LabelNodes(ids) == {<<0, n>> : n \in ids}   \* the entry of a labelled statement

At(at, n) == Append(at, n)

RECURSIVE Flow(_, _, _, _, _)

(* The statements of a sequence from the last to the first, each leading   *)
(* to the one after it; ss[1] is numbered n.                               *)
FlowAll(ss, n, at, next, break, continue) ==
  FoldLong(LAMBDA rest, i :
             LET first == Flow(ss[i], At(at, n + i - 1), rest.entry, break, continue)
             IN  Graph(first.entry, first.edges \cup rest.edges),
           Graph(next, {}), Reverse([i \in DOMAIN ss |-> i]))

(* CfgBuilder::switch: the entry leads to what follows each case, and to   *)
(* what follows the default or, without one, the switch.                   *)
RECURSIVE FlowSwitch(_, _, _, _, _)
FlowSwitch(ps, n, at, next, continue) ==
  IF ps = << >> THEN [entry |-> next, edges |-> {}, cases |-> {}, default |-> {}]
  ELSE LET rest == FlowSwitch(Tail(ps), n + 1, at, next, continue)
       IN  CASE ps[1].k = "case"    -> [rest EXCEPT !.cases = @ \cup {rest.entry}]
             [] ps[1].k = "default" -> [rest EXCEPT !.default = {rest.entry}]
             [] ps[1].k = "stmt"    ->
                  LET g == Flow(ps[1].s, At(at, n), rest.entry, next, continue)
                  IN  [rest EXCEPT !.entry = g.entry, !.edges = @ \cup g.edges]

Flow(s, at, next, break, continue) ==
  CASE s.k \in {"empty", "expr", "decl"} -> Node(at, {next})
    [] s.k = "return"   -> Node(at, {})
    [] s.k = "goto"     -> Node(at, LabelNodes(s.ids))
    [] s.k = "break"    -> Node(at, {break})
    [] s.k = "continue" -> Node(at, {continue})
    [] s.k = "label" ->
         LET g == Flow(s.s, at, next, break, continue)
         IN  Graph(g.entry, g.edges \cup (LabelNodes(s.ids) \X {g.entry}))
    [] s.k = "block" -> FlowAll(s.body, 1, at, next, break, continue)
    [] s.k = "if" ->
         LET t == Flow(s.t, At(at, 1), next, break, continue)
             f == FlowAll(s.f, 2, at, next, break, continue)
         IN  Graph(at, t.edges \cup f.edges \cup {<<at, t.entry>>, <<at, f.entry>>})
    [] s.k = "while" ->
         LET b    == Flow(s.s, At(at, 1), at, next, at)
             cond == ConstantValue(s.c)
             to   == IF cond = << >> THEN {b.entry, next}
                     ELSE IF cond[1] = 0 THEN {next} ELSE {b.entry}
         IN  Graph(at, b.edges \cup {<<at, t>> : t \in to})
    [] s.k = "switch" ->
         LET g == FlowSwitch(s.parts, 1, at, next, continue)
             to == g.cases \cup (IF g.default = {} THEN {next} ELSE g.default)
         IN  Graph(at, g.edges \cup {<<at, t>> : t \in to})

RECURSIVE Reachable(_, _)
Reachable(nodes, edges) ==
  LET more == nodes \cup {e[2] : e \in {d \in edges : d[1] \in nodes}}
  IN  IF more = nodes THEN nodes ELSE Reachable(more, edges)

MayReachFunctionEnd(body) ==
  LET g == Flow(body, <<1>>, FunctionExit, FunctionExit, FunctionExit)
  IN  FunctionExit \in Reachable({g.entry}, g.edges)

-----------------------------------------------------------------------------
(* resolve and analyze: the functions that are defined, the globals with   *)
(* their values, and bad.                                                  *)

FunctionContext(f, t) ==
  [params |-> f.params, globals |-> t.globals, functions |-> t.functions, ret |-> f.ret,
   labels |-> LabelsOf(f.body[1]), break |-> FALSE, continue |-> FALSE]

(* r is the resolved body; a function with a value must not run off it.    *)
ResolvedFunction(f, c, r) ==
  [name |-> f.name, body |-> r.s, locals |-> r.x.locals, params |-> f.params,
   labels |-> c.labels,
   bad |-> r.bad \/ (f.ret # "void" /\ ~ r.bad /\ MayReachFunctionEnd(r.s))]

ResolveBody(f, c) ==
  ResolvedFunction(f, c, Statement(f.body[1], [scopes |-> << >>, locals |-> << >>], c))

ResolveFunction(f, t) == ResolveBody(f, FunctionContext(f, t))

ResolveGlobal(g) ==
  [name |-> g.name, v |-> IF g.init = << >> THEN 0 ELSE Evaluate(g.init[1])[1].v]

Translation(bad, fs, gs) ==
  IF bad \/ AnyBad(fs) THEN [bad |-> TRUE, functions |-> << >>, globals |-> << >>]
  ELSE [bad |-> FALSE, functions |-> fs,
        globals |-> [n \in DOMAIN gs |-> ResolveGlobal(gs[n])]]

ResolveItems(items, t) ==
  LET ds == SelectSeq(items, IsDefinition)
  IN  Translation(t.bad, [n \in DOMAIN ds |-> ResolveFunction(ds[n], t)],
                  SelectSeq(items, LAMBDA i : ~ IsFunction(i)))

Analyze(items) == ResolveItems(items, Collect(items))
=============================================================================
