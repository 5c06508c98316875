-------------------------------- MODULE CSema --------------------------------
(***************************************************************************)
(* The semantic analysis of EX3 C (cc/sema): symbols, name resolution,     *)
(* types, constant expressions and the control-flow check, from the tree   *)
(* the parser builds to the resolved program the code generator reads.     *)
(*                                                                         *)
(* A tree is a record whose "k" names its kind; an optional part is a      *)
(* sequence of at most one element.  An analysis stops at its first error  *)
(* or collects several: here a result only says that it is "bad".          *)
(***************************************************************************)
EXTENDS Alu, LongFolds, SequencesExt

Optional(f(_), o) == [n \in DOMAIN o |-> f(o[n])]
AnyBad(rs) == \E n \in DOMAIN rs : rs[n].bad

-----------------------------------------------------------------------------
(* Values.  Types are "void", "int" and "uint".                            *)

Comparisons == {"<", "<=", ">", ">=", "==", "!=", "&&", "||"}

Flag(b) == IF b THEN 1 ELSE 0

Magnitude(n) == IF n < 0 THEN -n ELSE n

Truncate(a, b) ==                                   \* i32 division
  LET q == Magnitude(a) \div Magnitude(b)
  IN  IF (a < 0) = (b < 0) THEN q ELSE -q

MulWord(a, b) ==                                    \* wrapping_mul, by halves
  (a * Low(b) + ((a * High(b)) % HalfSize) * HalfSize) % WordSize

Quotient(a, b, unsigned) ==
  IF unsigned THEN a \div b ELSE Truncate(Signed(a), Signed(b)) % WordSize

Remainder(a, b, unsigned) == SubWord(a, MulWord(Quotient(a, b, unsigned), b))

Less(a, b, unsigned) == IF unsigned THEN a < b ELSE Signed(a) < Signed(b)

UnaryValue(op, a) ==
  CASE op = "~" -> Complement(a) [] op = "!" -> Flag(a = 0)
    [] op = "+" -> a             [] op = "-" -> SubWord(0, a)

BinaryValue(op, a, b, unsigned) ==
  CASE op = "+" -> AddWord(a, b)  [] op = "-" -> SubWord(a, b)
    [] op = "*" -> MulWord(a, b)
    [] op = "/" -> Quotient(a, b, unsigned)
    [] op = "%" -> Remainder(a, b, unsigned)
    [] op = "&" -> BitAnd(a, b) [] op = "|" -> BitOr(a, b)
    [] op = "^" -> BitXor(a, b)
    [] op = "<"  -> Flag(Less(a, b, unsigned))
    [] op = ">"  -> Flag(Less(b, a, unsigned))
    [] op = "<=" -> Flag(~ Less(b, a, unsigned))
    [] op = ">=" -> Flag(~ Less(a, b, unsigned))
    [] op = "==" -> Flag(a = b) [] op = "!=" -> Flag(a # b)
    [] op = "&&" -> Flag(a # 0 /\ b # 0)
    [] op = "||" -> Flag(a # 0 \/ b # 0)

OperandType(l, r)  == IF "uint" \in {l, r} THEN "uint" ELSE "int"
UnaryType(op, t)   == IF op = "!" THEN "int" ELSE t
BinaryType(op, t)  == IF op \in Comparisons THEN "int" ELSE t
DividesByZero(op, b) == op \in {"/", "%"} /\ b = 0

(* const_eval: the value and type of a constant expression, or nothing.    *)
RECURSIVE Evaluate(_)
Evaluate(e) ==
  CASE e.k = "num" -> <<[v |-> e.v, ty |-> e.ty]>>
    [] e.k = "un" ->
         Optional(LAMBDA c : [v |-> UnaryValue(e.op, c.v), ty |-> UnaryType(e.op, c.ty)],
                  Evaluate(e.e))
    [] e.k = "bin" ->
         LET l == Evaluate(e.l)
             r == Evaluate(e.r)
         IN  IF l = << >> \/ r = << >> THEN << >>
             ELSE IF DividesByZero(e.op, r[1].v) THEN << >>
             ELSE LET ty == OperandType(l[1].ty, r[1].ty)
                  IN  <<[v  |-> BinaryValue(e.op, l[1].v, r[1].v, ty = "uint"),
                         ty |-> BinaryType(e.op, ty)]>>
    [] OTHER -> << >>

-----------------------------------------------------------------------------
(* symbols.rs.                                                             *)

Builtins ==
  [putchar |-> [ret |-> "void", params |-> <<"int">>, defined |-> TRUE],
   getchar |-> [ret |-> "int", params |-> << >>, defined |-> TRUE]]

HasPrefix(name, p) == Len(name) >= Len(p) /\ SubSeq(name, 1, Len(p)) = p

IsReserved(name) ==
  name \in DOMAIN Builtins \/ HasPrefix(name, "__cc_") \/ HasPrefix(name, "__ex3_")

SignatureOf(f) ==
  [ret |-> f.ret, params |-> [n \in DOMAIN f.params |-> f.params[n].ty],
   defined |-> f.body # << >>]

CollectGlobal(t, g) ==
  [t EXCEPT !.bad = @ \/ IsReserved(g.name) \/ g.name \in DOMAIN t.globals
                      \/ g.name \in DOMAIN t.functions
                      \/ (g.init # << >> /\ Evaluate(g.init[1]) = << >>),
            !.globals = (g.name :> g.ty) @@ @]

CollectFunction(t, f) ==
  LET new == SignatureOf(f)
      old == t.functions[f.name]
  IN  IF f.name \in DOMAIN Builtins
      THEN [t EXCEPT !.bad = @ \/ new # [old EXCEPT !.defined = FALSE]]
      ELSE IF IsReserved(f.name) \/ f.name \in DOMAIN t.globals
      THEN [t EXCEPT !.bad = TRUE]
      ELSE IF f.name \notin DOMAIN t.functions
      THEN [t EXCEPT !.functions = (f.name :> new) @@ @]
      ELSE IF \/ <<old.ret, old.params>> # <<new.ret, new.params>>
              \/ old.defined /\ new.defined
      THEN [t EXCEPT !.bad = TRUE]
      ELSE [t EXCEPT !.functions[f.name].defined = @ \/ new.defined]

IsFunction(item) == item.k = "function"
IsDefinition(item) == IsFunction(item) /\ item.body # << >>

HasMain(t) ==
  /\ "main" \in DOMAIN t.functions
  /\ t.functions["main"] = [ret |-> "int", params |-> << >>, defined |-> TRUE]

(* The statements a statement directly contains.                           *)
Parts(s) ==
  CASE s.k = "block" -> s.body
    [] s.k = "if" -> <<s.t>> \o s.f
    [] s.k \in {"while", "label"} -> <<s.s>>
    [] s.k = "switch" -> LET ps == SelectSeq(s.parts, LAMBDA p : p.k = "stmt")
                         IN  [n \in DOMAIN ps |-> ps[n].s]
    [] OTHER -> << >>

(* A statement and all it contains, in the order of the text.              *)
RECURSIVE AllStatements(_)
AllStatements(s) ==
  LET parts == Parts(s)
  IN  <<s>> \o FlattenLong([n \in DOMAIN parts |-> AllStatements(parts[n])])

(* collect_labels: the labels of a body in the order of their identifiers. *)
LabelsOf(body) ==
  LET ls == SelectSeq(AllStatements(body), LAMBDA s : s.k = "label")
  IN  [n \in DOMAIN ls |-> ls[n].name]

SwitchValid(s) ==
  LET cases == SelectSeq(s.parts, LAMBDA p : p.k = "case")
      value(n) == Evaluate(cases[n].e)
  IN  /\ \A n \in DOMAIN cases : value(n) # << >>
      /\ \A n, m \in DOMAIN cases : n # m => value(n)[1].v # value(m)[1].v
      /\ Len(SelectSeq(s.parts, LAMBDA p : p.k = "default")) <= 1

SwitchesValid(body) ==
  \A s \in ToSet(AllStatements(body)) : s.k = "switch" => SwitchValid(s)

FunctionValid(f) ==
  /\ IsInjective([n \in DOMAIN f.params |-> f.params[n].name])
  /\ IsInjective(LabelsOf(f.body[1]))
  /\ SwitchesValid(f.body[1])

(* collect: the tables, bad when a declaration is.                         *)
Collect(items) ==
  LET t == FoldLeft(LAMBDA acc, i : IF IsFunction(i) THEN CollectFunction(acc, i)
                                    ELSE CollectGlobal(acc, i),
                    [globals |-> << >>, functions |-> Builtins, bad |-> FALSE], items)
  IN  [t EXCEPT !.bad = @ \/ ~ HasMain(t)
                          \/ \E n \in DOMAIN items :
                               IsDefinition(items[n]) /\ ~ FunctionValid(items[n])]
=============================================================================
