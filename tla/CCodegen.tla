------------------------------ MODULE CCodegen -------------------------------
(***************************************************************************)
(* The code generator of EX3 C (cc/codegen): frame layout, code and the    *)
(* debug context of every instruction, from the resolved program.          *)
(*                                                                         *)
(* A frame has, from its base up, locals, temporaries, the return address  *)
(* and the parameters.  An argument that is pushed moves SP down, so every *)
(* offset is corrected by the words pushed so far (x.adj); the temporary   *)
(* an operator may use next is x.temp.  The emitter's fresh labels are     *)
(* named here by the place "at" of what they are made for.                 *)
(***************************************************************************)
EXTENDS CResolve, CRuntime

(* EvalContext.                                                            *)
Root == [temp |-> 0, adj |-> 0, active |-> << >>, dynamic |-> << >>]

(* Mutant: the right operand is evaluated into the temporary of the left.  *)
SameTemp(x) == x

NextTemp(x) == [x EXCEPT !.temp = @ + 1]

WithActive(x, role) ==
  [x EXCEPT !.active = Append(@, [slot |-> x.temp, role |-> role])]

WithDynamic(x, kind, callee, index) ==
  [x EXCEPT !.adj = @ + 1,
            !.dynamic = Append(@, [offset |-> -(x.adj + 1), kind |-> kind,
                                   callee |-> callee, index |-> index])]

-----------------------------------------------------------------------------
(* FrameLayout.                                                            *)

MaxOf(S) == Max(S \cup {0})

RECURSIVE Temporaries(_)
Temporaries(e) ==
  CASE e.k \in {"num", "load"} -> 0
    [] e.k = "assign" -> Temporaries(e.e)
    [] e.k = "un"   -> MaxOf({Temporaries(e.e), Flag(e.op = "-")})
    [] e.k = "call" -> MaxOf({Temporaries(e.args[n]) : n \in DOMAIN e.args})
    [] e.k = "bin" /\ e.op \in {"&&", "||"} -> MaxOf({Temporaries(e.l), Temporaries(e.r)})
    [] e.k = "bin" /\ e.op \notin {"&&", "||"} ->
         MaxOf({Temporaries(e.l), 1 + Temporaries(e.r), 2})

HasHelper(op) == op \in {"*", "/", "%"}

RECURSIVE DynamicSlots(_)
DynamicSlots(e) ==
  CASE e.k \in {"num", "load"} -> 0
    [] e.k \in {"assign", "un"} -> DynamicSlots(e.e)
    [] e.k = "call" ->
         MaxOf({Len(e.args)} \cup {Len(e.args) - n + DynamicSlots(e.args[n]) : n \in DOMAIN e.args})
    [] e.k = "bin" ->
         MaxOf({DynamicSlots(e.l), DynamicSlots(e.r), 2 * Flag(HasHelper(e.op))})

ExpressionsOf(s) ==
  CASE s.k \in {"expr", "switch"} -> {s.e}
    [] s.k \in {"if", "while"}    -> {s.c}
    [] s.k = "decl"               -> ToSet(s.init)
    [] s.k = "return"             -> ToSet(s.e)
    [] OTHER                      -> {}

AllExpressions(body) == UNION {ExpressionsOf(s) : s \in ToSet(AllStatements(body))}
HasSwitch(body) == \E s \in ToSet(AllStatements(body)) : s.k = "switch"

FrameOf(f) ==
  [locals |-> Len(f.locals), params |-> Len(f.params),
   temps  |-> MaxOf({Temporaries(e) : e \in AllExpressions(f.body)}
                    \cup {Flag(HasSwitch(f.body))})]

FrameSize(frame) == frame.locals + frame.temps

(* Mutant: the pushed arguments are not counted.                           *)
FrameFitsStill(f) ==
  LET frame == FrameOf(f)
  IN  /\ FrameSize(frame) <= MaxSigned
      /\ FrameSize(frame) + 1 + frame.params <= MaxSigned + 1

(* FrameLayout::validate.                                                  *)
FrameFits(f) ==
  LET frame   == FrameOf(f)
      dynamic == MaxOf({DynamicSlots(e) : e \in AllExpressions(f.body)})
  IN  /\ FrameSize(frame) <= MaxSigned
      /\ dynamic <= MaxSigned
      /\ FrameSize(frame) + 1 + frame.params + dynamic <= MaxSigned + 1

LocalOffset(slot, adj)              == slot + adj
TemporaryOffset(frame, slot, adj)   == frame.locals + slot + adj
ReturnAddressOffset(frame, adj)     == FrameSize(frame) + adj
ParameterOffset(frame, index, adj)  == FrameSize(frame) + 1 + index + adj

Slots0(count) == [n \in 1 .. count |-> n - 1]

(* FunctionFrameDebugInfo, without the names of the variables.             *)
FrameInfo(f) ==
  LET frame == FrameOf(f)
  IN  [name |-> f.name, size |-> FrameSize(frame), temps |-> frame.temps,
       locals |-> MapLong(LAMBDA n : LocalOffset(n, 0), Slots0(frame.locals)),
       temporaries |-> MapLong(LAMBDA n : TemporaryOffset(frame, n, 0), Slots0(frame.temps)),
       returnOffset |-> ReturnAddressOffset(frame, 0),
       params |-> MapLong(LAMBDA n : ParameterOffset(frame, n, 0), Slots0(frame.params))]

-----------------------------------------------------------------------------
(* Lines under a debug context; a label has none.  g is what the code of   *)
(* one function shares: its id, name and frame, and the labels that        *)
(* return, break and continue jump to.                                     *)

Context(id, delta, state, x) ==
  [f |-> id, delta |-> delta, state |-> state, active |-> x.active, dynamic |-> x.dynamic]

InContext(lines, c) ==
  [n \in DOMAIN lines |->
     [line |-> lines[n], debug |-> IF lines[n].st = NoStatement THEN << >> ELSE <<c>>]]

Under(g, x, lines) == InContext(lines, Context(g.id, x.adj, "allocated", x))

Fresh(kind, at)     == "__cc_" \o kind \o "_" \o ToString(at)
UserLabel(name, id) == "__cc_user_" \o name \o "_" \o ToString(id)

LoadConstant(v) ==
  IF Signed(v) \in -(MaxSigned + 1) .. MaxSigned THEN <<OpBy("LDA", Signed(v))>>
  ELSE <<Op("CLA"), OpBy("LDHI", High(v)), OpBy("LDLO", Low(v))>>

Access(var, g, adj, local, global) ==
  CASE var.k = "local"     -> <<OpBy(local, LocalOffset(var.n, adj))>>
    [] var.k = "parameter" -> <<OpBy(local, ParameterOffset(g.frame, var.n, adj))>>
    [] var.k = "global"    -> <<OpTo(global, var.name)>>

LoadVariable(var, g, adj)  == Access(var, g, adj, "LDSP", "LDA")
StoreVariable(var, g, adj) == Access(var, g, adj, "STSP", "STA")

(* AC is one if the branch is taken, zero if not.                          *)
BooleanBranch(branch, yes, end) ==
  <<OpTo(branch, yes), OpBy("LDA", 0), OpTo("JMP", end),
    LabelLine(yes), OpBy("LDA", 1), LabelLine(end)>>

(* Mutant: comparisons are always signed.                                  *)
ConditionSigned(op, type) ==
  CASE op = "==" -> "BEQ" [] op = "!=" -> "BNE"
    [] op = "<"  -> "BLT" [] op = "<=" -> "BLE"
    [] op = ">"  -> "BGT" [] op = ">=" -> "BGE"

ComparisonCondition(op, type) ==
  LET u == type = "uint"
  IN  CASE op = "==" -> "BEQ" [] op = "!=" -> "BNE"
        [] op = "<"  -> (IF u THEN "BULT" ELSE "BLT")
        [] op = "<=" -> (IF u THEN "BULE" ELSE "BLE")
        [] op = ">"  -> (IF u THEN "BUGT" ELSE "BGT")
        [] op = ">=" -> (IF u THEN "BUGE" ELSE "BGE")

StackOperation(op) ==
  CASE op = "+" -> "ADDSP" [] op = "-" -> "SUBSP" [] op = "&" -> "ANDSP"
    [] op = "^" -> "XORSP" [] op = "|" -> "ORSP"

Helper(op, type) ==
  (CASE op = "*" -> "__ex3_mul_" [] op = "/" -> "__ex3_div_" [] op = "%" -> "__ex3_mod_")
    \o (IF type = "uint" THEN "u32" ELSE "i32")

AssemblyName(e) ==
  IF ~ e.builtin THEN e.name
  ELSE CASE e.name = "putchar" -> "__ex3_putchar" [] e.name = "getchar" -> "__ex3_getchar"

-----------------------------------------------------------------------------
(* expr.rs.  The value of an expression is left in AC.                     *)

RECURSIVE ExpressionCode(_, _, _, _)

(* The arguments are pushed from the last to the first.                    *)
Arguments(e, g, x, at) ==
  LET kind == IF e.builtin THEN "runtime" ELSE "outgoing"
  IN  FoldLeft(LAMBDA acc, n :
                 [code |-> acc.code \o ExpressionCode(e.args[n], g, acc.x, At(at, n))
                                    \o Under(g, acc.x, <<Op("PUSH")>>),
                  x    |-> WithDynamic(acc.x, kind, AssemblyName(e), n - 1)],
               [code |-> << >>, x |-> x], Reverse([n \in DOMAIN e.args |-> n]))

CallCode(e, g, x, at) ==
  LET pushed == Arguments(e, g, x, at)
      drop   == IF e.args = << >> THEN << >> ELSE <<OpBy("ADJSP", Len(e.args))>>
  IN  pushed.code \o Under(g, pushed.x, <<OpTo("CALL", AssemblyName(e))>> \o drop)

UnaryCode(e, g, x, at) ==
  LET t == TemporaryOffset(g.frame, x.temp, x.adj)
  IN  ExpressionCode(e.e, g, x, At(at, 1)) \o
      CASE e.op = "+" -> << >>
        [] e.op = "~" -> Under(g, x, <<Op("CMA")>>)
        [] e.op = "-" -> Under(g, x, <<OpBy("STSP", t)>>)
                           \o Under(g, WithActive(x, "unaryOperand"),
                                    <<Op("CLA"), OpBy("SUBSP", t)>>)
        [] e.op = "!" -> Under(g, x, <<OpBy("CMP", 0)>>
                                       \o BooleanBranch("BEQ", Fresh("not", at), Fresh("notend", at)))

(* Both operands are in temporaries; the helper takes copies of them.      *)
HelperCode(e, g, x, left, right) ==
  LET helper == Helper(e.op, e.operandType)
      one    == WithDynamic(x, "runtime", helper, 1)
      both   == WithDynamic(one, "runtime", helper, 0)
  IN  Under(g, x, <<OpBy("LDSP", right), Op("PUSH")>>)
        \o Under(g, one, <<OpBy("LDSP", left + 1), Op("PUSH")>>)
        \o Under(g, both, <<OpTo("CALL", helper), OpBy("ADJSP", 2)>>)

BinaryCode(e, g, x, at) ==
  LET compares  == e.op \in Comparisons
      left      == TemporaryOffset(g.frame, x.temp, x.adj)
      afterLeft == WithActive(x, IF compares THEN "comparisonLeft" ELSE "binaryLeft")
      slot      == NextTemp(afterLeft)
      right     == TemporaryOffset(g.frame, slot.temp, slot.adj)
      both      == WithActive(slot, IF compares THEN "comparisonRight" ELSE "binaryRight")
  IN  ExpressionCode(e.l, g, x, At(at, 1))
        \o Under(g, x, <<OpBy("STSP", left)>>)
        \o ExpressionCode(e.r, g, slot, At(at, 2))
        \o Under(g, afterLeft, <<OpBy("STSP", right)>>)
        \o IF HasHelper(e.op) THEN HelperCode(e, g, both, left, right)
           ELSE Under(g, both, <<OpBy("LDSP", left)>> \o
                  IF compares
                  THEN <<OpBy("CMPSP", right)>>
                         \o BooleanBranch(ComparisonCondition(e.op, e.operandType),
                                          Fresh("true", at), Fresh("boolend", at))
                  ELSE <<OpBy(StackOperation(e.op), right)>>)

(* && and || leave for "logic" as soon as the value is known.              *)
LogicalCode(e, g, x, at) ==
  LET test  == Under(g, x, <<OpBy("CMP", 0),
                             OpTo(IF e.op = "&&" THEN "BEQ" ELSE "BNE", Fresh("logic", at))>>)
      known == Flag(e.op = "||")
  IN  ExpressionCode(e.l, g, x, At(at, 1)) \o test
        \o ExpressionCode(e.r, g, x, At(at, 2)) \o test
        \o Under(g, x, <<OpBy("LDA", 1 - known), OpTo("JMP", Fresh("logicend", at)),
                         LabelLine(Fresh("logic", at)), OpBy("LDA", known),
                         LabelLine(Fresh("logicend", at))>>)

ExpressionCode(e, g, x, at) ==
  CASE e.k = "num"    -> Under(g, x, LoadConstant(e.v))
    [] e.k = "load"   -> Under(g, x, LoadVariable(e.var, g, x.adj))
    [] e.k = "assign" -> ExpressionCode(e.e, g, x, At(at, 1))
                           \o Under(g, x, StoreVariable(e.var, g, x.adj))
    [] e.k = "un"     -> UnaryCode(e, g, x, at)
    [] e.k = "call"   -> CallCode(e, g, x, at)
    [] e.k = "bin" /\ e.op \in {"&&", "||"}    -> LogicalCode(e, g, x, at)
    [] e.k = "bin" /\ e.op \notin {"&&", "||"} -> BinaryCode(e, g, x, at)

-----------------------------------------------------------------------------
(* stmt.rs.                                                                *)

RECURSIVE StatementCode(_, _, _)

StatementsCode(ss, first, g, at) ==
  FlattenLong([n \in DOMAIN ss |-> StatementCode(ss[n], g, At(at, first + n))])

ValueCode(e, g, at) == ExpressionCode(e, g, Root, At(at, 0))
Plain(g, lines)     == Under(g, Root, lines)

IfCode(s, g, at) ==
  ValueCode(s.c, g, at)
    \o Plain(g, <<OpBy("CMP", 0), OpTo("BEQ", Fresh("else", at))>>)
    \o StatementCode(s.t, g, At(at, 1))
    \o Plain(g, <<OpTo("JMP", Fresh("ifend", at)), LabelLine(Fresh("else", at))>>)
    \o StatementsCode(s.f, 1, g, at)
    \o Plain(g, <<LabelLine(Fresh("ifend", at))>>)

WhileCode(s, g, at) ==
  LET top == Fresh("while", at)
      end == Fresh("wend", at)
  IN  Plain(g, <<LabelLine(top)>>)
        \o ValueCode(s.c, g, at)
        \o Plain(g, <<OpBy("CMP", 0), OpTo("BEQ", end)>>)
        \o StatementCode(s.s, [g EXCEPT !.break = end, !.continue = top], At(at, 1))
        \o Plain(g, <<OpTo("JMP", top), LabelLine(end)>>)

(* The value is compared with each case, then the parts follow in order.   *)
SwitchCode(s, g, at) ==
  LET end      == Fresh("swend", at)
      label(n) == Fresh(s.parts[n].k, At(at, n))
      slot     == TemporaryOffset(g.frame, 0, 0)
      default  == SelectInSeq(s.parts, LAMBDA p : p.k = "default")
      dispatch(n) == IF s.parts[n].k # "case" THEN << >>
                     ELSE LoadConstant(s.parts[n].v)
                            \o <<OpBy("CMPSP", slot), OpTo("BEQ", label(n))>>
      part(n) == IF s.parts[n].k = "stmt"
                 THEN StatementCode(s.parts[n].s, [g EXCEPT !.break = end], At(at, n))
                 ELSE Plain(g, <<LabelLine(label(n))>>)
  IN  ValueCode(s.e, g, at)
        \o Plain(g, <<OpBy("STSP", slot)>>)
        \o Under(g, WithActive(Root, "switchValue"),
                 FlattenSeq([n \in DOMAIN s.parts |-> dispatch(n)])
                   \o <<OpTo("JMP", IF default = 0 THEN end ELSE label(default))>>)
        \o FlattenSeq([n \in DOMAIN s.parts |-> part(n)])
        \o Plain(g, <<LabelLine(end)>>)

StatementCode(s, g, at) ==
  CASE s.k = "empty"    -> << >>
    [] s.k = "expr"     -> ValueCode(s.e, g, at)
    [] s.k = "block"    -> StatementsCode(s.body, 0, g, at)
    [] s.k = "decl"     ->
         FlattenSeq([n \in DOMAIN s.init |->
           ValueCode(s.init[n], g, at) \o Plain(g, <<OpBy("STSP", LocalOffset(s.slot, 0))>>)])
    [] s.k = "if"       -> IfCode(s, g, at)
    [] s.k = "while"    -> WhileCode(s, g, at)
    [] s.k = "switch"   -> SwitchCode(s, g, at)
    [] s.k = "break"    -> Plain(g, <<OpTo("JMP", g.break)>>)
    [] s.k = "continue" -> Plain(g, <<OpTo("JMP", g.continue)>>)
    [] s.k = "goto"     ->
         Plain(g, <<OpTo("JMP", UserLabel(g.name, CHOOSE i \in s.ids : TRUE))>>)
    [] s.k = "label"    ->
         Plain(g, <<LabelLine(UserLabel(g.name, CHOOSE i \in s.ids : TRUE))>>)
           \o StatementCode(s.s, g, At(at, 1))
    [] s.k = "return"   ->
         FlattenSeq([n \in DOMAIN s.e |-> ValueCode(s.e[n], g, at)])
           \o Plain(g, <<OpTo("JMP", g.return)>>)

-----------------------------------------------------------------------------
(* function.rs and codegen/mod.rs.                                         *)

(* The prologue and RET run outside the frame, whose base is still the     *)
(* same: delta is the size SP is above it.                                 *)
FunctionCode(f, id) ==
  LET frame == FrameOf(f)
      size  == FrameSize(frame)
      g     == [id |-> id, name |-> f.name, frame |-> frame, break |-> "", continue |-> "",
                return |-> Fresh("return", <<id>>)]
      outside(state) ==
        Context(id, -size, IF size = 0 THEN "allocated" ELSE state, Root)
  IN  InContext(<<LabelLine(f.name), OpBy("ADJSP", -size)>>, outside("notAllocated"))
        \o StatementCode(f.body, g, <<id>>)
        \o Plain(g, <<LabelLine(g.return), OpBy("ADJSP", size)>>)
        \o InContext(<<Op("RET")>>, outside("released"))

(* Text, and the debug contexts with the line each is about.               *)
Emitted(code) ==
  LET described == SelectSeq([n \in DOMAIN code |-> [line |-> n, c |-> code[n].debug]],
                             LAMBDA d : d.c # << >>)
  IN  [text  |-> [n \in DOMAIN code |-> code[n].line],
       debug |-> [n \in DOMAIN described |->
                    [line |-> described[n].line, context |-> described[n].c[1]]]]

AppendGenerated(whole, part) ==
  [text  |-> whole.text \o part.text,
   debug |-> whole.debug \o [n \in DOMAIN part.debug |->
                               [part.debug[n] EXCEPT !.line = @ + Len(whole.text)]]]

Entry == 16                                          \* ORG 0x0010

Header ==                                            \* the first is a comment
  [text |-> <<Line(<< >>, NoOrg, NoStatement), Line(<< >>, Entry, NoStatement),
              OpTo("CALL", "main"), Op("HLT")>>, debug |-> << >>]

UsesRuntime(text) ==
  \E n \in DOMAIN text : /\ text[n].st.k = "instruction" /\ text[n].st.m = "CALL"
                         /\ HasPrefix(text[n].st.operands[1].name, "__ex3_")

Generate(p) ==
  LET functions == FoldLeft(LAMBDA whole, n :
                              AppendGenerated(whole, Emitted(FunctionCode(p.functions[n], n))),
                            Header, [n \in DOMAIN p.functions |-> n])
      global(g) == Line(<<g.name>>, NoOrg, HexData(g.v))
  IN  [functions EXCEPT
         !.text = @ \o (IF UsesRuntime(@) THEN Runtime ELSE << >>)
                    \o [n \in DOMAIN p.globals |-> global(p.globals[n])]]

(* compile_with_debug_info, from the tree on.                              *)
Compiled(p, asm) ==
  [rejected |-> FALSE, text |-> asm.text, debug |-> asm.debug,
   frames |-> [n \in DOMAIN p.functions |-> FrameInfo(p.functions[n])]]

CompileAnalyzed(p) ==
  IF p.bad \/ \E n \in DOMAIN p.functions : ~ FrameFits(p.functions[n])
  THEN [rejected |-> TRUE]
  ELSE Compiled(p, Generate(p))

Compile(items) == CompileAnalyzed(Analyze(items))
=============================================================================
