------------------------------ MODULE CPrograms ------------------------------
(***************************************************************************)
(* C programs to compile and run, as the trees the parser builds of them:  *)
(* each with whether the language allows it and whether it reads input.    *)
(***************************************************************************)
EXTENDS Integers, SequencesExt

CONSTANT WordSize

N(n)            == [k |-> "num", v |-> n % WordSize, ty |-> "int"]
U(n)            == [k |-> "num", v |-> n % WordSize, ty |-> "uint"]
V(x)            == [k |-> "var", name |-> x]
Put(x, e)       == [k |-> "assign", name |-> x, e |-> e]
Call(f, as)     == [k |-> "call", name |-> f, args |-> as]
Un(op, e)       == [k |-> "un", op |-> op, e |-> e]
Bin(l, op, r)   == [k |-> "bin", op |-> op, l |-> l, r |-> r]

Do(e)           == [k |-> "expr", e |-> e]
Let(x, e)       == Do(Put(x, e))
Block(ss)       == [k |-> "block", body |-> ss]
Var(ty, x)      == [k |-> "decl", name |-> x, ty |-> ty, init |-> << >>]
VarIs(ty, x, e) == [k |-> "decl", name |-> x, ty |-> ty, init |-> <<e>>]
If(c, t)        == [k |-> "if", c |-> c, t |-> t, f |-> << >>]
IfElse(c, t, f) == [k |-> "if", c |-> c, t |-> t, f |-> <<f>>]
While(c, s)     == [k |-> "while", c |-> c, s |-> s]
Switch(e, ps)   == [k |-> "switch", e |-> e, parts |-> ps]
Case(e)         == [k |-> "case", e |-> e]
Default         == [k |-> "default"]
Part(s)         == [k |-> "stmt", s |-> s]
Goto(l)         == [k |-> "goto", name |-> l]
Label(l, s)     == [k |-> "label", name |-> l, s |-> s]
Return(e)       == [k |-> "return", e |-> <<e>>]
Leave           == [k |-> "return", e |-> << >>]
Break           == [k |-> "break"]
Continue        == [k |-> "continue"]
Nothing         == [k |-> "empty"]

Global(ty, x)      == [k |-> "global", name |-> x, ty |-> ty, init |-> << >>]
GlobalIs(ty, x, e) == [k |-> "global", name |-> x, ty |-> ty, init |-> <<e>>]
Param(ty, x)       == [name |-> x, ty |-> ty]
Func(ret, f, ps, ss)  == [k |-> "function", name |-> f, ret |-> ret, params |-> ps,
                          body |-> <<Block(ss)>>]
Prototype(ret, f, ps) == [k |-> "function", name |-> f, ret |-> ret, params |-> ps,
                          body |-> << >>]
Main(ss) == Func("int", "main", << >>, ss)

Valid(items)    == [items |-> items, valid |-> TRUE, reads |-> FALSE]
Reading(items)  == [items |-> items, valid |-> TRUE, reads |-> TRUE]
Invalid(items)  == [items |-> items, valid |-> FALSE, reads |-> FALSE]

-----------------------------------------------------------------------------
(* Operators.                                                              *)

Bump == Func("void", "bump", <<Param("int", "by")>>, <<Let("g", Bin(V("g"), "+", V("by")))>>)
Two(ty) == <<Param(ty, "a"), Param(ty, "b")>>
AB(op)  == Bin(V("a"), op, V("b"))

(* A function of two operands, whose results are kept in globals.          *)
Applied(ty, body, pairs) ==
  <<Func(ty, "f", Two(ty), body)>>
    \o [n \in DOMAIN pairs |-> Global(ty, "r" \o ToString(n))]
    \o <<Main([n \in DOMAIN pairs |-> Let("r" \o ToString(n), Call("f", pairs[n]))]
              \o <<Return(V("r1"))>>)>>

Neg(n) == Un("-", N(n))
MaxInt == WordSize \div 2 - 1
MinInt == Bin(Neg(MaxInt), "-", N(1))

IntPairs  == <<<<N(7), N(3)>>, <<Neg(7), N(3)>>, <<N(7), Neg(3)>>, <<Neg(6), Neg(3)>>>>
UintPairs == <<<<U(7), U(3)>>, <<U(0), U(5)>>, <<Un("~", U(0)), U(2)>>>>

Products  == IntPairs \o <<<<N(1), MinInt>>, <<Neg(300), N(400)>>, <<N(0), N(9)>>>>
Fractions == IntPairs \o <<<<MinInt, N(2)>>, <<N(5), N(MaxInt)>>, <<N(MaxInt), N(1)>>>>

Arithmetic ==
  <<Valid(Applied("int", <<Return(AB("*"))>>, Products)),
    Valid(Applied("int", <<Return(AB("/"))>>, Fractions)),
    Valid(Applied("int", <<Return(AB("%"))>>, Fractions)),
    Valid(Applied("uint", <<Return(AB("*"))>>, UintPairs \o <<<<U(1000), U(1000)>>>>)),
    Valid(Applied("uint", <<Return(AB("/"))>>, UintPairs)),
    Valid(Applied("uint", <<Return(AB("%"))>>, UintPairs)),
    Valid(Applied("uint", <<Return(Bin(AB("&"), "-", Bin(AB("|"), "+", AB("^"))))>>, UintPairs))>>

(* Every comparison, as a value and as a condition.                        *)
Shifted(e) == Let("s", Bin(Bin(V("s"), "+", V("s")), "+", e))
Compared ==
  <<VarIs("int", "s", N(0))>>
    \o [n \in 1 .. 6 |-> Shifted(AB(<<"<", "<=", ">", ">=", "==", "!=">>[n]))]
    \o [n \in 1 .. 4 |-> IfElse(AB(<<"<", "<=", ">", ">=">>[n]), Shifted(N(1)), Shifted(N(0)))]
    \o <<Return(V("s"))>>

Comparisons ==
  <<Valid(Applied("int", Compared, <<<<Neg(1), N(1)>>, <<N(2), MinInt>>, <<N(3), N(3)>>>>)),
    Valid(Applied("uint", Compared, <<<<U(1), Un("~", U(0))>>, <<Un("~", U(0)), U(3)>>>>)),
    Valid(<<Main(<<VarIs("uint", "u", Neg(1)), VarIs("int", "i", V("u")),
                   Return(Bin(Bin(V("i"), "<", U(1)), "+", Bin(V("i"), "<", N(1))))>>)>>)>>

(* Operators that need not evaluate their right operand.                   *)
Counting == <<Global("int", "n"),
              Func("int", "t", <<Param("int", "x")>>,
                   <<Let("n", Bin(V("n"), "+", N(1))), Return(V("x"))>>)>>
T(n) == Call("t", <<N(n)>>)

Logic ==
  <<Valid(Counting \o
      <<Main(<<VarIs("int", "r", Bin(T(0), "&&", T(1))),
               Let("r", Bin(Bin(V("r"), "+", V("r")), "+", Bin(T(2), "||", T(0)))),
               Let("r", Bin(Bin(V("r"), "+", V("r")), "+", Bin(T(1), "&&", T(2)))),
               Let("r", Bin(Bin(V("r"), "+", V("r")), "+", Bin(T(0), "||", T(0)))),
               Return(Bin(V("r"), "-", Un("!", Un("+", Un("~", V("n"))))))>>)>>)>>

-----------------------------------------------------------------------------
(* Functions, frames and scopes.                                           *)

Factorial == Func("int", "fact", <<Param("int", "n")>>,
                  <<If(Bin(V("n"), "<", N(2)), Return(N(1))),
                    Return(Bin(V("n"), "*", Call("fact", <<Bin(V("n"), "-", N(1))>>)))>>)

Calls ==
  <<Valid(<<Prototype("int", "fact", <<Param("int", "n")>>),
            Main(<<Return(Bin(N(100), "-", Call("fact", <<N(3)>>)))>>), Factorial>>),
    (* arguments that are themselves calls and products, below temporaries *)
    Valid(<<Func("int", "mad", <<Param("int", "a"), Param("int", "b"), Param("int", "c")>>,
                 <<VarIs("int", "t", Bin(V("a"), "+", Bin(V("b"), "*", V("c")))),
                   Let("a", Bin(V("t"), "-", V("a"))), Return(Bin(V("t"), "-", Un("-", V("a"))))>>),
            Main(<<Return(Bin(N(9), "-", Bin(N(2), "-", Call("mad",
                     <<Call("mad", <<N(1), N(2), N(3)>>), Bin(N(3), "%", N(2)),
                       Bin(N(6), "-", Bin(N(2), "*", Call("mad", <<N(0), N(1), N(1)>>)))>>))))>>)>>),
    Valid(<<Global("int", "g"), Bump,
            Main(<<Do(Call("bump", <<Bin(Call("get", << >>), "+", N(2))>>)),
                   Do(Call("get", << >>)), Nothing, Return(V("g"))>>),
            Func("int", "get", << >>, <<Let("g", N(5)), Return(V("g"))>>)>>),
    Valid(<<GlobalIs("int", "x", Bin(Bin(N(7), "/", Neg(2)), "*", N(3))),
            GlobalIs("uint", "y", Bin(Un("~", U(0)), "/", Bin(N(9), "%", N(5)))),
            Main(<<VarIs("int", "x", N(2)),
                   Block(<<VarIs("int", "x", Bin(N(3), "+", N(0))), Let("y", V("x")), Let("x", N(4)),
                           Block(<<VarIs("int", "y", V("x")), Let("y", N(8))>>)>>),
                   Return(Bin(V("x"), "+", V("y")))>>)>>)>>

-----------------------------------------------------------------------------
(* Control.                                                                *)

CountDown(body) ==
  <<Main(<<VarIs("int", "i", N(5)), VarIs("int", "s", N(0)),
           While(V("i"), Block(<<Let("i", Bin(V("i"), "-", N(1)))>> \o body)),
           Return(V("s"))>>)>>
Add(n) == Let("s", Bin(V("s"), "+", N(n)))

Control ==
  <<Valid(CountDown(<<Switch(V("i"),
             <<Case(N(4)), Part(Add(1)), Case(N(3)), Part(Add(10)), Part(Break),
               Default, Part(Add(100)), Part(Continue), Case(Bin(N(1), "-", N(1))),
               Part(Block(<<Var("int", "z"), Let("z", N(7)), Add(1000)>>)), Part(Break)>>),
             Add(10000)>>)),
    Valid(CountDown(<<If(Bin(V("i"), "==", N(2)), Break),
                      Switch(V("i"), <<Case(N(3)), Part(Add(5))>>), Add(1)>>)),
    Valid(<<Main(<<VarIs("int", "i", N(0)), Goto("into"),
                   Label("again", Let("i", Bin(V("i"), "+", N(10)))),
                   If(Bin(V("i"), "<", N(30)),
                      Block(<<Label("into", Let("i", Bin(V("i"), "+", N(1)))), Goto("again")>>)),
                   Return(V("i"))>>)>>),
    Valid(<<Main(<<While(N(1), Block(<<While(N(0), Break), Return(N(5))>>))>>)>>)>>

Write(e) == Do(Call("putchar", <<e>>))
Read     == Call("getchar", << >>)

InputOutput ==
  <<Valid(<<Func("void", "twice", <<Param("int", "c")>>, <<Write(V("c")), Write(Bin(V("c"), "+", N(1))), Leave>>),
            Main(<<Do(Call("twice", <<N(65)>>)), Write(N(300)), Return(N(0))>>)>>),
    Reading(<<Main(<<VarIs("int", "a", Read), Write(Bin(N(9), "-", Read)), Return(V("a"))>>)>>)>>

-----------------------------------------------------------------------------
(* The largest frame, and programs that are no programs.                   *)

Locals(n)  == [i \in 1 .. n |-> Var("int", "v" \o ToString(i))]
Ones(n)    == [i \in 1 .. n |-> N(i)]
Params(n)  == [i \in 1 .. n |-> Param("int", "p" \o ToString(i))]

(* A frame of n locals, one parameter and the return address of the call   *)
(* of a function with four arguments.                                      *)
Deep(n) ==
  <<Func("int", "last", Params(4), <<Return(V("p4"))>>),
    Func("int", "deep", <<Param("int", "a")>>,
         Locals(n) \o <<Let("v1", V("a")), Return(Call("last", <<N(1), N(2), V("v1"), V("a")>>))>>),
    Main(<<Return(Call("deep", <<N(3)>>))>>)>>

MainReturns(e) == Main(<<Return(e)>>)

Refused ==
  <<<<Main(<<If(N(1), Return(N(0)))>>)>>,
    <<Main(<<While(Bin(N(1), "-", N(1)), Return(N(0)))>>)>>,
    <<Main(<<Switch(N(0), <<Case(N(0)), Part(Return(N(1)))>>)>>)>>,
    <<MainReturns(V("x"))>>,
    <<Main(<<Let("x", N(1)), Var("int", "x"), Return(N(0))>>)>>,
    <<Main(<<Block(<<Var("int", "x")>>), Return(V("x"))>>)>>,
    <<Main(<<Label("l", Nothing), Label("l", Return(N(0)))>>)>>,
    <<Main(<<Goto("l")>>)>>,
    <<Main(<<Switch(N(0), <<Case(N(2)), Case(Bin(N(1), "+", N(1)))>>), Return(N(0))>>)>>,
    <<Main(<<Switch(N(0), <<Default, Default>>), Return(N(0))>>)>>,
    <<Main(<<Break, Return(N(0))>>)>>,
    <<Main(<<Switch(N(0), <<Default, Part(Continue)>>), Return(N(0))>>)>>,
    <<Global("int", "g"), Bump, MainReturns(Call("bump", <<N(1)>>))>>,
    <<Global("int", "g"), Bump, MainReturns(Bin(N(1), "+", Call("bump", <<N(1)>>)))>>,
    <<Global("int", "g"), Bump, Main(<<Do(Call("bump", << >>)), Return(N(0))>>)>>,
    <<Global("int", "main"), MainReturns(N(0))>>,
    <<MainReturns(N(0)), Global("int", "main")>>,
    <<Global("int", "g"), Global("uint", "g"), MainReturns(N(0))>>,
    <<Global("int", "getchar"), MainReturns(N(0))>>,
    <<GlobalIs("int", "g", Bin(N(1), "/", N(0))), MainReturns(N(0))>>,
    <<GlobalIs("int", "g", V("g")), MainReturns(N(0))>>,
    <<Prototype("uint", "main", << >>), MainReturns(N(0))>>,
    <<MainReturns(N(0)), MainReturns(N(0))>>,
    <<Prototype("int", "main", << >>)>>,
    <<Func("int", "main", <<Param("int", "x")>>, <<Return(N(0))>>)>>,
    <<Main(<<Leave>>)>>,
    <<Func("void", "f", << >>, <<Return(N(0))>>), MainReturns(N(0))>>>>

(* 250 is the largest depth that the signed offsets of 512 addresses reach. *)
AllSources ==
  Arithmetic \o Comparisons \o Logic \o Calls \o Control \o InputOutput
    \o <<Valid(Deep(250)), Invalid(Deep(251))>>
    \o [n \in DOMAIN Refused |-> Invalid(Refused[n])]
=============================================================================
