----------------------------- MODULE MCAssembler ------------------------------
(***************************************************************************)
(* Every text of four of these lines, on a machine of 256 addresses.       *)
(***************************************************************************)
EXTENDS AssemblerPasses, MCBits

Bare(m, operands) == Line(<< >>, NoOrg, Inst(m, operands))
Hex(n)            == [Number(n) EXCEPT !.hex = TRUE]
AtNumber(n)       == [Number(n) EXCEPT !.at = TRUE]

LineSet ==
  {Line(<<"a">>, NoOrg, Inst("PUSH", << >>)),
   Line(<<"b", "c">>, NoOrg, Inst("POP", << >>)),
   Line(<<"a">>, 3, NoStatement),
   Line(<<"c">>, 254, Inst("JMP", <<Name("a")>>)),
   Line(<<"d">>, NoOrg, SymData(Name("b"))),
   Line(<< >>, 2, HexData(65535)),
   Bare("LDA", <<Name("b"), Name("I")>>),
   Bare("ISZ", <<Number(255)>>),
   Bare("ADD", <<Number(200)>>),
   Bare("ADD", <<Hex(200)>>),
   Bare("AND", <<Number(-1)>>),
   Bare("STA", <<AtNumber(7)>>),
   Bare("LDSP", <<Number(-128)>>),
   Bare("HLT", << >>),
   Line(<<"I">>, 256, DecData(-32768)),
   Bare("PUSH", <<Number(1)>>)}

Texts == [1 .. 4 -> LineSet]
=============================================================================
