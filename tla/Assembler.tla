------------------------------ MODULE Assembler ------------------------------
(***************************************************************************)
(* The two-pass assembler (assembler.rs), from parsed lines to a memory    *)
(* image, a symbol table and a source map.                                 *)
(*                                                                         *)
(* A line has labels, perhaps an ORG and perhaps a statement.  Operands    *)
(* are names or numbers; a number remembers whether it was written in      *)
(* hexadecimal and whether behind an "@", which decide how it is read.     *)
(***************************************************************************)
EXTENDS Encoding, SequencesExt

NoOrg       == -1
NoStatement == [k |-> "none"]

Line(labels, org, st) == [labels |-> labels, org |-> org, st |-> st]

LabelLine(name)     == Line(<<name>>, NoOrg, NoStatement)
Number(n)           == [k |-> "number", v |-> n, hex |-> FALSE, at |-> FALSE]
Name(s)             == [k |-> "name", name |-> s]
Inst(m, operands)   == [k |-> "instruction", m |-> m, operands |-> operands]
HexData(n)          == [k |-> "hex", v |-> n]
DecData(n)          == [k |-> "dec", v |-> n]
SymData(operand)    == [k |-> "sym", operand |-> operand]

(* Mutant: every statement is one word.                                    *)
OneWord(st) == 1

(* Unresolved::words: how far the first pass moves.                        *)
Words(st) == IF st.k = "instruction" /\ st.m \in {"PUSH", "POP"} THEN 2 ELSE 1

-----------------------------------------------------------------------------
(* Operands.  A reading is an error or NoError, and a value.               *)
NoError == "none"

Read(v)   == [error |-> NoError, v |-> v]
Refuse(e) == [error |-> e, v |-> 0]

SymbolOrAddress(o, symbols) ==
  CASE o.k = "number" /\ o.at -> Refuse("InvalidNumber")
    [] o.k = "number" /\ ~ o.at ->
         IF o.v \in Address THEN Read(o.v) ELSE Refuse("AddressOutOfRange")
    [] o.k = "name" -> IF o.name \in DOMAIN symbols THEN Read(symbols[o.name])
                       ELSE Refuse("UndefinedSymbol")

(* A number is kept modulo the half word: "as u16".                        *)
Fitting(o, fits) ==
  IF o.k = "name" \/ (o.k = "number" /\ o.at) THEN Refuse("InvalidNumber")
  ELSE IF fits THEN Read(o.v % HalfSize) ELSE Refuse("ImmediateOutOfRange")

MaxSigned == HalfSize \div 2 - 1

Signed16(o) ==
  Fitting(o, o.v \in -(MaxSigned + 1) .. MaxSigned \/ (o.hex /\ o.v < HalfSize))
Raw16(o) == Fitting(o, o.v \in -(MaxSigned + 1) .. HalfSize - 1)

-----------------------------------------------------------------------------
(* resolve_instruction.  A resolution is an error or instructions.         *)

Instructions(is) == [error |-> NoError, is |-> is]
Reject(e)        == [error |-> e, is |-> << >>]
Apply(reading, i(_)) ==
  IF reading.error # NoError THEN Reject(reading.error) ELSE Instructions(<<i(reading.v)>>)

AdjSp(n)  == [fmt |-> "immediate", op |-> "ADJSP", value |-> n % HalfSize]
AtSp(op)  == [fmt |-> "sp", op |-> op, offset |-> 0]

Expansion(m) == IF m = "PUSH" THEN <<AdjSp(-1), AtSp("ST")>>
                              ELSE <<AtSp("LD"), AdjSp(1)>>

Mnemonic(op)   == CASE op = "LD" -> "LDA" [] op = "ST" -> "STA" [] OTHER -> op
SpMnemonic(op) == op \o "SP"
OpNamed(m, ops, mnemonic(_)) == CHOOSE o \in ops : mnemonic(o) = m
Names(ops, mnemonic(_))      == {mnemonic(o) : o \in ops}

Memory(m, o, indirect, symbols) ==
  IF m \notin Names(MemoryOps, Mnemonic) THEN Reject("UnknownMnemonic")
  ELSE Apply(SymbolOrAddress(IF o.k = "number" THEN [o EXCEPT !.at = FALSE] ELSE o, symbols),
             LAMBDA a : [fmt |-> "memory", op |-> OpNamed(m, MemoryOps, Mnemonic),
                         address |-> a, indirect |-> indirect])

Immediate(m, o) ==
  IF m \notin Names(ImmediateOps, Mnemonic) THEN Reject("UnknownMnemonic")
  ELSE Apply(IF m \in {"AND", "OR", "XOR", "LDHI", "LDLO"} THEN Raw16(o) ELSE Signed16(o),
             LAMBDA v : [fmt |-> "immediate", op |-> OpNamed(m, ImmediateOps, Mnemonic),
                         value |-> v])

ResolveInstruction(m, os, symbols) ==
  LET indirect == Len(os) = 2
      o        == os[1]
  IN  IF m \in {"PUSH", "POP"}
      THEN IF os # << >> THEN Reject("Syntax") ELSE Instructions(Expansion(m))
      ELSE IF m \in SystemOps
      THEN IF os # << >> THEN Reject("Syntax")
           ELSE Instructions(<<[fmt |-> "system", op |-> m]>>)
      ELSE IF Len(os) \notin {1, 2} \/ (indirect /\ os[2] # Name("I"))
      THEN Reject("Syntax")
      ELSE IF m \in BranchOps
      THEN IF indirect THEN Reject("Syntax")
           ELSE Apply(SymbolOrAddress(o, symbols),
                      LAMBDA a : [fmt |-> "branch", op |-> m, target |-> a])
      ELSE IF m \in Names(SpOps, SpMnemonic)
      THEN IF indirect THEN Reject("Syntax")
           ELSE Apply(Signed16(o),
                      LAMBDA v : [fmt |-> "sp", op |-> OpNamed(m, SpOps, SpMnemonic),
                                  offset |-> v])
      ELSE IF m \in {"LDHI", "LDLO", "ADJSP"}
      THEN IF indirect THEN Reject("Syntax") ELSE Immediate(m, o)
      ELSE IF indirect \/ o.k = "name" \/ o.at \/ m \in {"STA", "ISZ"}
      THEN Memory(m, o, indirect, symbols)
      ELSE Immediate(m, o)

(* resolve: the words of a statement, each with what it is.                *)
Cell(word, kind, i)   == [word |-> word, kind |-> kind, instruction |-> i]
Resolved(cells)       == [error |-> NoError, cells |-> cells]
Unresolvable(e)       == [error |-> e, cells |-> << >>]
DataCell(fits, v)     == IF fits THEN Resolved(<<Cell(v % WordSize, "data", Illegal)>>)
                         ELSE Unresolvable("InvalidNumber")

Resolve(st, symbols) ==
  CASE st.k = "hex" -> DataCell(st.v \in Word, st.v)
    [] st.k = "dec" -> DataCell(st.v \in -HalfWord .. HalfWord - 1, st.v)
    [] st.k = "sym" ->
         LET a == SymbolOrAddress(st.operand, symbols)
         IN  IF a.error # NoError THEN Unresolvable(a.error)
             ELSE Resolved(<<Cell(a.v, "symbol", Illegal)>>)
    [] st.k = "instruction" ->
         LET r == ResolveInstruction(st.m, st.operands, symbols)
         IN  IF r.error # NoError THEN Unresolvable(r.error)
             ELSE Resolved([n \in DOMAIN r.is |->
                              Cell(Encode(r.is[n]), "instruction", DecodeWord(Encode(r.is[n])))])

-----------------------------------------------------------------------------
(* assemble, one line of a pass at a time.                                 *)

Assembly == [lc |-> 0, symbols |-> << >>, cells |-> << >>, errors |-> << >>]

Fail(s, e) == [s EXCEPT !.errors = Append(@, e)]

Org(s, line) ==
  CASE line.org = NoOrg    -> s
    [] line.org \in Address -> [s EXCEPT !.lc = line.org]
    [] OTHER               -> Fail(s, "AddressOutOfRange")

WithSymbol(symbols, l, a) ==
  [x \in DOMAIN symbols \cup {l} |-> IF x = l THEN a ELSE symbols[x]]

(* "I" marks an indirect operand and is no label.                          *)
DefineLabel(s, l) ==
  CASE l = "I"                  -> Fail(s, "Syntax")
    [] l # "I" /\ l \in DOMAIN s.symbols -> Fail(s, "DuplicateLabel")
    [] l # "I" /\ l \notin DOMAIN s.symbols ->
         IF s.lc \notin Address THEN Fail(s, "AddressOutOfRange")
         ELSE [s EXCEPT !.symbols = WithSymbol(@, l, s.lc)]

(* The labels of a line, one after the other.                             *)
DefineLabels(s, labels) ==
  LET after[n \in 0 .. Len(labels)] ==
        IF n = 0 THEN s ELSE DefineLabel(after[n - 1], labels[n])
  IN  after[Len(labels)]

WordsOf(line) == IF line.st = NoStatement THEN 0 ELSE Words(line.st)

Pass1Line(s, line) ==
  LET labelled == DefineLabels(Org(s, line), line.labels)
  IN  [labelled EXCEPT !.lc = @ + WordsOf(line)]

Used(s, a) == \E n \in DOMAIN s.cells : s.cells[n].address = a

(* Mutant: overlapping cells are kept.                                     *)
PlaceAnyway(s, c, line, expansion) ==
  LET next == [s EXCEPT !.lc = @ + 1]
  IN  IF s.lc \notin Address THEN Fail(next, "AddressOutOfRange")
      ELSE [next EXCEPT !.cells =
              Append(@, [address |-> s.lc, word |-> c.word, kind |-> c.kind, line |-> line,
                         expansion |-> expansion, instruction |-> c.instruction])]

Place(s, c, line, expansion) ==
  LET next == [s EXCEPT !.lc = @ + 1]
  IN  IF s.lc \notin Address THEN Fail(next, "AddressOutOfRange")
      ELSE IF Used(s, s.lc) THEN Fail(next, "OverlappingAddress")
      ELSE [next EXCEPT !.cells =
              Append(@, [address |-> s.lc, word |-> c.word, kind |-> c.kind, line |-> line,
                         expansion |-> expansion, instruction |-> c.instruction])]

(* The words of a statement, one or two.                                   *)
PlaceWords(s, cells, line) ==
  LET first == Place(s, cells[1], line, 0)
  IN  IF Len(cells) = 1 THEN first ELSE Place(first, cells[2], line, 1)

Pass2Line(s, line, number) ==
  LET t == Org(s, line)
      r == Resolve(line.st, s.symbols)
  IN  IF line.st = NoStatement THEN t
      ELSE IF r.error # NoError THEN [Fail(t, r.error) EXCEPT !.lc = @ + Words(line.st)]
      ELSE PlaceWords(t, r.cells, number)
=============================================================================
