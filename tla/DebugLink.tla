------------------------------ MODULE DebugLink ------------------------------
(***************************************************************************)
(* Linking the compiler's debug information with the assembled program     *)
(* (debug_info.rs): contexts of generated lines become contexts of         *)
(* addresses, frames get their functions' addresses, labels their ranges.  *)
(*                                                                         *)
(* compiled is what CCodegen's Compile returns and asm what Assemble       *)
(* returns.  Functions are numbered from one, in both.                     *)
(***************************************************************************)
EXTENDS Isa, LongFolds, SequencesExt

LOCAL HasPrefix(name, p) == Len(name) >= Len(p) /\ SubSeq(name, 1, Len(p)) = p

(* The cell at an address: addresses are distinct.                         *)
CellMap(cells) == Indexed(LAMBDA c : c.address, LAMBDA c : c, cells)

InstructionCells(cells) == SelectSeq(cells, LAMBDA c : c.kind = "instruction")
Executable(cells)       == {c.address : c \in ToSet(InstructionCells(cells))}

(* PUSH lowers SP before it stores.                                        *)
IsPushStore(cell) ==
  cell.expansion > 0 /\ cell.instruction = [fmt |-> "sp", op |-> "ST", offset |-> 0]

(* Mutant: both words of a PUSH have the context of the first.             *)
UncorrectedContext(cell, c) == c

LinkedContext(cell, c) == [c EXCEPT !.delta = @ + IF IsPushStore(cell) THEN 1 ELSE 0]

Lines(debug) == {d.line : d \in ToSet(debug)}
StatesByLine(debug) ==
  Indexed(LAMBDA d : d.line, LAMBDA d : d.context, debug)

(* The context of every executable address that has one.                   *)
LinkedInstructions(debug, cells) ==
  LET byLine == StatesByLine(debug)
  IN  Indexed(LAMBDA c : c.address, LAMBDA c : LinkedContext(c, byLine[c.line]),
              SelectSeq(InstructionCells(cells), LAMBDA c : c.line \in DOMAIN byLine))

AddressesOf(f, instructions) == {a \in DOMAIN instructions : instructions[a].f = f}

LinkFunction(frame, f, instructions) ==
  [frame |-> frame, start |-> Min(AddressesOf(f, instructions))]

(* link_symbols: a symbol reaches to the next one or to the last cell of   *)
(* its kind, instruction or data.                                          *)
SymbolKind(name, start, isCode, names, instructions) ==
  IF ~ isCode THEN "data"
  ELSE IF HasPrefix(name, "__ex3_") THEN "runtime"
  ELSE IF name \in names \/ start \in DOMAIN instructions THEN "function"
  ELSE "assembly"

LinkSymbols(symbols, cellAt, names, instructions) ==
  LET starts == {symbols[s] : s \in DOMAIN symbols}
      isCode(a) == cellAt[a].kind = "instruction"
      reaches[a \in DOMAIN cellAt] ==
        IF a + 1 \in DOMAIN cellAt /\ a + 1 \notin starts /\ isCode(a + 1) = isCode(a)
        THEN reaches[a + 1] ELSE a
  IN  {[name |-> s, start |-> symbols[s], last |-> reaches[symbols[s]],
        kind |-> SymbolKind(s, symbols[s], isCode(symbols[s]), names, instructions)] :
         s \in {t \in DOMAIN symbols : symbols[t] \in DOMAIN cellAt}}

-----------------------------------------------------------------------------
(* link_program_debug_info.                                                *)

Described(debug, cells) == {c.line : c \in ToSet(InstructionCells(cells))}

FunctionLinks(frame, f, asm, instructions) ==
  /\ frame.name \in DOMAIN asm.symbols
  /\ AddressesOf(f, instructions) # {}
  /\ asm.symbols[frame.name] = LinkFunction(frame, f, instructions).start

Links(compiled, asm) ==
  LET debug == compiled.debug
      instructions == LinkedInstructions(debug, asm.cells)
  IN  /\ \A n \in DOMAIN debug : debug[n].context.f \in DOMAIN compiled.frames
      /\ IsInjective([n \in DOMAIN debug |-> debug[n].line])
      /\ Lines(debug) \subseteq Described(debug, asm.cells)
      /\ \A f \in DOMAIN compiled.frames :
           FunctionLinks(compiled.frames[f], f, asm, instructions)

Link(compiled, asm) ==
  LET instructions == LinkedInstructions(compiled.debug, asm.cells)
      names == {f.name : f \in ToSet(compiled.frames)}
      numbered == [f \in DOMAIN compiled.frames |-> f]
  IN  [functions    |-> MapLong(LAMBDA f : LinkFunction(compiled.frames[f], f, instructions),
                                numbered),
       instructions |-> instructions,
       symbols      |-> LinkSymbols(asm.symbols, CellMap(asm.cells), names, instructions),
       executable   |-> Executable(asm.cells)]
=============================================================================
