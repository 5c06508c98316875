--------------------------- MODULE AssemblerPasses ---------------------------
(***************************************************************************)
(* The assembler at work: assemble (assembler.rs) as a machine that looks  *)
(* at one line per step, first to give the labels their addresses and then *)
(* to resolve and place the words.  The two passes keep the location       *)
(* counter each for itself and must agree.                                 *)
(***************************************************************************)
EXTENDS Assembler

CONSTANT SourceTexts      \* the texts to assemble, sequences of lines

(* What the parser makes of a line (parse and Unresolved).                 *)
Operands   == [k : {"number"}, v : Int, hex : BOOLEAN, at : BOOLEAN]
              \cup [k : {"name"}, name : STRING]
Statements == {NoStatement}
              \cup [k : {"instruction"}, m : STRING, operands : Seq(Operands)]
              \cup [k : {"hex", "dec"}, v : Int] \cup [k : {"sym"}, operand : Operands]
SourceLine == [labels : Seq(STRING), org : Int, st : Statements]

ASSUME TextAssumption == SourceTexts \subseteq Seq(SourceLine)

VARIABLES
  source,
  pass,        \* 1, 2, or 3 when the result is returned
  todo,        \* the line that is looked at next
  assembly     \* location counter, symbols, cells and errors

passVars == <<source, pass, todo, assembly>>

PassInit ==
  /\ source \in SourceTexts
  /\ pass = 1 /\ todo = 1
  /\ assembly = Assembly

FirstPass ==
  /\ pass = 1 /\ todo <= Len(source)
  /\ assembly' = Pass1Line(assembly, source[todo])
  /\ todo' = todo + 1
  /\ UNCHANGED <<source, pass>>

(* An error of the first pass ends the assembly.                           *)
BetweenPasses ==
  /\ pass = 1 /\ todo > Len(source)
  /\ IF assembly.errors # << >> THEN pass' = 3 /\ UNCHANGED <<todo, assembly>>
     ELSE pass' = 2 /\ todo' = 1 /\ assembly' = [assembly EXCEPT !.lc = 0]
  /\ UNCHANGED source

SecondPass ==
  /\ pass = 2 /\ todo <= Len(source)
  /\ assembly' = Pass2Line(assembly, source[todo], todo)
  /\ todo' = todo + 1
  /\ UNCHANGED <<source, pass>>

Finish ==
  /\ pass = 2 /\ todo > Len(source)
  /\ pass' = 3
  /\ UNCHANGED <<source, todo, assembly>>

PassNext == FirstPass \/ BetweenPasses \/ SecondPass \/ Finish

PassSpec == PassInit /\ [][PassNext]_passVars

-----------------------------------------------------------------------------
(* When the second pass comes to a line, its labels mean where it is: both *)
(* passes counted the same number of words before it (assembler.rs:146).   *)
LabelsMeanCells ==
  pass = 2 /\ todo <= Len(source) =>
    LET here == Org(assembly, source[todo]).lc
    IN  \A l \in ToSet(source[todo].labels) : assembly.symbols[l] = here

CellsOf(n) == {c \in ToSet(assembly.cells) : c.line = n}

Assembled == pass = 3 /\ assembly.errors = << >>

(* A program that is assembled is whole: no address is written twice, and  *)
(* every statement has its words, one after the other, and those only,     *)
(* from where its labels are (assembler.rs:183).                           *)
ImageComplete ==
  Assembled =>
    /\ IsInjective([n \in DOMAIN assembly.cells |-> assembly.cells[n].address])
    /\ \A n \in DOMAIN source :
         IF source[n].st = NoStatement THEN CellsOf(n) = {}
         ELSE \E first \in CellsOf(n) :
                /\ {<<c.address, c.expansion>> : c \in CellsOf(n)}
                     = {<<first.address + k, k>> : k \in 0 .. Words(source[n].st) - 1}
                /\ \A l \in ToSet(source[n].labels) : assembly.symbols[l] = first.address

(* The processor decodes the words of a line to the instructions the line  *)
(* stands for, so that listing and debug information can show them         *)
(* (assembler.rs:199, "resolved instruction"; isa.rs:315 and 359).         *)
WordsDecode ==
  \A n \in DOMAIN assembly.cells :
    assembly.cells[n].kind = "instruction" =>
      LET st == source[assembly.cells[n].line].st
          is == ResolveInstruction(st.m, st.operands, assembly.symbols).is
      IN  DecodeWord(assembly.cells[n].word) = is[assembly.cells[n].expansion + 1]
=============================================================================
