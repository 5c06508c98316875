------------------------------ MODULE CRuntime -------------------------------
(***************************************************************************)
(* The runtime library a compiled program is linked with                   *)
(* (cc/runtime.asm), one assembler line per element.  Arguments are on the *)
(* stack above the return address, the first at the lowest address; the    *)
(* result is in AC.                                                        *)
(***************************************************************************)
EXTENDS Assembler

Op(m)          == Line(<< >>, NoOrg, Inst(m, << >>))
OpBy(m, n)     == Line(<< >>, NoOrg, Inst(m, <<Number(n)>>))
OpTo(m, label) == Line(<< >>, NoOrg, Inst(m, <<Name(label)>>))

(* putchar(c) and getchar() wait for the serial device.                    *)
PutChar ==
  <<LabelLine("__ex3_putchar"), Op("SIO"),
    LabelLine("__ex3_putchar_wait"), Op("SKO"),
    OpTo("JMP", "__ex3_putchar_wait"), OpBy("LDSP", 1), Op("OUT"),
    Op("RET")>>

GetChar ==
  <<LabelLine("__ex3_getchar"), Op("SIO"),
    LabelLine("__ex3_getchar_wait"), Op("SKI"),
    OpTo("JMP", "__ex3_getchar_wait"), Op("CLA"), Op("INP"), Op("RET")>>

(* Mutant: a doubling that wraps is not noticed.                           *)
PassedUncarried(n, take) == <<OpBy("CMPSP", n), OpTo("BUGT", take)>>

(* After a doubling: it wrapped, or is more than the word at SP + n.       *)
Passed(n, take) == <<OpTo("BUGE", take), OpBy("CMPSP", n), OpTo("BUGT", take)>>

(* Multiplication and division double the divisor, or a power of two of    *)
(* the multiplier, until it wraps or passes what is left, take it away     *)
(* and begin again.                                                        *)
MultiplyUnsigned ==
  <<LabelLine("__ex3_mul_u32"), OpBy("ADJSP", -4), Op("CLA"),
    OpBy("STSP", 0), OpBy("LDSP", 6), OpBy("STSP", 1),
    LabelLine("__ex3_mulu_loop"), OpBy("LDSP", 1), OpBy("CMP", 0),
    OpTo("BEQ", "__ex3_mulu_end"), OpBy("LDA", 1), OpBy("STSP", 2),
    OpBy("LDSP", 5), OpBy("STSP", 3),
    LabelLine("__ex3_mulu_inner"), OpBy("LDSP", 2), OpBy("ADDSP", 2)>>
    \o Passed(1, "__ex3_mulu_take") \o
  <<OpBy("STSP", 2), OpBy("LDSP", 3),
    OpBy("ADDSP", 3), OpBy("STSP", 3), OpTo("JMP", "__ex3_mulu_inner"),
    LabelLine("__ex3_mulu_take"), OpBy("LDSP", 1), OpBy("SUBSP", 2),
    OpBy("STSP", 1), OpBy("LDSP", 0), OpBy("ADDSP", 3), OpBy("STSP", 0),
    OpTo("JMP", "__ex3_mulu_loop"),
    LabelLine("__ex3_mulu_end"), OpBy("LDSP", 0), OpBy("ADJSP", 4),
    Op("RET")>>

DivideUnsigned ==
  <<LabelLine("__ex3_div_u32"), OpBy("ADJSP", -4), Op("CLA"),
    OpBy("STSP", 1), OpBy("LDSP", 5), OpBy("STSP", 0),
    LabelLine("__ex3_divu_loop"), OpBy("LDSP", 0), OpBy("CMPSP", 6),
    OpTo("BULT", "__ex3_divu_end"), OpBy("LDSP", 6), OpBy("STSP", 2),
    OpBy("LDA", 1), OpBy("STSP", 3),
    LabelLine("__ex3_divu_inner"), OpBy("LDSP", 2), OpBy("ADDSP", 2)>>
    \o Passed(0, "__ex3_divu_take") \o
  <<OpBy("STSP", 2), OpBy("LDSP", 3),
    OpBy("ADDSP", 3), OpBy("STSP", 3), OpTo("JMP", "__ex3_divu_inner"),
    LabelLine("__ex3_divu_take"), OpBy("LDSP", 0), OpBy("SUBSP", 2),
    OpBy("STSP", 0), OpBy("LDSP", 0), OpBy("LDSP", 1), OpBy("ADDSP", 3),
    OpBy("STSP", 1), OpTo("JMP", "__ex3_divu_loop"),
    LabelLine("__ex3_divu_end"), OpBy("LDSP", 1), OpBy("ADJSP", 4),
    Op("RET")>>

RemainderUnsigned ==
  <<LabelLine("__ex3_mod_u32"), OpBy("ADJSP", -2), OpBy("LDSP", 3),
    OpBy("STSP", 0),
    LabelLine("__ex3_modu_loop"), OpBy("LDSP", 0), OpBy("CMPSP", 4),
    OpTo("BULT", "__ex3_modu_end"), OpBy("LDSP", 4), OpBy("STSP", 1),
    LabelLine("__ex3_modu_inner"), OpBy("LDSP", 1), OpBy("ADDSP", 1)>>
    \o Passed(0, "__ex3_modu_take") \o
  <<OpBy("STSP", 1), OpTo("JMP", "__ex3_modu_inner"),
    LabelLine("__ex3_modu_take"), OpBy("LDSP", 0), OpBy("SUBSP", 1),
    OpBy("STSP", 0), OpTo("JMP", "__ex3_modu_loop"),
    LabelLine("__ex3_modu_end"), OpBy("LDSP", 0), OpBy("ADJSP", 2),
    Op("RET")>>

(* The signed operations take the unsigned one of the magnitudes and put    *)
(* the sign back: mul and div with the sign of both operands, mod with the  *)
(* sign of the first.                                                      *)
BySigns(operation) ==
  LET helper(type) == "__ex3_" \o operation \o "_" \o type
      local(place) == "__ex3_" \o operation \o "i_" \o place
  IN
  <<LabelLine(helper("i32")), OpBy("ADJSP", -3), OpBy("LDSP", 4),
    OpBy("CMP", 0), OpTo("BGE", local("aok")), OpBy("STSP", 0), Op("CLA"),
    OpBy("SUBSP", 0),
    LabelLine(local("aok")), OpBy("STSP", 0), OpBy("LDSP", 5),
    OpBy("CMP", 0), OpTo("BGE", local("bok")), OpBy("STSP", 1), Op("CLA"),
    OpBy("SUBSP", 1),
    LabelLine(local("bok")), OpBy("STSP", 1), OpBy("LDSP", 1), Op("PUSH"),
    OpBy("LDSP", 1), Op("PUSH"), OpTo("CALL", helper("u32")),
    OpBy("ADJSP", 2), OpBy("STSP", 2), OpBy("LDSP", 4), OpBy("CMP", 0),
    OpTo("BLT", local("aneg")), OpBy("LDSP", 5), OpBy("CMP", 0),
    OpTo("BLT", local("neg")), OpTo("JMP", local("ret")),
    LabelLine(local("aneg")), OpBy("LDSP", 5), OpBy("CMP", 0),
    OpTo("BLT", local("ret")),
    LabelLine(local("neg")), Op("CLA"), OpBy("SUBSP", 2), OpBy("STSP", 2),
    LabelLine(local("ret")), OpBy("LDSP", 2), OpBy("ADJSP", 3), Op("RET")>>

RemainderSigned ==
  <<LabelLine("__ex3_mod_i32"), OpBy("ADJSP", -2), OpBy("LDSP", 3),
    OpBy("CMP", 0), OpTo("BGE", "__ex3_modi_aok"), OpBy("STSP", 0),
    Op("CLA"), OpBy("SUBSP", 0),
    LabelLine("__ex3_modi_aok"), OpBy("STSP", 0), OpBy("LDSP", 4),
    OpBy("CMP", 0), OpTo("BGE", "__ex3_modi_bok"), OpBy("STSP", 1),
    Op("CLA"), OpBy("SUBSP", 1),
    LabelLine("__ex3_modi_bok"), OpBy("STSP", 1), OpBy("LDSP", 1),
    Op("PUSH"), OpBy("LDSP", 1), Op("PUSH"), OpTo("CALL", "__ex3_mod_u32"),
    OpBy("ADJSP", 2), OpBy("STSP", 0), OpBy("LDSP", 3), OpBy("CMP", 0),
    OpTo("BGE", "__ex3_modi_ret"), Op("CLA"), OpBy("SUBSP", 0),
    OpBy("STSP", 0),
    LabelLine("__ex3_modi_ret"), OpBy("LDSP", 0), OpBy("ADJSP", 2),
    Op("RET")>>

Runtime ==
  PutChar \o GetChar \o MultiplyUnsigned \o DivideUnsigned \o RemainderUnsigned
    \o BySigns("mul") \o BySigns("div") \o RemainderSigned
=============================================================================
