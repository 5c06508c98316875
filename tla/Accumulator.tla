----------------------------- MODULE Accumulator -----------------------------
(***************************************************************************)
(* What compiled code relies on when it branches on the outcome of CMP,    *)
(* SUB or ADD: the accumulator and its flags under an arbitrary sequence   *)
(* of arithmetic, with the operands of the last operation remembered.      *)
(***************************************************************************)
EXTENDS Alu

VARIABLES ac, psr,
          last       \* [op, a, b] of the operation the flags describe

avars == <<ac, psr, last>>

Arithmetic == {"ADD", "SUB", "CMP", "LD"}

TypeOK ==
  /\ ac \in Word
  /\ psr \in Psr
  /\ last \in [op : Arithmetic, a : Word, b : Word]

Init ==
  /\ ac = 0
  /\ psr = AluFlags("LD", ClearPsr, 0, 0)
  /\ last = [op |-> "LD", a |-> 0, b |-> 0]

Operate(op, b) ==
  /\ ac' = IF op = "CMP" THEN ac ELSE AluResult(op, ac, b)
  /\ psr' = AluFlags(op, psr, ac, b)
  /\ last' = [op |-> op, a |-> ac, b |-> b]

Next == \E op \in Arithmetic, b \in Word : Operate(op, b)

Spec == Init /\ [][Next]_avars

-----------------------------------------------------------------------------
(* After CMP or SUB every conditional branch is taken exactly when its     *)
(* relation holds between the two operands: the signed ones on the two's   *)
(* complement values, BULT to BULE on the unsigned ones, whatever wrapped. *)
Relation(op, a, b) ==
  CASE op = "BEQ"  -> a = b
    [] op = "BNE"  -> a # b
    [] op = "BLT"  -> Signed(a) < Signed(b)
    [] op = "BGE"  -> Signed(a) >= Signed(b)
    [] op = "BGT"  -> Signed(a) > Signed(b)
    [] op = "BLE"  -> Signed(a) <= Signed(b)
    [] op = "BULT" -> a < b
    [] op = "BUGE" -> a >= b
    [] op = "BUGT" -> a > b
    [] op = "BULE" -> a <= b

BranchesAgree ==
  last.op \in {"CMP", "SUB"} =>
    \A op \in BranchOps \ {"JMP", "CALL"} :
      Taken(op, psr) <=> Relation(op, last.a, last.b)

(* After ADD the carry says that the unsigned sum did not fit in a word    *)
(* and the overflow flag that the signed one did not.                      *)
AddFlagsExact ==
  last.op = "ADD" =>
    /\ psr.c <=> last.a + last.b # ac
    /\ psr.v <=> Signed(last.a) + Signed(last.b) # Signed(ac)
=============================================================================
