-------------------------- MODULE AccumulatorProofs --------------------------
(***************************************************************************)
(* Accumulator for every word size: branches after CMP and SUB follow the  *)
(* order of the operands, and the flags of ADD report what did not fit.    *)
(***************************************************************************)
EXTENDS Accumulator, ValueProofs

(* The accumulator stays a word under every sequence of operations.        *)
THEOREM TypeCorrect == Spec => []TypeOK
<1>1. 0 \in Word /\ ClearPsr \in Psr
  BY SizeFacts DEF Word, ClearPsr, Psr
<1>2. Arithmetic \subseteq AluOps
  BY DEF Arithmetic, AluOps
<1>3. Init => TypeOK
  BY <1>1, <1>2, AluFlagsType DEF Init, TypeOK, Arithmetic
<1>4. TypeOK /\ [Next]_avars => TypeOK'
  <2>1. ASSUME TypeOK, NEW op \in Arithmetic, NEW b \in Word, Operate(op, b)
        PROVE  TypeOK'
    BY <1>2, <2>1, AluResultType, AluFlagsType DEF Operate, TypeOK
  <2>2. CASE UNCHANGED avars
    BY <2>2 DEF avars, TypeOK
  <2> QED BY <2>1, <2>2 DEF Next
<1> QED BY <1>3, <1>4, PTL DEF Spec

(* The flags are those of the last operation, on the operands remembered,  *)
(* and the accumulator holds its result unless it was CMP.                 *)
Described ==
  /\ \E p \in Psr : psr = AluFlags(last.op, p, last.a, last.b)
  /\ last.op = "ADD" => ac = AddWord(last.a, last.b)

LEMMA DescribedCorrect == Spec => []Described
<1>1. Init => Described
  <2>1. ClearPsr \in Psr
    BY DEF ClearPsr, Psr
  <2> QED BY <2>1 DEF Init, Described
<1>2. TypeOK /\ Described /\ [Next]_avars => Described'
  <2>1. ASSUME TypeOK, NEW op \in Arithmetic, NEW b \in Word, Operate(op, b)
        PROVE  Described'
    <3>1. /\ psr \in Psr /\ psr' = AluFlags(op, psr, ac, b)
          /\ last'.op = op /\ last'.a = ac /\ last'.b = b
      BY <2>1 DEF Operate, TypeOK
    <3>2. op = "ADD" => ac' = AddWord(ac, b)
      BY <2>1 DEF Operate, AluResult
    <3> QED BY <3>1, <3>2 DEF Described
  <2>2. CASE UNCHANGED avars
    BY <2>2 DEF avars, Described
  <2> QED BY <2>1, <2>2 DEF Next
<1> QED BY <1>1, <1>2, TypeCorrect, PTL DEF Spec

(* After CMP or SUB each of the ten conditional branches is taken exactly  *)
(* when its relation holds, for operands of any size (Cpu::execute).       *)
THEOREM BranchesCorrect == Spec => []BranchesAgree
<1>1. TypeOK /\ Described => BranchesAgree
  <2> SUFFICES ASSUME TypeOK, Described, last.op \in {"CMP", "SUB"},
                      NEW op \in BranchOps \ {"JMP", "CALL"}
               PROVE  Taken(op, psr) <=> Relation(op, last.a, last.b)
    BY DEF BranchesAgree
  <2> DEFINE a == last.a
             b == last.b
  <2>1. a \in Word /\ b \in Word
    BY DEF TypeOK
  <2>2. PICK p \in Psr : psr = SubtractionFlags(p, a, b)
    BY DEF Described, AluFlags
  <2>3. /\ psr.z <=> a = b
        /\ psr.c <=> a >= b
        /\ psr.n # psr.v <=> Signed(a) < Signed(b)
    BY <2>1, <2>2, SubtractionMeaning
  <2>4. /\ a \in Int /\ b \in Int
        /\ Signed(a) \in Int /\ Signed(b) \in Int
        /\ Signed(a) = Signed(b) <=> a = b
    BY <2>1, SizeFacts DEF Word, Signed, Negative
  <2>5. psr.n = psr.v <=> Signed(a) >= Signed(b)
    BY <2>3, <2>4
  <2> HIDE DEF a, b
  <2> QED BY <2>3, <2>4, <2>5 DEF Taken, Relation, BranchOps, a, b
<1> QED BY <1>1, TypeCorrect, DescribedCorrect, PTL

(* Carry and overflow of ADD are exact (Cpu::add).                         *)
THEOREM AddFlagsCorrect == Spec => []AddFlagsExact
<1>1. TypeOK /\ Described => AddFlagsExact
  <2> SUFFICES ASSUME TypeOK, Described, last.op = "ADD"
               PROVE  /\ psr.c <=> last.a + last.b # ac
                      /\ psr.v <=> Signed(last.a) + Signed(last.b) # Signed(ac)
    BY DEF AddFlagsExact
  <2>1. last.a \in Word /\ last.b \in Word
    BY DEF TypeOK
  <2>2. PICK p \in Psr : psr = AddFlags(p, last.a, last.b)
    BY DEF Described, AluFlags
  <2> QED BY <2>1, <2>2, AddMeaning DEF Described
<1> QED BY <1>1, TypeCorrect, DescribedCorrect, PTL
=============================================================================
