------------------------------ MODULE LongFolds ------------------------------
(***************************************************************************)
(* A fold for long sequences, such as the lines of a program: like         *)
(* FoldLeft of SequencesExt, but by halves, so that evaluating it nests    *)
(* only as deep as the logarithm of the length.                            *)
(***************************************************************************)
EXTENDS Integers, Sequences, TLC

(* The value of the first half is a bound variable to make it a value      *)
(* before the second half is looked at.                                    *)
FoldLong(op(_, _), base, s) ==
  LET RECURSIVE fold(_, _, _)
      fold(acc, from, to) ==
        IF from > to THEN acc
        ELSE IF from = to THEN op(acc, s[from])
        ELSE LET mid == (from + to) \div 2
             IN  CHOOSE r \in {fold(v, mid + 1, to) : v \in {fold(acc, from, mid)}} : TRUE
  IN  fold(base, 1, Len(s))

FlattenLong(ss)   == FoldLong(LAMBDA all, s : all \o s, << >>, ss)
MapLong(f(_), s)  == FoldLong(LAMBDA all, e : Append(all, f(e)), << >>, s)

(* The function that maps key(e) to value(e), for the elements e of s; the *)
(* first of two with the same key counts.                                  *)
Indexed(key(_), value(_), s) ==
  FoldLong(LAMBDA all, e : all @@ (key(e) :> value(e)), << >>, s)
=============================================================================
