------------------------------- MODULE MCBits --------------------------------
(***************************************************************************)
(* The bitwise operations of a half word, for model checking: a digit of   *)
(* four bits at a time, from tables with an entry for every two digits.    *)
(***************************************************************************)
EXTENDS Integers, LongFolds

LOCAL Table(bit(_, _)) ==
  LET entry(n) == LET at(k) == bit((n \div (16 * k)) % 2, (n \div k) % 2)
                  IN  at(1) + 2 * at(2) + 4 * at(4) + 8 * at(8)
  IN  MapLong(entry, [n \in 1 .. 256 |-> n - 1])

LOCAL AndTable == Table(LAMBDA x, y : x * y)
LOCAL OrTable  == Table(LAMBDA x, y : x + y - x * y)
LOCAL XorTable == Table(LAMBDA x, y : (x + y) % 2)

LOCAL Combined(table, a, b) ==
  LET digit(n) == table[16 * ((a \div n) % 16) + ((b \div n) % 16) + 1]
  IN  digit(1) + 16 * digit(16) + 256 * digit(256)

MCAnd(a, b) == Combined(AndTable, a, b)
MCOr(a, b)  == Combined(OrTable, a, b)
MCXor(a, b) == Combined(XorTable, a, b)
=============================================================================
