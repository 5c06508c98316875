---------------------------- MODULE MCPlayground -----------------------------
(* Three programs: one halts, one never ends, one runs into a word that is *)
(* no instruction.                                                         *)
EXTENDS Playground

CONSTANTS halts, loops, fails

MCLength == [p \in Program |-> 2]
MCEnding == [p \in Program |-> CASE p = halts -> "halt" [] p = loops -> "loop"
                                 [] p = fails -> "error"]
=============================================================================
