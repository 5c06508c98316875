----------------------------- MODULE MCToolchain ------------------------------
(***************************************************************************)
(* Toolchain with 512 addresses and words of 18 bits: the smallest machine *)
(* that has every opcode and room for the runtime library.                 *)
(***************************************************************************)
EXTENDS Toolchain, MCBits

C == INSTANCE CPrograms

ToolSources == C!AllSources
Bytes       == 0 .. 255
NoProgram   == {[a \in Address |-> 0]}
=============================================================================
