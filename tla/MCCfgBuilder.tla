---------------------------- MODULE MCCfgBuilder ----------------------------
(***************************************************************************)
(* The builder over every code image of Size bytes from an alphabet of     *)
(* opcodes and displacements.  A displacement byte decodes as an opcode    *)
(* too, so branches into the middle of an instruction are among the        *)
(* programs.                                                               *)
(***************************************************************************)
EXTENDS CfgBuilder

CONSTANTS Size, Alphabet

D == INSTANCE Decoder

MCUndecodable == D!Undecoded

(* What the builder and its consumers read of a decoded instruction.       *)
Boundary(i) ==
  IF i = D!Undecoded THEN MCUndecodable
  ELSE [kind |-> i.kind, size |-> i.size, relative |-> i.relative, indirect |-> i.indirect]

Decoded(bytes) ==
  [size |-> Size,
   at   |-> [offset \in 0 .. Size - 1 |-> Boundary(D!decode_at(bytes, offset))]]

MCPrograms == { Decoded(bytes) : bytes \in [0 .. Size - 1 -> Alphabet] }

(* NOP, RET, INT, JMP short, JE, LOOP, CALL, MOV AL, and displacements.     *)
FlowBytes == {\h90, \hc3, \hcd, \heb, \h74, \he2, \he8, \hb0, \hfd, \hfe, \hff, \h00}
(* MOV AX,imm16; NOP; JE; displacements into and around the MOV.           *)
MidBytes == {\hb8, \h90, \h74, \hfc, \hfb, \hcd}
(* JMP/CALL through a register or memory operand.                          *)
IndirectBytes == {\hff, \he0, \h26, \h90, \hc3}
=============================================================================
