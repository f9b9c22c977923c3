-------------------------- MODULE MCBranchingBlocks --------------------------
(***************************************************************************)
(* The branching compiler over every image of Size bytes of an alphabet,   *)
(* and over single programs that need a particular length.                 *)
(***************************************************************************)
EXTENDS BranchingBlocks

CONSTANTS Size, Alphabet

D == INSTANCE Decoder

MCUndecodable == D!Undecoded

(* An interrupt instruction is a service if its number is 10h, 16h or 21h. *)
Instruction(bytes, p) ==
  LET i == D!decode_at(bytes, p)
  IN  IF i = D!Undecoded THEN MCUndecodable
      ELSE [kind |-> i.kind, size |-> i.size, relative |-> i.relative, indirect |-> i.indirect,
            service |-> bytes[p] = \hcd /\ bytes[p + 1] \in {\h10, \h16, \h21}]

Decoded(bytes) ==
  LET n == Cardinality(DOMAIN bytes)
      ints == {0} \cup { p \in 0 .. n - 2 : bytes[p] = \hcd /\ bytes[p + 1] = \h21 }
  IN  [size |-> n,
       at |-> [p \in 0 .. n - 1 |-> Instruction(bytes, p)],
       last_interrupt |-> CHOOSE p \in ints : \A q \in ints : q <= p]

MCPrograms == { Decoded(bytes) : bytes \in [0 .. Size - 1 -> Alphabet] }

(* INT, 21h (AND r/m8), JMP short, JE, RET, CALL, MOVSB, CLD, LOOP and     *)
(* displacements.                                                          *)
FlowBytes == {\hcd, \h21, \heb, \h74, \hc3, \ha4, \hfc, \hfd, \h00}

Image(bytes) == Decoded([i \in 0 .. Len(bytes) - 1 |-> bytes[i + 1]])

(* Calls, loops around string instructions, indirect transfers, code       *)
(* behind the first and behind the last interrupt.                         *)
Idioms ==
  { Image(<<\he8, \h02, \h00, \hcd, \h21, \hc3>>),        \* CALL f; INT 21h; f: RET
    Image(<<\hcd, \h21, \he8, \h01, \h00, \hc3, \hc3>>),  \* INT 21h; CALL f; RET; f: RET
    Image(<<\he8, \hfd, \hff, \hc3>>),                    \* f: CALL f; RET
    Image(<<\ha4, \hfc, \h75, \hfc, \hcd, \h21>>),        \* L: MOVSB; CLD; JNE L; INT 21h
    Image(<<\hfc, \ha4, \hfc, \h75, \hfb, \hcd, \h21>>),  \* L: CLD; MOVSB; CLD; JNE L; INT 21h
    Image(<<\hff, \he0, \hcd, \h21>>),                    \* JMP AX; INT 21h
    Image(<<\hff, \hd0, \h90, \hcd, \h21>>),              \* CALL AX; NOP; INT 21h
    Image(<<\hcd, \h21, \hc3>>),                          \* INT 21h; RET
    Image(<<\hcd, \h21, \ha4, \hcd, \h21>>),              \* INT 21h; MOVSB; INT 21h
    Image(<<\hfc, \h74, \h02, \heb, \hfb, \hcd, \h21>>),  \* L: CLD; JE E; JMP L; E: INT 21h
    Image(<<\heb, \h02, \h74, \h10, \hcd, \h21>>),        \* JMP over data; INT 21h
    Image(<<\hcd, \h21, \hfc, \hff, \he0, \hcd, \h21>>) }  \* INT 21h; CLD; JMP AX; INT 21h

AllPrograms == MCPrograms \cup Idioms
=============================================================================
