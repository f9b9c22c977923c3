--------------------------- MODULE MCStraightLine ---------------------------
(***************************************************************************)
(* The control-flow graph, its consumers and the straight-line compiler    *)
(* over every image of a small alphabet, and over single programs that     *)
(* need a particular length.                                               *)
(***************************************************************************)
EXTENDS MCCfgBuilder, StraightLine, GraphConsumers

Image(bytes) == Decoded([i \in 0 .. Size - 1 |-> bytes[i + 1]])

(* MOV AH,02h; INT 21h; JMP $: a character, then an endless loop.           *)
PrintThenLoop == {Image(<<\hb4, \h02, \hcd, \h21, \heb, \hfe>>)}
(* INT 21h; entry: MOV AX,4C00h; JMP to the INT.                           *)
EntryBehindExit == {Image(<<\hcd, \h21, \hb8, \h00, \h4c, \heb, \hf9>>)}
(* CALL f; INT 21h; f: RET.                                                *)
CallThenExit == {Image(<<\he8, \h02, \h00, \hcd, \h21, \hc3>>)}
(* L: NOP; LOOP L; INT 21h.                                                *)
LoopThenExit == {Image(<<\h90, \he2, \hfd, \hcd, \h21>>)}
=============================================================================
