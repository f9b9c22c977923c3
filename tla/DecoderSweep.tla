---------------------------- MODULE DecoderSweep ----------------------------
(***************************************************************************)
(* A linear sweep of the decoder over a code image: the position moves by  *)
(* the size of each decoded instruction, as in the loops of the recovery   *)
(* passes, until the image ends or an instruction does not decode.         *)
(***************************************************************************)
EXTENDS Decoder

CONSTANT Images          \* the code images swept

ASSUME ImagesAssumption ==
  \A image \in Images : CodeLen(image) \in Nat /\ image \in [0 .. CodeLen(image) - 1 -> Byte]

VARIABLES
  code,                  \* the image
  position,              \* the offset of the next instruction
  decoded                \* what decode_at returns there

vars == <<code, position, decoded>>

Init ==
  /\ code \in Images
  /\ position = 0
  /\ decoded = decode_at(code, 0)

Sweep ==
  /\ decoded # Undecoded
  /\ position' = position + decoded.size
  /\ decoded' = decode_at(code, position')
  /\ UNCHANGED code

Next == Sweep
Spec == Init /\ [][Next]_vars

(* An instruction fits the 8086's fifteen bytes and the image: the sweep   *)
(* never steps past the end, whatever prefixes and displacements it met.   *)
TypeOK == code \in [0 .. CodeLen(code) - 1 -> Byte] /\ position \in 0 .. CodeLen(code)

(* What lies after an instruction never matters: cutting the image at its  *)
(* end changes nothing, so no length check of decode_at is too strict and  *)
(* no field of the record depends on a byte of the next instruction.       *)
SelfContained ==
  /\ TypeOK
  /\ decoded # Undecoded =>
       decode_at([i \in 0 .. position + decoded.size - 1 |-> code[i]], position) = decoded

(* Prefixes move the start of an instruction, not where it transfers to:   *)
(* the target computed from the prefixed record is that of the bare one,   *)
(* although its relative target was computed at another offset.            *)
PrefixKeepsTarget ==
  decoded # Undecoded =>
    LET bare == position + PrefixCount(code, position)
        raw  == decode_at(code, bare)
    IN  /\ decoded.size <= 15
        /\ raw.kind = decoded.kind
        /\ bare + raw.size + raw.relative
             = position + decoded.size + decoded.relative

(* The bytes operands are assembled from are the tail of the instruction,  *)
(* displacement first, then immediate, without gap or overlap.             *)
TailOf(d) ==
  LET operand == d.displacement \cup d.immediate
  IN  operand # {} =>
        /\ d.displacement \cap d.immediate = {}
        /\ operand = (position + d.size - Cardinality(operand)) .. (position + d.size - 1)

(* Operand bytes tile the tail of every instruction of the groups whose    *)
(* operands are read relative to the ModR/M byte.                          *)
OperandsAreTail == decoded # Undecoded /\ ~decoded.indirect => TailOf(decoded)

(* "Bounds-checked decoding": no operand byte is read from outside the     *)
(* bytes the size checks covered, in every group.                          *)
OperandsInBounds == decoded # Undecoded => TailOf(decoded)
=============================================================================
