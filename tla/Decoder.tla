------------------------------ MODULE Decoder ------------------------------
(***************************************************************************)
(* instruction_decoder::decode_at as an operator: the instruction boundary *)
(* the decoder reports at an offset of a code image, or Undecoded.       *)
(*                                                                         *)
(* A code image is a function from 0 .. size-1 to bytes.  Of a decoded     *)
(* instruction the model keeps what the later stages read: its kind, its   *)
(* size, its relative target, its branch condition, whether it is an       *)
(* indirect transfer, the repeat prefix, and the positions of the bytes    *)
(* its displacement and its immediate are assembled from.                  *)
(*                                                                         *)
(* A definition marked "slip" is used nowhere: it is a plausible mistake   *)
(* in the definition after it, which some property must tell apart.        *)
(***************************************************************************)
EXTENDS Integers, FiniteSets

Byte == 0 .. 255

(* std::expected's error arm: truncated, unsupported or over-long.         *)
Undecoded == [kind |-> "undecodable"]

CodeLen(code) == Cardinality(DOMAIN code)

Signed8(b) == IF b < 128 THEN b ELSE b - 256
Word(lo, hi) == lo + 256 * hi
read_i16(code, offset) ==
  LET w == Word(code[offset], code[offset + 1])
  IN  IF w < 32768 THEN w ELSE w - 65536

(* The three fields of a ModR/M byte.                                      *)
Mode(modrm) == modrm \div 64
Extension(modrm) == (modrm \div 8) % 8
Rm(modrm) == modrm % 8

modrm_displacement_size(modrm) ==
  IF (Mode(modrm) = 0 /\ Rm(modrm) = 6) \/ Mode(modrm) = 2 THEN 2
  ELSE IF Mode(modrm) = 1 THEN 1 ELSE 0

is_prefix(opcode) ==
  opcode \in {\h26, \h2e, \h36, \h3e, \hf0, \hf2, \hf3, \h66, \h67}

----------------------------------------------------------------------------
(***************************************************************************)
(* The opcode map, by the shape of the encoding.                           *)
(***************************************************************************)
Accumulator == {\h04, \h05, \h0c, \h0d, \h14, \h15, \h1c, \h1d, \h24, \h25,
                \h2c, \h2d, \h34, \h35, \h3c, \h3d, \ha8, \ha9}
is_modrm_arithmetic(opcode) ==
  \/ opcode <= \h3b /\ (opcode \div 4) % 2 = 0
  \/ opcode \in \h84 .. \h87

(* Instructions whose size the opcode alone fixes: their kind and size.    *)
FixedKind(op) ==
  CASE op \in {\h90, \h9b} -> "nop"
    [] op \in \h91 .. \h97 \cup {\hd7} \cup \ha0 .. \ha3 -> "move"
    [] op \in \hb0 .. \hbf -> "move_immediate"
    [] op \in {\h98, \h99, \h27, \h2f, \h37, \h3f, \hd4, \hd5} \cup \h40 .. \h4f -> "arithmetic"
    [] op \in Accumulator -> IF op \in {\h3c, \h3d, \ha8, \ha9} THEN "compare" ELSE "arithmetic"
    [] op \in {\hf4, \hf5, \h9e, \h9f} \cup \hf8 .. \hfd -> "flags"
    [] op \in \ha4 .. \ha7 \cup \haa .. \haf -> "string"
    [] op \in \he4 .. \he7 \cup \hec .. \hef -> "io"
    [] op \in {\h9c, \h9d, \h0f, \h06, \h07, \h0e, \h16, \h17, \h1e, \h1f} \cup \h50 .. \h5f -> "stack"
    [] op \in {\hcc, \hcd, \hce} -> "interrupt"
    [] op \in {\hc2, \hc3, \hca, \hcb, \hcf} -> "return"
    [] op = \he8 -> "call"
    [] op \in {\he9, \heb} -> "jump"
    [] op \in \h70 .. \h7f -> "conditional_jump"
    [] op \in \he0 .. \he3 -> "loop"
    [] OTHER -> "none"

FixedSize(op) ==
  CASE op \in Accumulator -> 2 + (op % 2)
    [] op \in \ha0 .. \ha3 \cup \hb8 .. \hbf \cup {\hc2, \hca, \he8, \he9} -> 3
    [] op \in {\hd4, \hd5, \hcd, \heb} \cup \he0 .. \he7 \cup \hb0 .. \hb7 \cup \h70 .. \h7f -> 2
    [] OTHER -> 1

(* Opcodes followed by a ModR/M byte.                                      *)
has_modrm(op) ==
  \/ is_modrm_arithmetic(op)
  \/ op \in \h80 .. \h83 \cup \h88 .. \h8f \cup \hc4 .. \hc7
  \/ op \in \hd0 .. \hd3 \cup \hd8 .. \hdf \cup {\hf6, \hf7, \hfe, \hff}

(* The immediate bytes after the ModR/M operand.                           *)
immediate_size(op, modrm) ==
  CASE op \in {\hc7, \h81} -> 2
    [] op \in {\hc6, \h80, \h82, \h83} -> 1
    [] op = \hf6 /\ Extension(modrm) = 0 -> 1
    [] op = \hf7 /\ Extension(modrm) = 0 -> 2
    [] OTHER -> 0

ModRmKind(op, modrm) ==
  CASE op = \hff /\ Extension(modrm) = 2 -> "call"
    [] op = \hff /\ Extension(modrm) = 4 -> "jump"
    [] op = \hff /\ Extension(modrm) = 6 -> "stack"
    [] op \in {\hf6, \hf7} /\ Extension(modrm) = 0 -> "compare"
    [] op \in \h38 .. \h3b \cup {\h84, \h85} -> "compare"
    [] op \in \h80 .. \h83 /\ Extension(modrm) = 7 -> "compare"
    [] op \in \h88 .. \h8f \cup {\hc4, \hc5, \hc6, \hc7} -> "move"
    [] op \in \hd8 .. \hdf -> "coprocessor"
    [] OTHER -> "arithmetic"

(* ModR/M encodings the decoder rejects after measuring them.              *)
RejectedExtension(op, modrm) ==
  \/ op = \hff /\ Extension(modrm) \in {3, 5}
  \/ op = \hfe /\ Extension(modrm) > 1

(* The ModR/M forms whose operands the decoder fills in.                   *)
EmitsModRmOperand(op, modrm) ==
  \/ is_modrm_arithmetic(op)
  \/ op \in \h88 .. \h8b \cup \h80 .. \h83 \cup {\hc6, \hc7}
  \/ op = \hff /\ Extension(modrm) \in {2, 4}

----------------------------------------------------------------------------
always == 20             \* branch_condition::always
Instruction(kind, size, relative, condition, indirect, displacement, immediate) ==
  [kind |-> kind, size |-> size, relative |-> relative,
   condition |-> condition, indirect |-> indirect, rep |-> "none",
   displacement |-> displacement, immediate |-> immediate]

(* rm_operand reads the displacement right after the offset it is given,   *)
(* which it takes for the offset of the ModR/M byte.                       *)
rm_operand(offset, modrm) ==
  (offset + 1) .. (offset + modrm_displacement_size(modrm))

(* Bytes of the immediate that follows the displacement.                   *)
ImmediateInsideDisplacement(offset, disp, imm) == (offset + 2) .. (offset + 1 + imm)  \* slip
ImmediateField(offset, disp, imm) == (offset + 2 + disp) .. (offset + 1 + disp + imm)

(* modrm_size's two length checks: the ModR/M byte, then all that follows. *)
ModRmOneByteStrict(code, offset, size) ==  \* slip
  \/ offset + 1 >= CodeLen(code)
  \/ CodeLen(code) - (offset + 1) < size
ModRmTruncated(code, offset, size) ==
  \/ offset + 1 >= CodeLen(code)
  \/ CodeLen(code) - (offset + 1) < size - 1

(* Operands of ModR/M forms: the group FF passes offset + 2 where every    *)
(* other form passes offset + 1.                                           *)
DecodeModRm(code, offset) ==
  LET op    == code[offset]
      modrm == code[offset + 1]
      disp  == modrm_displacement_size(modrm)
      imm   == immediate_size(op, modrm)
      size  == 2 + disp + imm
      at    == IF op = \hff THEN offset + 2 ELSE offset + 1
      emits == EmitsModRmOperand(op, modrm)
  IN  IF ModRmTruncated(code, offset, size) \/ RejectedExtension(op, modrm)
      THEN Undecoded
      ELSE Instruction(ModRmKind(op, modrm), size, 0, always,
             op = \hff /\ Extension(modrm) \in {2, 4},
             IF emits THEN rm_operand(at, modrm) ELSE {},
             IF emits THEN ImmediateField(offset, disp, imm) ELSE {})

RelativeTarget(code, offset, size) ==
  IF size = 3 THEN read_i16(code, offset + 1) ELSE Signed8(code[offset + 1])

(* branch_condition in its declared order: the sixteen Jcc conditions, then *)
(* loop_not_equal, loop_equal, loop, cx_zero.                              *)
Condition(op) ==
  CASE op \in \h70 .. \h7f -> op - \h70
    [] op \in \he0 .. \he3 -> 16 + (op - \he0)
    [] OTHER -> always

DecodeFixed(code, offset) ==
  LET op   == code[offset]
      kind == FixedKind(op)
      size == FixedSize(op)
      relative == kind \in {"call", "jump", "conditional_jump", "loop"}
  IN  IF CodeLen(code) - offset < size
      THEN Undecoded
      ELSE Instruction(kind, size,
             IF relative THEN RelativeTarget(code, offset, size) ELSE 0,
             Condition(op), FALSE, {},
             IF kind = "move_immediate" \/ op \in Accumulator
             THEN (offset + 1) .. (offset + size - 1) ELSE {})

DecodeOpcode(code, offset) ==
  IF FixedKind(code[offset]) # "none" THEN DecodeFixed(code, offset)
  ELSE IF has_modrm(code[offset]) THEN DecodeModRm(code, offset)
  ELSE Undecoded

(* How many prefix bytes start at an offset.                               *)
PrefixCount(code, offset) ==
  CHOOSE n \in 0 .. (CodeLen(code) - offset) :
    /\ \A i \in offset .. (offset + n - 1) : is_prefix(code[i])
    /\ offset + n < CodeLen(code) => ~is_prefix(code[offset + n])

(* The first F2 or F3 of the run decides.                                  *)
RepPrefix(code, offset, count) ==
  LET reps == { i \in offset .. (offset + count - 1) : code[i] \in {\hf2, \hf3} }
  IN  IF reps = {} THEN "none"
      ELSE IF code[CHOOSE i \in reps : \A j \in reps : i <= j] = \hf3
      THEN "rep" ELSE "repne"

SizeWithoutPrefixes(size, count) == size  \* slip
PrefixedSize(size, count) == size + count

DecodePrefixed(code, offset) ==
  LET count == PrefixCount(code, offset)
      inner == DecodeOpcode(code, offset + count)
  IN  IF \/ count > 15 \/ offset + count = CodeLen(code)
         \/ inner = Undecoded \/ inner.size > 15 - count
      THEN Undecoded
      ELSE [inner EXCEPT !.size = PrefixedSize(@, count), !.rep = RepPrefix(code, offset, count)]

decode_at(code, offset) ==
  IF offset >= CodeLen(code) THEN Undecoded
  ELSE IF is_prefix(code[offset]) THEN DecodePrefixed(code, offset)
  ELSE DecodeOpcode(code, offset)
=============================================================================
