------------------------- MODULE DecoderSweep_proofs --------------------------
(*****************************************************************************)
(* Proofs about decode_at for every code image: what it decodes depends on   *)
(* nothing behind the instruction, prefixes keep its target, and its operand *)
(* bytes are its tail.                                                       *)
(*****************************************************************************)
EXTENDS DecoderSweep, FiniteSetTheorems, NaturalsInduction, WellFoundedInduction, TLAPS

(* Sizes.                                                                  *)

(* A code image of n bytes.                                                *)
Image(c, n) == n \in Nat /\ c \in [0 .. n - 1 -> Byte]

(* The length of an image.                                                 *)
LEMMA ImageLength ==
  ASSUME NEW c, NEW n, Image(c, n)
  PROVE  CodeLen(c) = n
<1>1. n \in Nat /\ DOMAIN c = 0 .. n - 1
  BY DEF Image
<1>2. Cardinality(0 .. n - 1) = n
  <2>1. n - 1 \in Int /\ 0 \in Int /\ (0 > n - 1 <=> n = 0)
    BY <1>1
  <2>2. Cardinality(0 .. n - 1) = IF 0 > n - 1 THEN 0 ELSE (n - 1) - 0 + 1
    BY <2>1, FS_Interval, Zenon
  <2> QED
    BY <1>1, <2>1, <2>2
<1> QED
  BY <1>1, <1>2 DEF CodeLen

(* A byte is a number.                                                     *)
LEMMA ByteIs == \A b \in Byte : b \in Nat
  BY DEF Byte

(* An image holds bytes.                                                   *)
LEMMA ImageBytes ==
  ASSUME NEW c, NEW n, Image(c, n), NEW i \in 0 .. n - 1
  PROVE  c[i] \in Nat
  BY ByteIs DEF Image

(* The instructions that transfer to a relative target hold one or two     *)
(* bytes of it.                                                            *)
Transfers == {"call", "jump", "conditional_jump", "loop"}

(* The sizes the opcode alone fixes.                                       *)
LEMMA SizeIs ==
  ASSUME NEW op \in Nat
  PROVE  FixedSize(op) \in Nat /\ 1 <= FixedSize(op) /\ FixedSize(op) <= 3
  BY DEF FixedSize

(* The opcodes of those instructions.                                      *)
LEMMA TransferOpcode ==
  ASSUME NEW op \in Nat, FixedKind(op) \in Transfers
  PROVE  op \in {\he8, \he9, \heb} \cup \h70 .. \h7f \cup \he0 .. \he3
  BY DEF FixedKind, Transfers

(* Their sizes.                                                            *)
LEMMA TransferSize ==
  ASSUME NEW op \in Nat, FixedKind(op) \in Transfers
  PROVE  FixedSize(op) \in {2, 3}
  BY TransferOpcode DEF FixedSize, Accumulator

(* The size of an immediate behind a ModR/M operand.                       *)
LEMMA ImmediateSize ==
  ASSUME NEW op \in Nat, NEW b
  PROVE  immediate_size(op, b) \in Nat /\ immediate_size(op, b) <= 2
  BY DEF immediate_size

(* The size of a displacement.                                             *)
LEMMA DisplacementSize ==
  ASSUME NEW b
  PROVE  modrm_displacement_size(b) \in Nat /\ modrm_displacement_size(b) <= 2
  BY DEF modrm_displacement_size

-------------------------------------------------------------------------------
(* What a decoded instruction takes from the image.                        *)

(* An instruction at offset o, in the first n bytes of an image.           *)
Sized(d, o, n) ==
  /\ d.size \in Nat /\ 1 <= d.size /\ d.size <= 6 /\ o + d.size <= n
  /\ d.relative \in Int

(* The bytes of its operands are its tail.                                 *)
TailBefore(displacement, immediate, end) ==
  LET operand == displacement \cup immediate
  IN  operand # {} =>
        /\ displacement \cap immediate = {} /\ Cardinality(operand) \in Nat
        /\ operand = (end - Cardinality(operand)) .. (end - 1)
Tailed(d, o) == TailBefore(d.displacement, d.immediate, o + d.size)

(* Two neighbouring runs of bytes, the second of which ends where the      *)
(* instruction does.                                                       *)
LEMMA RunsAreTail ==
  ASSUME NEW o \in Nat, NEW size \in Nat, NEW p \in Nat, NEW q \in Nat, o <= p, p <= q, q <= o + size,
         NEW d, d.size = size, d.displacement = p .. q - 1, d.immediate = q .. o + size - 1
  PROVE  Tailed(d, o)
<1> DEFINE operand == d.displacement \cup d.immediate
<1>1. operand = p .. o + size - 1
  OBVIOUS
<1>2. ASSUME operand # {} PROVE Cardinality(operand) = o + size - p
  <2>1. p \in Int /\ o + size - 1 \in Int /\ ~(p > o + size - 1)
    BY <1>1, <1>2
  <2>2. Cardinality(p .. o + size - 1)
          = IF p > o + size - 1 THEN 0 ELSE (o + size - 1) - p + 1
    BY <2>1, FS_Interval
  <2>3. Cardinality(p .. o + size - 1) = o + size - p
    BY <2>1, <2>2
  <2> QED
    BY <1>1, <2>3
<1>3. d.displacement \cap d.immediate = {}
  OBVIOUS
<1> DEFINE end == o + size
<1>4. operand # {} => /\ Cardinality(operand) \in Nat
                      /\ operand = (end - Cardinality(operand)) .. (end - 1)
  <2>1. operand # {} => Cardinality(operand) = end - p /\ Cardinality(operand) \in Nat /\ p = end - Cardinality(operand)
    BY <1>2
  <2>2. operand = p .. end - 1
    BY <1>1
  <2> HIDE DEF operand, end
  <2> QED
    BY <2>1, <2>2
<1> HIDE DEF end
<1>5. TailBefore(d.displacement, d.immediate, end)
  BY <1>3, <1>4, Zenon DEF TailBefore
<1> QED
  BY <1>5 DEF Tailed, end

(* An instruction without operand bytes.                                   *)
LEMMA NoTail ==
  ASSUME NEW d, NEW o, d.displacement = {}, d.immediate = {}
  PROVE  Tailed(d, o)
  BY DEF Tailed, TailBefore

(* A relative target is a number.                                          *)
LEMMA RelativeIs ==
  ASSUME NEW c, NEW n, Image(c, n), NEW o \in Nat, NEW size \in {2, 3}, o + size <= n
  PROVE  RelativeTarget(c, o, size) \in Int
<1>1. n \in Nat
  BY DEF Image
<1>2. c[o + 1] \in Nat /\ (size = 3 => c[o + 2] \in Nat)
  BY <1>1, ImageBytes
<1>3. size = 3 => o + 1 + 1 = o + 2
  OBVIOUS
<1>4. CASE size = 3
  <2>1. c[o + 1 + 1] \in Nat
    BY <1>2, <1>3, <1>4
  <2>2. Word(c[o + 1], c[o + 1 + 1]) \in Int
    BY <1>2, <2>1 DEF Word
  <2> QED
    BY <1>4, <2>2 DEF RelativeTarget, read_i16
<1>5. CASE size # 3
  BY <1>2, <1>5 DEF RelativeTarget, Signed8
<1> QED
  BY <1>4, <1>5

(* The fields of an instruction.                                           *)
LEMMA InstructionFields ==
  ASSUME NEW k, NEW s, NEW r, NEW co, NEW i, NEW di, NEW im
  PROVE  /\ Instruction(k, s, r, co, i, di, im).size = s
         /\ Instruction(k, s, r, co, i, di, im).relative = r
         /\ Instruction(k, s, r, co, i, di, im).indirect = i
         /\ Instruction(k, s, r, co, i, di, im).displacement = di
         /\ Instruction(k, s, r, co, i, di, im).immediate = im
  BY DEF Instruction

(* An opcode whose size is fixed.                                          *)
LEMMA FixedFields ==
  ASSUME NEW c, NEW n, Image(c, n), NEW o \in Nat, o < n, DecodeFixed(c, o) # Undecoded
  PROVE  Sized(DecodeFixed(c, o), o, n) /\ Tailed(DecodeFixed(c, o), o)
<1> DEFINE d == DecodeFixed(c, o)
           op == c[o]
           size == FixedSize(op)
           relative == FixedKind(op) \in Transfers
<1>1. n \in Nat /\ op \in Nat /\ CodeLen(c) = n
  <2>1. n \in Nat
    BY DEF Image
  <2>2. o \in 0 .. n - 1
    BY <2>1
  <2> QED
    BY <2>1, <2>2, ImageBytes, ImageLength
<1>2. size \in Nat /\ 1 <= size /\ size <= 3
  BY <1>1, SizeIs
<1>3. /\ ~(n - o < size)
      /\ d = Instruction(FixedKind(op), size, IF relative THEN RelativeTarget(c, o, size) ELSE 0,
                         Condition(op), FALSE, {},
                         IF FixedKind(op) = "move_immediate" \/ op \in Accumulator
                         THEN (o + 1) .. (o + size - 1) ELSE {})
  BY <1>1, Zenon DEF DecodeFixed, Transfers
<1> HIDE DEF op, size
<1>4. relative => RelativeTarget(c, o, size) \in Int
  <2> SUFFICES ASSUME relative PROVE RelativeTarget(c, o, size) \in Int
    OBVIOUS
  <2>1. size \in {2, 3}
    BY <1>1, TransferSize DEF size
  <2>2. o + size <= n
    BY <1>1, <1>2, <1>3
  <2> QED
    BY <2>1, <2>2, RelativeIs
<1>5. /\ d.size = size /\ d.relative \in Int /\ d.displacement = {}
      /\ d.immediate = {} \/ d.immediate = (o + 1) .. (o + size - 1)
  BY <1>3, <1>4 DEF Instruction
<1> HIDE DEF d
<1>6. Sized(d, o, n)
  <2>1. o + size <= n
    BY <1>1, <1>2, <1>3
  <2> QED
    BY <1>1, <1>2, <1>5, <2>1 DEF Sized
<1>7. Tailed(d, o)
  <2>1. CASE d.immediate = {}
    BY <1>5, <2>1, NoTail
  <2>2. CASE d.immediate = (o + 1) .. (o + size - 1)
    <3>1. d.displacement = (o + 1) .. (o + 1) - 1 /\ o + 1 \in Nat /\ o + 1 <= o + size
      BY <1>2, <1>5
    <3> QED
      BY <1>2, <1>5, <2>2, <3>1, RunsAreTail
  <2> QED
    BY <1>5, <2>1, <2>2
<1> QED
  BY <1>6, <1>7 DEF d

(* An opcode with a ModR/M byte.                                           *)
LEMMA ModRmFields ==
  ASSUME NEW c, NEW n, Image(c, n), NEW o \in Nat, o < n, DecodeModRm(c, o) # Undecoded
  PROVE  /\ Sized(DecodeModRm(c, o), o, n)
         /\ ~DecodeModRm(c, o).indirect => Tailed(DecodeModRm(c, o), o)
<1> DEFINE d == DecodeModRm(c, o)
           op == c[o]
           modrm == c[o + 1]
           disp == modrm_displacement_size(modrm)
           imm == immediate_size(op, modrm)
           size == 2 + disp + imm
           at == IF op = \hff THEN o + 2 ELSE o + 1
           emits == EmitsModRmOperand(op, modrm)
<1>1. n \in Nat /\ op \in Nat /\ CodeLen(c) = n
  <2>1. n \in Nat
    BY DEF Image
  <2>2. o \in 0 .. n - 1
    BY <2>1
  <2> QED
    BY <2>1, <2>2, ImageBytes, ImageLength
<1>2. disp \in Nat /\ disp <= 2 /\ imm \in Nat /\ imm <= 2
  BY <1>1, DisplacementSize, ImmediateSize
<1>3. /\ ~ModRmTruncated(c, o, size)
      /\ d = Instruction(ModRmKind(op, modrm), size, 0, always, op = \hff /\ Extension(modrm) \in {2, 4},
                         IF emits THEN rm_operand(at, modrm) ELSE {},
                         IF emits THEN ImmediateField(o, disp, imm) ELSE {})
  BY Zenon DEF DecodeModRm
<1>4. ~(o + 1 >= n) /\ ~(n - (o + 1) < size - 1)
  BY <1>1, <1>3, Zenon DEF ModRmTruncated
<1>5. ~(op = \hff /\ Extension(modrm) \in {2, 4}) /\ emits => at = o + 1
  BY DEF EmitsModRmOperand, is_modrm_arithmetic
<1> HIDE DEF op, modrm, disp, imm, at, emits
<1>6. /\ d.size = size /\ d.relative = 0 /\ d.indirect = (op = \hff /\ Extension(modrm) \in {2, 4})
      /\ d.displacement = IF emits THEN rm_operand(at, modrm) ELSE {}
      /\ d.immediate = IF emits THEN ImmediateField(o, disp, imm) ELSE {}
  <2> DEFINE indirect == op = \hff /\ Extension(modrm) \in {2, 4}
             k == ModRmKind(op, modrm)
             di == IF emits THEN rm_operand(at, modrm) ELSE {}
             im == IF emits THEN ImmediateField(o, disp, imm) ELSE {}
  <2>1. d = Instruction(k, size, 0, always, indirect, di, im)
    BY <1>3
  <2> HIDE DEF size, d, indirect, k, di, im
  <2>2. d.size = size /\ d.relative = 0 /\ d.indirect = indirect /\ d.displacement = di /\ d.immediate = im
    BY <2>1, InstructionFields
  <2> QED
    BY <2>2 DEF indirect, di, im
<1> HIDE DEF d
<1>7. Sized(d, o, n)
  BY <1>1, <1>2, <1>4, <1>6 DEF Sized
<1>8. ASSUME ~d.indirect PROVE Tailed(d, o)
  <2>1. CASE ~emits
    BY <1>6, <2>1, NoTail
  <2>2. CASE emits
    <3>1. at = o + 1
      BY <1>5, <1>6, <1>8, <2>2
    <3>2. /\ d.displacement = (o + 1 + 1) .. (o + 1 + disp)
          /\ d.immediate = (o + 2 + disp) .. (o + 1 + disp + imm)
      BY <1>6, <2>2, <3>1 DEF rm_operand, ImmediateField, disp
    <3>3. /\ o + 2 \in Nat /\ o + 2 + disp \in Nat /\ size \in Nat
          /\ o <= o + 2 /\ o + 2 <= o + 2 + disp /\ o + 2 + disp <= o + size
          /\ o + 1 + 1 = o + 2 /\ o + 1 + disp = (o + 2 + disp) - 1
          /\ o + 1 + disp + imm = o + size - 1
      BY <1>2
    <3>4. d.displacement = (o + 2) .. (o + 2 + disp) - 1 /\ d.immediate = (o + 2 + disp) .. o + size - 1
      BY <3>2, <3>3
    <3> HIDE DEF size
    <3> QED
      BY <1>6, <3>3, <3>4, RunsAreTail
  <2> QED
    BY <2>1, <2>2
<1> QED
  BY <1>7, <1>8 DEF d

(* Every instruction without a prefix.                                     *)
LEMMA OpcodeFields ==
  ASSUME NEW c, NEW n, Image(c, n), NEW o \in Nat, o < n, DecodeOpcode(c, o) # Undecoded
  PROVE  /\ Sized(DecodeOpcode(c, o), o, n)
         /\ ~DecodeOpcode(c, o).indirect => Tailed(DecodeOpcode(c, o), o)
<1>1. \/ DecodeOpcode(c, o) = DecodeFixed(c, o)
      \/ DecodeOpcode(c, o) = DecodeModRm(c, o)
  BY Zenon DEF DecodeOpcode
<1> QED
  BY <1>1, FixedFields, ModRmFields

-------------------------------------------------------------------------------
(* Cutting an image behind an instruction.                                 *)

(* The image e is the first m bytes of the image c.                        *)
Cut(c, n, e, m) == Image(c, n) /\ Image(e, m) /\ m <= n /\ \A i \in 0 .. m - 1 : e[i] = c[i]

(* An instruction is decoded again from an image that is cut behind it.    *)
LEMMA FixedCut ==
  ASSUME NEW c, NEW n, NEW e, NEW m, Cut(c, n, e, m), NEW o \in Nat, o < n,
         DecodeFixed(c, o) # Undecoded, o + DecodeFixed(c, o).size <= m
  PROVE  DecodeFixed(e, o) = DecodeFixed(c, o)
<1> DEFINE op == c[o]
           size == FixedSize(op)
           relative == FixedKind(op) \in Transfers
           imm == IF FixedKind(op) = "move_immediate" \/ op \in Accumulator
                  THEN (o + 1) .. (o + size - 1) ELSE {}
           with(r) == Instruction(FixedKind(op), size, IF relative THEN r ELSE 0, Condition(op), FALSE, {}, imm)
<1>1. /\ n \in Nat /\ m \in Nat /\ m <= n /\ CodeLen(c) = n /\ CodeLen(e) = m /\ Image(c, n)
      /\ \A i \in 0 .. m - 1 : e[i] = c[i]
  BY ImageLength DEF Cut, Image
<1>2. op \in Nat
  <2>1. o \in 0 .. n - 1
    BY <1>1
  <2> QED
    BY <1>1, <2>1, ImageBytes
<1>3. size \in Nat /\ 1 <= size /\ size <= 3
  BY <1>2, SizeIs
<1>4. DecodeFixed(c, o) = with(RelativeTarget(c, o, size))
  BY Zenon DEF DecodeFixed, Transfers
<1>5. o + size <= m
  <2>1. with(RelativeTarget(c, o, size)).size = size
    <3> DEFINE k == FixedKind(op)
               co == Condition(op)
               r == IF relative THEN RelativeTarget(c, o, size) ELSE 0
    <3> HIDE DEF op, size, relative, imm, k, co, r
    <3>1. Instruction(k, size, r, co, FALSE, {}, imm).size = size
      BY DEF Instruction
    <3> QED
      BY <3>1 DEF k, co, r
  <2>2. DecodeFixed(c, o).size = size
    BY <1>4, <2>1, Zenon
  <2> QED
    BY <2>2
<1>6. e[o] = op
  <2>1. o \in 0 .. m - 1
    BY <1>1, <1>3, <1>5
  <2> QED
    BY <1>1, <2>1
<1>7. relative => RelativeTarget(e, o, size) = RelativeTarget(c, o, size)
  <2> SUFFICES ASSUME relative PROVE RelativeTarget(e, o, size) = RelativeTarget(c, o, size)
    OBVIOUS
  <2>1. size \in {2, 3}
    BY <1>2, TransferSize
  <2>2. e[o + 1] = c[o + 1]
    <3>1. o + 1 \in 0 .. m - 1
      BY <1>1, <1>5, <2>1
    <3> QED
      BY <1>1, <3>1
  <2>3. size = 3 => e[o + 1 + 1] = c[o + 1 + 1]
    <3>1. size = 3 => o + 1 + 1 \in 0 .. m - 1
      BY <1>1, <1>5, <2>1
    <3> QED
      BY <1>1, <3>1
  <2> HIDE DEF size
  <2>4. size = 3 => read_i16(e, o + 1) = read_i16(c, o + 1)
    BY <2>2, <2>3 DEF read_i16
  <2> QED
    BY <2>2, <2>4, Zenon DEF RelativeTarget
<1>8. DecodeFixed(e, o) = with(RelativeTarget(e, o, size))
  <2>1. ~(CodeLen(e) - o < size)
    BY <1>1, <1>3, <1>5
  <2> QED
    BY <1>6, <2>1, Zenon DEF DecodeFixed, Transfers
<1> HIDE DEF op, size, relative, imm
<1>9. with(RelativeTarget(e, o, size)) = with(RelativeTarget(c, o, size))
  BY <1>7, Zenon
<1> QED
  BY <1>4, <1>8, <1>9, Zenon

(* The same for an opcode with a ModR/M byte.                              *)
LEMMA ModRmCut ==
  ASSUME NEW c, NEW n, NEW e, NEW m, Cut(c, n, e, m), NEW o \in Nat, o < n,
         DecodeModRm(c, o) # Undecoded, o + DecodeModRm(c, o).size <= m
  PROVE  DecodeModRm(e, o) = DecodeModRm(c, o)
<1> DEFINE op == c[o]
           modrm == c[o + 1]
           disp == modrm_displacement_size(modrm)
           imm == immediate_size(op, modrm)
           size == 2 + disp + imm
           at == IF op = \hff THEN o + 2 ELSE o + 1
           emits == EmitsModRmOperand(op, modrm)
           d == Instruction(ModRmKind(op, modrm), size, 0, always, op = \hff /\ Extension(modrm) \in {2, 4},
                            IF emits THEN rm_operand(at, modrm) ELSE {},
                            IF emits THEN ImmediateField(o, disp, imm) ELSE {})
<1>1. /\ n \in Nat /\ m \in Nat /\ m <= n /\ CodeLen(c) = n /\ CodeLen(e) = m /\ Image(c, n)
      /\ \A i \in 0 .. m - 1 : e[i] = c[i]
  BY ImageLength DEF Cut, Image
<1>2. op \in Nat
  <2>1. o \in 0 .. n - 1
    BY <1>1
  <2> QED
    BY <1>1, <2>1, ImageBytes
<1>3. disp \in Nat /\ disp <= 2 /\ imm \in Nat /\ imm <= 2
  BY <1>2, DisplacementSize, ImmediateSize
<1>4. DecodeModRm(c, o) = d /\ ~RejectedExtension(op, modrm)
  <2>1. ~RejectedExtension(op, modrm)
    BY Zenon DEF DecodeModRm
  <2>2. DecodeModRm(c, o) = d
    BY Zenon DEF DecodeModRm
  <2> QED
    BY <2>1, <2>2
<1>5. o + size <= m
  <2>1. d.size = size
    BY InstructionFields
  <2> QED
    BY <1>4, <2>1
<1>6. e[o] = op /\ e[o + 1] = modrm
  <2>1. o \in 0 .. m - 1 /\ o + 1 \in 0 .. m - 1
    BY <1>1, <1>3, <1>5
  <2> QED
    BY <1>1, <2>1
<1>7. ~ModRmTruncated(e, o, size)
  BY <1>1, <1>3, <1>5 DEF ModRmTruncated
<1>8. DecodeModRm(e, o) = d
  BY <1>4, <1>6, <1>7, Zenon DEF DecodeModRm
<1> QED
  BY <1>4, <1>8, Zenon

(* The same for any opcode.                                                *)
LEMMA OpcodeCut ==
  ASSUME NEW c, NEW n, NEW e, NEW m, Cut(c, n, e, m), NEW o \in Nat, o < n,
         DecodeOpcode(c, o) # Undecoded, o + DecodeOpcode(c, o).size <= m
  PROVE  DecodeOpcode(e, o) = DecodeOpcode(c, o)
<1>1. Sized(DecodeOpcode(c, o), o, n)
  BY OpcodeFields DEF Cut
<1>2. e[o] = c[o]
  <2>1. m \in Nat
    BY DEF Cut, Image
  <2>2. o \in 0 .. m - 1
    BY <1>1, <2>1 DEF Sized
  <2> QED
    BY <2>2 DEF Cut
<1>3. CASE FixedKind(c[o]) # "none"
  <2>1. DecodeOpcode(c, o) = DecodeFixed(c, o) /\ DecodeOpcode(e, o) = DecodeFixed(e, o)
    BY <1>2, <1>3, Zenon DEF DecodeOpcode
  <2> QED
    BY <2>1, FixedCut
<1>4. CASE FixedKind(c[o]) = "none"
  <2>1. DecodeOpcode(c, o) = DecodeModRm(c, o) /\ DecodeOpcode(e, o) = DecodeModRm(e, o)
    BY <1>2, <1>4, Zenon DEF DecodeOpcode
  <2> QED
    BY <2>1, ModRmCut
<1> QED
  BY <1>3, <1>4

(* What decodes is an instruction, without a prefix.                       *)
LEMMA OpcodeShape ==
  ASSUME NEW c, NEW o, DecodeOpcode(c, o) # Undecoded
  PROVE  \E k, s, r, co, i, di, im : DecodeOpcode(c, o) = Instruction(k, s, r, co, i, di, im)
<1>1. DecodeFixed(c, o) # Undecoded =>
        \E k, s, r, co, i, di, im : DecodeFixed(c, o) = Instruction(k, s, r, co, i, di, im)
  BY Zenon DEF DecodeFixed
<1>2. DecodeModRm(c, o) # Undecoded =>
        \E k, s, r, co, i, di, im : DecodeModRm(c, o) = Instruction(k, s, r, co, i, di, im)
  <2> DEFINE op == c[o]
             modrm == c[o + 1]
             disp == modrm_displacement_size(modrm)
             imm == immediate_size(op, modrm)
             k == ModRmKind(op, modrm)
             z == 2 + disp + imm
             i == op = \hff /\ Extension(modrm) \in {2, 4}
             di == IF EmitsModRmOperand(op, modrm)
                   THEN rm_operand(IF op = \hff THEN o + 2 ELSE o + 1, modrm) ELSE {}
             im == IF EmitsModRmOperand(op, modrm) THEN ImmediateField(o, disp, imm) ELSE {}
  <2>1. DecodeModRm(c, o) # Undecoded => DecodeModRm(c, o) = Instruction(k, z, 0, always, i, di, im)
    BY Zenon DEF DecodeModRm
  <2> HIDE DEF k, z, i, di, im
  <2> QED
    BY <2>1, Zenon
<1>3. DecodeOpcode(c, o) = DecodeFixed(c, o) \/ DecodeOpcode(c, o) = DecodeModRm(c, o)
  BY Zenon DEF DecodeOpcode
<1> QED
  BY <1>1, <1>2, <1>3, Zenon

(* What prefixes change of an instruction.                                 *)
Prefixed(inner, z, w) == [inner EXCEPT !.size = z, !.rep = w]

(* The fields of an instruction with prefixes.                             *)
LEMMA PrefixedIs ==
  ASSUME NEW c, NEW o, DecodeOpcode(c, o) # Undecoded, NEW z, NEW w, NEW inner, inner = DecodeOpcode(c, o),
         NEW d, d = Prefixed(inner, z, w)
  PROVE  /\ d.size = z /\ d.kind = inner.kind /\ d.relative = inner.relative
         /\ d.indirect = inner.indirect
         /\ d.displacement = inner.displacement /\ d.immediate = inner.immediate
<1>1. PICK k, s, r, co, i, di, im : DecodeOpcode(c, o) = Instruction(k, s, r, co, i, di, im)
  BY OpcodeShape
<1> QED
  BY <1>1 DEF Instruction, Prefixed

-------------------------------------------------------------------------------
(* Prefixes.                                                               *)

(* A set of numbers has a least member.                                    *)
LEMMA LeastNat ==
  ASSUME NEW S \in SUBSET Nat, S # {}
  PROVE  \E n \in S : \A m \in S : n <= m
<1> DEFINE R == OpToRel(<, Nat)
<1>1. PICK n \in S : \A m \in S : ~ (<<m, n>> \in R)
  <2>1. IsWellFoundedOn(R, Nat)
    BY NatLessThanWellFounded
  <2> HIDE DEF R
  <2> QED
    BY <2>1, WFMin
<1>2. ASSUME NEW m \in S PROVE n <= m
  <2>1. ~(<<m, n>> \in {ss \in Nat \X Nat : ss[1] < ss[2]})
    BY <1>1 DEF OpToRel
  <2> QED
    BY <2>1
<1> QED
  BY <1>1, <1>2

(* Exactly k prefix bytes start at o.                                      *)
Prefixes(c, n, o, k) ==
  /\ k \in 0 .. (n - o)
  /\ \A i \in o .. (o + k - 1) : is_prefix(c[i])
  /\ o + k < n => ~is_prefix(c[o + k])

(* Some number of them starts there: the least at which the image ends or  *)
(* another byte follows.                                                   *)
LEMMA SomePrefixes ==
  ASSUME NEW c, NEW n \in Nat, NEW o \in Nat, o <= n
  PROVE  \E k : Prefixes(c, n, o, k)
<1> DEFINE S == { k \in 0 .. (n - o) : o + k < n => ~is_prefix(c[o + k]) }
<1>1. n - o \in S /\ S \in SUBSET Nat
  OBVIOUS
<1>2. PICK k \in S : \A j \in S : k <= j
  BY <1>1, LeastNat
<1>3. ASSUME NEW i \in o .. (o + k - 1) PROVE is_prefix(c[i])
  <2>1. i - o \in 0 .. (n - o) /\ i - o < k /\ o + (i - o) = i /\ o + (i - o) < n
    BY <1>2
  <2>2. ~(k <= i - o)
    BY <1>2, <2>1
  <2>3. i - o \notin S
    BY <1>2, <2>2
  <2> QED
    BY <2>1, <2>3
<1> QED
  BY <1>2, <1>3 DEF Prefixes

(* Only one number of them does.                                           *)
LEMMA OnePrefixes ==
  ASSUME NEW c, NEW n \in Nat, NEW o \in Nat, o <= n, NEW k, NEW j,
         Prefixes(c, n, o, k), Prefixes(c, n, o, j)
  PROVE  k = j
<1>1. /\ k \in Nat /\ j \in Nat /\ k <= n - o /\ j <= n - o
      /\ \A i \in o .. (o + k - 1) : is_prefix(c[i])
      /\ \A i \in o .. (o + j - 1) : is_prefix(c[i])
      /\ o + k < n => ~is_prefix(c[o + k])
      /\ o + j < n => ~is_prefix(c[o + j])
  BY DEF Prefixes
<1>2. ~(k < j)
  <2> SUFFICES ASSUME k < j PROVE FALSE
    OBVIOUS
  <2>1. o + k \in o .. (o + j - 1) /\ o + k < n
    BY <1>1
  <2> QED
    BY <1>1, <2>1
<1>3. ~(j < k)
  <2> SUFFICES ASSUME j < k PROVE FALSE
    OBVIOUS
  <2>1. o + j \in o .. (o + k - 1) /\ o + j < n
    BY <1>1
  <2> QED
    BY <1>1, <2>1
<1> QED
  BY <1>1, <1>2, <1>3

(* PrefixCount is the number of them.                                      *)
LEMMA PrefixCountIs ==
  ASSUME NEW c, NEW n, Image(c, n), NEW o \in Nat, o <= n
  PROVE  /\ Prefixes(c, n, o, PrefixCount(c, o))
         /\ \A k : Prefixes(c, n, o, k) => PrefixCount(c, o) = k
<1>1. n \in Nat /\ CodeLen(c) = n
  BY ImageLength DEF Image
<1> DEFINE is(k) == /\ \A i \in o .. (o + k - 1) : is_prefix(c[i])
                    /\ o + k < n => ~is_prefix(c[o + k])
<1>2. PrefixCount(c, o) = CHOOSE k \in 0 .. (n - o) : is(k)
  BY <1>1, Zenon DEF PrefixCount
<1>3. \E k \in 0 .. (n - o) : is(k)
  BY <1>1, SomePrefixes DEF Prefixes
<1>4. PrefixCount(c, o) \in 0 .. (n - o) /\ is(PrefixCount(c, o))
  <2> HIDE DEF is
  <2> QED
    BY <1>2, <1>3, Zenon
<1>5. Prefixes(c, n, o, PrefixCount(c, o))
  BY <1>4, Zenon DEF Prefixes
<1> QED
  BY <1>1, <1>5, OnePrefixes

(* No prefix byte starts an instruction that is none.                      *)
LEMMA NoPrefix ==
  ASSUME NEW c, NEW n, Image(c, n), NEW o \in Nat, o < n, ~is_prefix(c[o])
  PROVE  PrefixCount(c, o) = 0
<1>1. n \in Nat
  BY DEF Image
<1>2. Prefixes(c, n, o, 0)
  BY <1>1 DEF Prefixes
<1> QED
  BY <1>1, <1>2, PrefixCountIs

(* What decode_at returns: the instruction behind the prefixes.            *)
LEMMA DecodedIs ==
  ASSUME NEW c, NEW n, Image(c, n), NEW o \in Nat, decode_at(c, o) # Undecoded
  PROVE  LET k == PrefixCount(c, o)
             d == decode_at(c, o)
             inner == DecodeOpcode(c, o + k)
         IN  /\ o < n /\ k \in Nat /\ o + k < n /\ ~is_prefix(c[o + k])
             /\ inner # Undecoded /\ Sized(inner, o + k, n) /\ inner.size + k <= 15
             /\ ~inner.indirect => Tailed(inner, o + k)
             /\ d.size = inner.size + k /\ d.kind = inner.kind /\ d.relative = inner.relative
             /\ d.indirect = inner.indirect
             /\ d.displacement = inner.displacement /\ d.immediate = inner.immediate
             /\ is_prefix(c[o]) =>
                  d = Prefixed(inner, PrefixedSize(inner.size, k), RepPrefix(c, o, k))
             /\ ~is_prefix(c[o]) => k = 0 /\ d = inner
<1> DEFINE k == PrefixCount(c, o)
           inner == DecodeOpcode(c, o + k)
<1>1. n \in Nat /\ CodeLen(c) = n
  BY ImageLength DEF Image
<1>2. o < n
  <2>1. ~(o >= n)
    BY <1>1, Zenon DEF decode_at
  <2> QED
    BY <1>1, <2>1
<1>3. k \in Nat /\ k <= n - o /\ (o + k < n => ~is_prefix(c[o + k]))
  BY <1>1, <1>2, PrefixCountIs DEF Prefixes
<1>4. CASE is_prefix(c[o])
  <2>1. decode_at(c, o) = DecodePrefixed(c, o)
    BY <1>1, <1>4, Zenon DEF decode_at
  <2>2. /\ ~(k > 15) /\ o + k # n /\ inner # Undecoded /\ ~(inner.size > 15 - k)
        /\ DecodePrefixed(c, o) = Prefixed(inner, PrefixedSize(inner.size, k), RepPrefix(c, o, k))
    BY <1>1, <2>1, Zenon DEF DecodePrefixed, Prefixed
  <2>3. o + k < n /\ ~is_prefix(c[o + k]) /\ o + k \in Nat
    BY <1>1, <1>2, <1>3, <2>2
  <2> HIDE DEF k
  <2>4. Sized(inner, o + k, n) /\ (~inner.indirect => Tailed(inner, o + k))
    BY <2>2, <2>3, OpcodeFields
  <2>5. inner.size \in Nat /\ inner.size + k <= 15
    BY <1>3, <2>2, <2>4 DEF Sized
  <2>6. PrefixedSize(inner.size, k) = inner.size + k
    BY Zenon DEF PrefixedSize
  <2> DEFINE d == decode_at(c, o)
  <2>7. /\ d.size = PrefixedSize(inner.size, k) /\ d.kind = inner.kind /\ d.relative = inner.relative
        /\ d.indirect = inner.indirect
        /\ d.displacement = inner.displacement /\ d.immediate = inner.immediate
    <3> DEFINE in == DecodeOpcode(c, o + k)
               w == RepPrefix(c, o, k)
               z == PrefixedSize(inner.size, k)
    <3>1. DecodeOpcode(c, o + k) # Undecoded /\ in = DecodeOpcode(c, o + k)
          /\ d = Prefixed(in, z, w)
      BY <2>1, <2>2, Zenon DEF Prefixed
    <3> HIDE DEF in, d, w, z
    <3>2. /\ d.size = z /\ d.kind = in.kind /\ d.relative = in.relative /\ d.indirect = in.indirect
          /\ d.displacement = in.displacement /\ d.immediate = in.immediate
      BY <3>1, PrefixedIs
    <3> QED
      BY <3>2 DEF in, z
  <2> QED
    BY <1>2, <1>3, <1>4, <2>1, <2>2, <2>3, <2>4, <2>5, <2>6, <2>7, Zenon DEF k
<1>5. CASE ~is_prefix(c[o])
  <2>1. decode_at(c, o) = DecodeOpcode(c, o)
    BY <1>1, <1>2, <1>5, Zenon DEF decode_at
  <2>2. k = 0 /\ o + k = o
    <3>1. k = 0
      BY <1>2, <1>5, NoPrefix
    <3> QED
      BY <3>1
  <2> HIDE DEF k
  <2>3. inner = decode_at(c, o)
    BY <2>1, <2>2
  <2>4. Sized(inner, o + k, n) /\ (~inner.indirect => Tailed(inner, o + k))
    BY <1>2, <2>1, <2>2, OpcodeFields
  <2>5. inner.size \in Nat /\ inner.size <= 6 /\ inner.size = inner.size + k
    BY <2>2, <2>4 DEF Sized
  <2>6. inner.size + k <= 15
    BY <2>2, <2>5
  <2> QED
    BY <1>2, <1>3, <1>5, <2>2, <2>3, <2>4, <2>5, <2>6, Zenon DEF k
<1> QED
  BY <1>4, <1>5

-------------------------------------------------------------------------------
(* The sweep.                                                              *)

(* The image up to the end of an instruction is an image, cut there.       *)
LEMMA CutIs ==
  ASSUME NEW c, NEW n, Image(c, n), NEW m \in Nat, m <= n
  PROVE  Cut(c, n, [i \in 0 .. m - 1 |-> c[i]], m)
<1>1. n \in Nat /\ c \in [0 .. n - 1 -> Byte]
  BY DEF Image
<1>2. \A i \in 0 .. m - 1 : i \in 0 .. n - 1
  BY <1>1
<1>3. [i \in 0 .. m - 1 |-> c[i]] \in [0 .. m - 1 -> Byte]
  BY <1>1, <1>2, Zenon
<1> QED
  BY <1>1, <1>2, <1>3 DEF Cut, Image

(* What decode_at returns depends on no byte behind the instruction.       *)
LEMMA DecodedCut ==
  ASSUME NEW c, NEW n, Image(c, n), NEW o \in Nat, decode_at(c, o) # Undecoded
  PROVE  decode_at([i \in 0 .. o + decode_at(c, o).size - 1 |-> c[i]], o) = decode_at(c, o)
<1> DEFINE k == PrefixCount(c, o)
           d == decode_at(c, o)
           inner == DecodeOpcode(c, o + k)
           m == o + d.size
           e == [i \in 0 .. m - 1 |-> c[i]]
<1>1. n \in Nat
  BY DEF Image
<1>2. /\ o < n /\ k \in Nat /\ o + k < n /\ ~is_prefix(c[o + k])
      /\ inner # Undecoded /\ Sized(inner, o + k, n) /\ inner.size + k <= 15
      /\ d.size = inner.size + k
      /\ is_prefix(c[o]) => d = Prefixed(inner, PrefixedSize(inner.size, k), RepPrefix(c, o, k))
      /\ ~is_prefix(c[o]) => k = 0 /\ d = inner
  BY DecodedIs, Zenon
<1>3. inner.size \in Nat /\ 1 <= inner.size /\ o + k + inner.size <= n /\ m = o + k + inner.size
      /\ d.size \in Nat
  BY <1>2 DEF Sized
<1> HIDE DEF k, d, inner
<1>4. m \in Nat /\ m <= n /\ o < m /\ o + k < m /\ o + k \in Nat
  BY <1>1, <1>2, <1>3
<1> HIDE DEF m
<1>5. Cut(c, n, e, m)
  BY <1>4, CutIs
<1> HIDE DEF e
<1>6. /\ Image(e, m) /\ CodeLen(e) = m
      /\ \A i \in 0 .. m - 1 : e[i] = c[i]
  BY <1>5, ImageLength DEF Cut
<1>7. e[o] = c[o]
  <2>1. o \in 0 .. m - 1
    BY <1>4
  <2> QED
    BY <1>6, <2>1
<1>8. DecodeOpcode(e, o + k) = inner
  <2>1. o + k + inner.size <= m
    BY <1>3
  <2> QED
    BY <1>2, <1>4, <1>5, <2>1, OpcodeCut DEF inner
<1>9. PrefixCount(e, o) = k
  <2>1. Prefixes(c, n, o, k)
    BY <1>1, <1>2, PrefixCountIs DEF k
  <2>2. \A i \in o .. (o + k - 1) : i \in 0 .. m - 1
    BY <1>4, <1>2
  <2>3. o + k \in 0 .. m - 1 /\ k \in 0 .. (m - o)
    BY <1>2, <1>4
  <2>4. Prefixes(e, m, o, k)
    <3>1. \A i \in o .. (o + k - 1) : is_prefix(e[i])
      BY <1>6, <2>1, <2>2 DEF Prefixes
    <3>2. ~is_prefix(e[o + k])
      BY <1>2, <1>6, <2>3
    <3> QED
      BY <2>3, <3>1, <3>2 DEF Prefixes
  <2> QED
    BY <1>4, <1>6, <2>4, PrefixCountIs
<1>10. ASSUME is_prefix(c[o]) PROVE decode_at(e, o) = d
  <2>1. decode_at(e, o) = DecodePrefixed(e, o)
    <3>1. ~(o >= m)
      BY <1>4
    <3> QED
      BY <1>6, <1>7, <1>10, <3>1, Zenon DEF decode_at
  <2>2. RepPrefix(e, o, k) = RepPrefix(c, o, k)
    <3>1. \A i \in o .. (o + k - 1) : e[i] = c[i]
      <4>1. \A i \in o .. (o + k - 1) : i \in 0 .. m - 1
        BY <1>2, <1>4
      <4> QED
        BY <1>6, <4>1
    <3> DEFINE R == o .. (o + k - 1)
               F(x) == { i \in R : x[i] \in {\hf2, \hf3} }
               A(x) == CHOOSE i \in F(x) : \A j \in F(x) : i <= j
    <3>2. F(e) = F(c)
      <4> HIDE DEF R
      <4>1. \A i \in R : e[i] = c[i]
        BY <3>1 DEF R
      <4> QED
        BY <4>1
    <3>3. A(e) = A(c)
      BY <3>2, Zenon
    <3>4. F(c) # {} => A(c) \in F(c)
      <4> SUFFICES ASSUME F(c) # {} PROVE A(c) \in F(c)
        OBVIOUS
      <4>1. F(c) \in SUBSET Nat
        BY <1>2
      <4> DEFINE S == F(c)
      <4>2. S \in SUBSET Nat /\ S # {}
        BY <4>1
      <4> HIDE DEF S
      <4>3. \E i \in S : \A j \in S : i <= j
        BY <4>2, LeastNat
      <4>4. (CHOOSE i \in S : \A j \in S : i <= j) \in S
        BY <4>3, Zenon
      <4> QED
        BY <4>4 DEF S
    <3>5. F(c) # {} => e[A(e)] = c[A(c)]
      <4> HIDE DEF A, R
      <4>1. F(c) # {} => A(c) \in R
        BY <3>4
      <4> QED
        BY <3>1, <3>3, <4>1 DEF R
    <3>6. /\ RepPrefix(e, o, k) = IF F(e) = {} THEN "none" ELSE IF e[A(e)] = \hf3 THEN "rep" ELSE "repne"
          /\ RepPrefix(c, o, k) = IF F(c) = {} THEN "none" ELSE IF c[A(c)] = \hf3 THEN "rep" ELSE "repne"
      BY Zenon DEF RepPrefix
    <3> HIDE DEF F, A
    <3> QED
      BY <3>2, <3>5, <3>6
  <2>3. ~(k > 15) /\ o + k # m /\ ~(inner.size > 15 - k)
    BY <1>2, <1>3, <1>4
  <2>4. DecodePrefixed(e, o) = Prefixed(inner, PrefixedSize(inner.size, k), RepPrefix(e, o, k))
    BY <1>2, <1>6, <1>8, <1>9, <2>3, Zenon DEF DecodePrefixed, Prefixed
  <2> QED
    BY <1>2, <1>10, <2>1, <2>2, <2>4, Zenon
<1>11. ASSUME ~is_prefix(c[o]) PROVE decode_at(e, o) = d
  <2>1. k = 0 /\ d = inner /\ o + k = o
    BY <1>2, <1>11
  <2>2. decode_at(e, o) = DecodeOpcode(e, o)
    <3>1. ~(o >= m)
      BY <1>4
    <3> QED
      BY <1>6, <1>7, <1>11, <3>1, Zenon DEF decode_at
  <2> QED
    BY <1>8, <2>1, <2>2
<1>12. decode_at(e, o) = d
  BY <1>10, <1>11
<1>13. e = [i \in 0 .. o + decode_at(c, o).size - 1 |-> c[i]]
  <2>1. m = o + decode_at(c, o).size
    BY DEF d, m
  <2>2. 0 .. m - 1 = 0 .. o + decode_at(c, o).size - 1
    BY <1>3, <1>4, <2>1 DEF d
  <2> QED
    BY <2>2 DEF e
<1> QED
  BY <1>12, <1>13 DEF d

(* The inductive invariant.                                                *)
SweepInv ==
  /\ Image(code, CodeLen(code)) /\ position \in 0 .. CodeLen(code)
  /\ decoded = decode_at(code, position)

(* The invariant holds at the start.                                       *)
LEMMA SweepStart == Init => SweepInv
<1> SUFFICES ASSUME Init PROVE SweepInv
  OBVIOUS
<1>1. Image(code, CodeLen(code))
  BY ImagesAssumption DEF Init, Image
<1>2. CodeLen(code) \in Nat
  BY <1>1 DEF Image
<1> QED
  BY <1>1, <1>2 DEF Init, SweepInv

(* A step of the sweep keeps it: no instruction ends behind the image.     *)
LEMMA SweepStep == SweepInv /\ [Next]_vars => SweepInv'
<1> SUFFICES ASSUME SweepInv, [Next]_vars PROVE SweepInv'
  OBVIOUS
<1>1. CASE UNCHANGED vars
  BY <1>1 DEF vars, SweepInv
<1>2. CASE Sweep
  <2>1. /\ decoded # Undecoded /\ position' = position + decoded.size
        /\ decoded' = decode_at(code, position') /\ code' = code
    BY <1>2 DEF Sweep
  <2>2. CodeLen(code) \in Nat /\ position \in Nat /\ Image(code, CodeLen(code))
    BY DEF SweepInv, Image
  <2>3. PICK n : n = CodeLen(code)
    OBVIOUS
  <2>4. PICK k : k = PrefixCount(code, position)
    OBVIOUS
  <2>5. PICK z : z = DecodeOpcode(code, position + k).size
    OBVIOUS
  <2>6. Sized(DecodeOpcode(code, position + k), position + k, n) /\ k \in Nat /\ decoded.size = z + k
    BY <2>1, <2>2, <2>3, <2>4, <2>5, DecodedIs DEF SweepInv
  <2>7. z \in Nat /\ position + k + z <= n
    BY <2>5, <2>6 DEF Sized
  <2>8. position' \in 0 .. n
    BY <2>1, <2>2, <2>3, <2>6, <2>7
  <2> QED
    BY <2>1, <2>2, <2>3, <2>8 DEF SweepInv
<1> QED
  BY <1>1, <1>2 DEF Next

(* The inductive invariant is one.                                         *)
LEMMA SweepInvCorrect == Spec => []SweepInv
  BY SweepStart, SweepStep, PTL DEF Spec

(* What lies behind an instruction never matters, for every image: no      *)
(* length check of decode_at is too strict, no field of its result depends *)
(* on a byte of the next instruction, and the sweep stays in the image.    *)
THEOREM SelfContainedCorrect == Spec => []SelfContained
<1>1. SweepInv => SelfContained
  <2> SUFFICES ASSUME SweepInv PROVE SelfContained
    OBVIOUS
  <2>1. CodeLen(code) \in Nat /\ position \in Nat /\ Image(code, CodeLen(code))
    BY DEF SweepInv, Image
  <2>2. TypeOK
    BY DEF SweepInv, Image, TypeOK
  <2>3. decoded # Undecoded =>
          decode_at([i \in 0 .. position + decoded.size - 1 |-> code[i]], position) = decoded
    BY <2>1, DecodedCut DEF SweepInv
  <2> QED
    BY <2>2, <2>3 DEF SelfContained
<1> QED
  BY <1>1, SweepInvCorrect, PTL

(* For every image: an instruction has at most fifteen bytes, and one with *)
(* prefixes leads where the bare one does (decode_at adds the prefixes to  *)
(* the size of what it decodes behind them).                               *)
THEOREM PrefixKeepsTargetCorrect == Spec => []PrefixKeepsTarget
<1>1. SweepInv => PrefixKeepsTarget
  <2> SUFFICES ASSUME SweepInv, decoded # Undecoded
               PROVE  LET bare == position + PrefixCount(code, position)
                          raw  == decode_at(code, bare)
                      IN  /\ decoded.size <= 15
                          /\ raw.kind = decoded.kind
                          /\ bare + raw.size + raw.relative
                               = position + decoded.size + decoded.relative
    BY DEF PrefixKeepsTarget
  <2>1. PICK n : n = CodeLen(code)
    OBVIOUS
  <2>2. /\ Image(code, n) /\ n \in Nat /\ position \in Nat /\ decoded = decode_at(code, position)
        /\ CodeLen(code) = n
    BY <2>1 DEF SweepInv, Image
  <2>3. PICK k : k = PrefixCount(code, position)
    OBVIOUS
  <2>4. PICK inner : inner = DecodeOpcode(code, position + k)
    OBVIOUS
  <2>5. /\ k \in Nat /\ position + k < n /\ ~is_prefix(code[position + k])
        /\ Sized(inner, position + k, n) /\ inner.size + k <= 15
        /\ decoded.size = inner.size + k /\ decoded.kind = inner.kind /\ decoded.relative = inner.relative
    BY <2>2, <2>3, <2>4, DecodedIs
  <2>6. decode_at(code, position + k) = inner
    <3>1. ~(position + k >= n)
      BY <2>2, <2>5
    <3> QED
      BY <2>2, <2>4, <2>5, <3>1, Zenon DEF decode_at
  <2>7. /\ inner.size \in Nat /\ inner.relative \in Int
    BY <2>5 DEF Sized
  <2>8. /\ decoded.size <= 15
        /\ position + k + inner.size + inner.relative = position + decoded.size + decoded.relative
    BY <2>2, <2>5, <2>7
  <2> QED
    BY <2>3, <2>5, <2>6, <2>8
<1> QED
  BY <1>1, SweepInvCorrect, PTL

(* For every image: displacement and immediate are the tail of the         *)
(* instruction, without gap or overlap, but for the group FF (rm_operand   *)
(* is given the offset of the ModR/M byte).                                *)
THEOREM OperandsAreTailCorrect == Spec => []OperandsAreTail
<1>1. SweepInv => OperandsAreTail
  <2> SUFFICES ASSUME SweepInv, decoded # Undecoded, ~decoded.indirect PROVE TailOf(decoded)
    BY DEF OperandsAreTail
  <2>1. PICK n : n = CodeLen(code)
    OBVIOUS
  <2>2. Image(code, n) /\ n \in Nat /\ position \in Nat /\ decoded = decode_at(code, position)
    BY <2>1 DEF SweepInv, Image
  <2>3. PICK k : k = PrefixCount(code, position)
    OBVIOUS
  <2>4. PICK inner : inner = DecodeOpcode(code, position + k)
    OBVIOUS
  <2>5. /\ k \in Nat /\ Sized(inner, position + k, n) /\ Tailed(inner, position + k)
        /\ decoded.size = inner.size + k
        /\ decoded.displacement = inner.displacement /\ decoded.immediate = inner.immediate
    BY <2>2, <2>3, <2>4, DecodedIs
  <2>6. PICK s : s = inner.size
    OBVIOUS
  <2>7. s \in Nat /\ decoded.size = s + k /\ position + decoded.size = position + k + s
    BY <2>2, <2>5, <2>6 DEF Sized
  <2>8. Tailed(decoded, position)
    <3>1. position + decoded.size = position + k + inner.size
      BY <2>6, <2>7
    <3> QED
      BY <2>5, <3>1 DEF Tailed
  <2> DEFINE operand == decoded.displacement \cup decoded.immediate
             count == Cardinality(operand)
  <2>9. PICK end : end = position + decoded.size
    OBVIOUS
  <2>10. ASSUME operand # {}
         PROVE  /\ decoded.displacement \cap decoded.immediate = {} /\ count \in Nat
                /\ operand = (end - count) .. (end - 1)
    BY <2>8, <2>9, <2>10, Zenon DEF Tailed, TailBefore
  <2> HIDE DEF operand, count
  <2>11. operand # {} => operand = (position + decoded.size - count) .. (position + decoded.size - 1)
    BY <2>2, <2>5, <2>7, <2>9, <2>10
  <2> QED
    BY <2>10, <2>11, Zenon DEF TailOf, operand, count
<1> QED
  BY <1>1, SweepInvCorrect, PTL
===============================================================================
