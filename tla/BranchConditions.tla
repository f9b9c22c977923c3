--------------------------- MODULE BranchConditions ---------------------------
(***************************************************************************)
(* How the two compilers decide a conditional jump after CMP, TEST or an   *)
(* arithmetic instruction: the flags that straight_line_compiler lifts     *)
(* from constant operands at compile time, and the flag word that the      *)
(* runtime emitted by branching_compiler keeps while the program runs.     *)
(*                                                                         *)
(* A word has 2 * Half values and a byte 2 * ByteHalf (65536 and 256 in    *)
(* the program): a half is the weight of the sign bit.                     *)
(*                                                                         *)
(* A definition marked "slip" is used nowhere: it is a plausible mistake   *)
(* in the definition after it, which some property must tell apart.        *)
(***************************************************************************)
EXTENDS Integers

CONSTANTS
  Half,                  \* the sign bit of a word, 0x8000
  ByteHalf,              \* the sign bit of a byte, 0x80
  BitAnd(_, _)              \* the bitwise conjunction of two words

Words == 0 .. 2 * Half - 1
Bytes == 0 .. 2 * ByteHalf - 1

ASSUME WidthAssumption ==
  /\ Half \in Nat \ {0}
  /\ ByteHalf \in 1 .. Half
  /\ \A l, r \in Words : BitAnd(l, r) \in Words

VARIABLES
  last,                  \* the last instruction that set flags, with its operands
  lifted,                \* what resolve_compare_flags makes of it
  flags                  \* the emitted runtime's flag word, bit by bit

vars == <<last, lifted, flags>>

Conditions ==
  { "equal", "not_equal", "below", "above_or_equal", "below_or_equal", "above", "sign",
    "not_sign", "overflow", "not_overflow", "less", "greater_or_equal", "less_or_equal",
    "greater" }

----------------------------------------------------------------------------
(* static_cast<uint16_t>(a - b) and the cast of a sum.                     *)
Difference(a, b) == IF a >= b THEN a - b ELSE a - b + 2 * Half
Sum(a, b) == IF a + b < 2 * Half THEN a + b ELSE a + b - 2 * Half

Negative(x) == x >= Half

(* resolve_compare_flags on a compare and on a test of two constants.      *)
OverflowOnSignChange(a, b) ==  \* slip
  [zero |-> Difference(a, b) = 0, sign |-> Negative(Difference(a, b)), carry |-> a < b,
   overflow |-> Negative(a) # Negative(b)]
CompareFlags(a, b) ==
  [zero |-> Difference(a, b) = 0, sign |-> Negative(Difference(a, b)), carry |-> a < b,
   overflow |-> /\ Negative(a) # Negative(b)
                /\ Negative(Difference(a, b)) # Negative(a)]
TestFlags(masked) ==
  [zero |-> masked = 0, sign |-> Negative(masked), carry |-> FALSE, overflow |-> FALSE]

evaluate_condition(c, f) ==
  \/ c = "equal" /\ f.zero
  \/ c = "not_equal" /\ ~f.zero
  \/ c = "below" /\ f.carry
  \/ c = "above_or_equal" /\ ~f.carry
  \/ c = "below_or_equal" /\ (f.carry \/ f.zero)
  \/ c = "above" /\ ~f.carry /\ ~f.zero
  \/ c = "sign" /\ f.sign
  \/ c = "not_sign" /\ ~f.sign
  \/ c = "overflow" /\ f.overflow
  \/ c = "not_overflow" /\ ~f.overflow
  \/ c = "less" /\ f.sign # f.overflow
  \/ c = "greater_or_equal" /\ f.sign = f.overflow
  \/ c = "less_or_equal" /\ (f.zero \/ f.sign # f.overflow)
  \/ c = "greater" /\ ~f.zero /\ f.sign = f.overflow

----------------------------------------------------------------------------
(* The flag word: 0x40, 0x8000, 0x80, 0x1 and the direction flag 0x400.    *)
(* Every comparison assigns the whole word.                                *)
FlagWord(zero, sign, byte_sign, carry) ==
  [zero |-> zero, sign |-> sign, byte_sign |-> byte_sign, carry |-> carry,
   direction |-> FALSE]
BorrowOnEqual(a, b, is_byte) ==  \* slip
  FlagWord(a = b, ~is_byte /\ Negative(Difference(a, b)),
           is_byte /\ (a - b) % (2 * ByteHalf) >= ByteHalf, a <= b)
update_flags_cmp(a, b, is_byte) ==
  FlagWord(a = b, ~is_byte /\ Negative(Difference(a, b)),
           is_byte /\ (a - b) % (2 * ByteHalf) >= ByteHalf, a < b)

(* The C condition emitted for a jump.                                     *)
emit_conditional(c, f) ==
  \/ c = "equal" /\ f.zero
  \/ c = "not_equal" /\ ~f.zero
  \/ c = "below" /\ f.carry
  \/ c = "above_or_equal" /\ ~f.carry
  \/ c = "below_or_equal" /\ (f.carry \/ f.zero)
  \/ c = "above" /\ ~f.carry /\ ~f.zero
  \/ c \in {"sign", "overflow"} /\ f.sign
  \/ c \in {"not_sign", "not_overflow"} /\ ~f.sign
  \/ c = "less" /\ f.sign # f.zero
  \/ c = "greater_or_equal" /\ f.sign = f.zero
  \/ c = "less_or_equal" /\ (f.zero \/ f.sign # f.zero)
  \/ c = "greater" /\ ~f.zero /\ f.sign = f.zero

----------------------------------------------------------------------------
Last(operation, left, right, is_byte) ==
  [operation |-> operation, left |-> left, right |-> right, is_byte |-> is_byte]

(* compare_flags{} and flags = 0, before anything was compared.            *)
Init ==
  /\ last = Last("none", 0, 0, FALSE)
  /\ lifted = [zero |-> FALSE, sign |-> FALSE, carry |-> FALSE, overflow |-> FALSE]
  /\ flags = FlagWord(FALSE, FALSE, FALSE, FALSE)

Operand(x, is_byte) == x \in (IF is_byte THEN Bytes ELSE Words)

Compare(l, r, is_byte) ==
  /\ Operand(l, is_byte) /\ Operand(r, is_byte)
  /\ last' = Last("compare", l, r, is_byte)
  /\ lifted' = CompareFlags(l, r)
  /\ flags' = update_flags_cmp(l, r, is_byte)

(* emit_arithmetic sends TEST through the same comparison as CMP.          *)
Test(l, r, is_byte) ==
  /\ Operand(l, is_byte) /\ Operand(r, is_byte)
  /\ last' = Last("test", l, r, is_byte)
  /\ lifted' = TestFlags(BitAnd(l, r))
  /\ flags' = update_flags_cmp(l, r, is_byte)

(* ADD, SUB and AND of a word register: the runtime compares the result    *)
(* with 0; the translator defines the destination and leaves flags alone.  *)
Arithmetic(l, r) ==
  \E result \in {Sum(l, r), Difference(l, r), BitAnd(l, r)} :
    /\ last' = Last("arithmetic", result, 0, FALSE)
    /\ flags' = update_flags_cmp(result, 0, FALSE)
    /\ UNCHANGED lifted

(* CLD and STD.                                                            *)
SetDirection(d) ==
  /\ flags' = [flags EXCEPT !.direction = d]
  /\ UNCHANGED <<last, lifted>>

Next ==
  \/ \E l, r \in Words, is_byte \in BOOLEAN : Compare(l, r, is_byte) \/ Test(l, r, is_byte)
  \/ \E l, r \in Words : Arithmetic(l, r)
  \/ \E d \in BOOLEAN : SetDirection(d)

Spec == Init /\ [][Next]_vars

----------------------------------------------------------------------------
(* What the 8086 decides after a comparison: the relation of the operands, *)
(* unsigned or in two's complement, and the sign and overflow of their     *)
(* difference.                                                             *)
HalfOf(is_byte) == IF is_byte THEN ByteHalf ELSE Half
Signed(x, h) == IF x < h THEN x ELSE x - 2 * h
Below(c, a, b) ==
  \/ c = "below" /\ a < b
  \/ c = "above_or_equal" /\ a >= b
  \/ c = "below_or_equal" /\ a <= b
  \/ c = "above" /\ a > b
DifferenceSign(c, a, b, h) ==
  LET negative == \/ a - b \in -h .. -1
                  \/ a - b >= h
  IN  \/ c = "sign" /\ negative
      \/ c = "not_sign" /\ ~negative
SignedRelation(c, a, b, h) ==
  LET overflow == Signed(a, h) - Signed(b, h) \notin -h .. h - 1
  IN  \/ c = "less" /\ Signed(a, h) < Signed(b, h)
      \/ c = "greater_or_equal" /\ Signed(a, h) >= Signed(b, h)
      \/ c = "less_or_equal" /\ Signed(a, h) <= Signed(b, h)
      \/ c = "greater" /\ Signed(a, h) > Signed(b, h)
      \/ c = "overflow" /\ overflow
      \/ c = "not_overflow" /\ ~overflow
Related(c, a, b, h) ==
  \/ c = "equal" /\ a = b
  \/ c = "not_equal" /\ a # b
  \/ Below(c, a, b)
  \/ DifferenceSign(c, a, b, h)
  \/ SignedRelation(c, a, b, h)

(* TEST and arithmetic results decide as a comparison of the result and 0. *)
Decided(c) ==
  IF last.operation = "test"
  THEN Related(c, BitAnd(last.left, last.right), 0, HalfOf(last.is_byte))
  ELSE Related(c, last.left, last.right, HalfOf(last.is_byte))

----------------------------------------------------------------------------
TypeOK ==
  /\ last \in [operation : {"none", "compare", "test", "arithmetic"},
               left : Words, right : Words, is_byte : BOOLEAN]
  /\ lifted \in [zero : BOOLEAN, sign : BOOLEAN, carry : BOOLEAN, overflow : BOOLEAN]
  /\ flags \in [zero : BOOLEAN, sign : BOOLEAN, byte_sign : BOOLEAN, carry : BOOLEAN,
                direction : BOOLEAN]

(* evaluate_condition on the lifted flags of a word CMP or TEST decides    *)
(* each of the fourteen jumps as the 8086 does, for every pair of words:   *)
(* the signed ones across the overflow boundary included.                  *)
LiftedDecides ==
  last.operation \in {"compare", "test"} /\ ~last.is_byte =>
    \A c \in Conditions : evaluate_condition(c, lifted) <=> Decided(c)

(* The emitted runtime decides the unsigned jumps after CMP of either      *)
(* width, and the zero and sign jumps after word arithmetic, as the 8086   *)
(* does.                                                                   *)
UnsignedDecided ==
  /\ last.operation = "compare" =>
       \A c \in {"equal", "not_equal", "below", "above_or_equal", "below_or_equal", "above"} :
         emit_conditional(c, flags) <=> Decided(c)
  /\ last.operation = "arithmetic" =>
       \A c \in {"equal", "not_equal", "sign", "not_sign"} :
         emit_conditional(c, flags) <=> Decided(c)

(* The emitted runtime decides JL, JGE, JLE, JG after CMP as the 8086      *)
(* does, as the documentation says of the signed conditions.               *)
SignedDecided ==
  last.operation = "compare" /\ ~last.is_byte =>
    \A c \in {"less", "greater_or_equal", "less_or_equal", "greater"} :
      emit_conditional(c, flags) <=> Decided(c)

(* The emitted runtime decides JZ and JNZ after TEST by the conjunction.   *)
TestDecided ==
  last.operation = "test" =>
    \A c \in {"equal", "not_equal"} : emit_conditional(c, flags) <=> Decided(c)

(* The lifted flags of a byte comparison decide the signed jumps of bytes. *)
LiftedDecidesBytes ==
  last.operation = "compare" /\ last.is_byte =>
    \A c \in Conditions : evaluate_condition(c, lifted) <=> Decided(c)
=============================================================================
