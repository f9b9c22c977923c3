------------------------ MODULE EmittedProgram_proofs ------------------------
(***************************************************************************)
(* For every size of words, bytes, tables and files: the loader reads only *)
(* within the file, main() relocates as the loader does, conditions and    *)
(* string instructions decide and leave what the 8086 does, handles reach  *)
(* their files and granted blocks lie apart.                               *)
(***************************************************************************)
EXTENDS EmittedProgram, FiniteSetTheorems, WellFoundedInduction, TLAPS

(* Quotient and remainder of an integer by a positive one.                 *)
LEMMA ModRange ==
  ASSUME NEW a \in Int, NEW w \in Nat \ {0}
  PROVE  a % w \in Int /\ 0 <= a % w /\ a % w < w
OBVIOUS

LEMMA DivMod ==
  ASSUME NEW a \in Int, NEW w \in Nat \ {0}
  PROVE  a \div w \in Int /\ a = (a \div w) * w + (a % w)
OBVIOUS

(* Quotient and remainder are the only ones.                               *)
LEMMA ModIs ==
  ASSUME NEW w \in Nat \ {0}, NEW q \in Int, NEW r \in Int, 0 <= r, r < w
  PROVE  (q * w + r) % w = r /\ (q * w + r) \div w = q
<1> DEFINE a == q * w + r   p == a \div w   m == a % w
<1>1. a \in Int /\ q * w \in Int
  OBVIOUS
<1>2. p \in Int /\ m \in Int /\ 0 <= m /\ m < w /\ a = p * w + m
  <2> HIDE DEF a
  <2> QED
    BY <1>1, DivMod, ModRange
<1>3. q * w + r = p * w + m
  BY <1>2
<1> HIDE DEF p, m
<1>4. p * w \in Int
  BY <1>2
<1>5. p = q
  <2>1. ASSUME p >= q + 1 PROVE FALSE
    <3>1. p * w >= (q + 1) * w /\ (q + 1) * w = q * w + w
      BY <1>2, <2>1
    <3> QED
      BY <1>1, <1>2, <1>3, <1>4, <3>1
  <2>2. ASSUME q >= p + 1 PROVE FALSE
    <3>1. q * w >= (p + 1) * w /\ (p + 1) * w = p * w + w
      BY <1>2, <2>2
    <3> QED
      BY <1>1, <1>2, <1>3, <1>4, <3>1
  <2> QED
    BY <1>2, <2>1, <2>2
<1>6. m = r
  BY <1>1, <1>2, <1>3, <1>5
<1> QED
  BY <1>5, <1>6 DEF p, m

(* Adding in words is adding modulo the word.                              *)
LEMMA AddMod ==
  ASSUME NEW x \in Int, NEW s \in Int, NEW w \in Nat \ {0}
  PROVE  /\ ((x % w) + (s % w)) % w = (x + s) % w
         /\ ((x % w) + s) % w = (x + s) % w
<1> DEFINE p == x \div w   a == x % w   q == s \div w   b == s % w
<1>1. p \in Int /\ a \in Int /\ 0 <= a /\ a < w /\ x = p * w + a
  BY DivMod, ModRange
<1>2. q \in Int /\ b \in Int /\ 0 <= b /\ b < w /\ s = q * w + b
  BY DivMod, ModRange
<1> HIDE DEF p, a, q, b
<1>3. (a + b) % w = (x + s) % w
  <2> DEFINE e == (a + b) \div w   c == (a + b) % w
  <2>1. e \in Int /\ c \in Int /\ 0 <= c /\ c < w /\ a + b = e * w + c
    <3>1. a + b \in Int
      BY <1>1, <1>2
    <3> QED
      BY <3>1, DivMod, ModRange
  <2> HIDE DEF e, c
  <2>2. x + s = (p + q + e) * w + c
    <3>1. (p + q + e) * w = p * w + q * w + e * w
      BY <1>1, <1>2, <2>1
    <3>2. p * w \in Int /\ q * w \in Int /\ e * w \in Int
      BY <1>1, <1>2, <2>1
    <3> QED
      BY <1>1, <1>2, <2>1, <3>1, <3>2
  <2>3. p + q + e \in Int
    BY <1>1, <1>2, <2>1
  <2>4. (x + s) % w = c
    BY <2>1, <2>2, <2>3, ModIs
  <2> QED
    BY <2>4 DEF c
<1>4. (a + s) % w = (x + s) % w
  <2> DEFINE e == (a + s) \div w   c == (a + s) % w
  <2>1. e \in Int /\ c \in Int /\ 0 <= c /\ c < w /\ a + s = e * w + c
    <3>1. a + s \in Int
      BY <1>1
    <3> QED
      BY <3>1, DivMod, ModRange
  <2> HIDE DEF e, c
  <2>2. x + s = (p + e) * w + c
    <3>1. (p + e) * w = p * w + e * w
      BY <1>1, <2>1
    <3>2. p * w \in Int /\ e * w \in Int
      BY <1>1, <2>1
    <3> QED
      BY <1>1, <2>1, <3>1, <3>2
  <2>3. p + e \in Int
    BY <1>1, <2>1
  <2>4. (x + s) % w = c
    BY <2>1, <2>2, <2>3, ModIs
  <2> QED
    BY <2>4 DEF c
<1> QED
  BY <1>3, <1>4 DEF a, b

(* A word is its two bytes.                                                *)
LEMMA SplitWord ==
  ASSUME NEW b \in Nat \ {0}, NEW v \in Nat, v < b * b
  PROVE  /\ v % b \in 0 .. b - 1 /\ v \div b \in 0 .. b - 1
         /\ (v % b) + b * (v \div b) = v
<1> DEFINE q == v \div b   r == v % b
<1>1. q \in Int /\ r \in Int /\ 0 <= r /\ r < b /\ v = q * b + r
  BY DivMod, ModRange
<1> HIDE DEF q, r
<1>2. q >= 0
  <2>1. ASSUME q <= -1 PROVE FALSE
    <3>1. q * b <= -b /\ q * b \in Int
      BY <1>1, <2>1
    <3> QED
      BY <1>1, <3>1
  <2> QED
    BY <1>1, <2>1
<1>3. q < b
  <2>1. ASSUME q >= b PROVE FALSE
    <3>1. q * b >= b * b /\ q * b \in Int /\ b * b \in Int
      BY <1>1, <2>1
    <3> QED
      BY <1>1, <3>1
  <2> QED
    BY <1>1, <2>1
<1>4. b * q = q * b
  BY <1>1
<1>5. r \in 0 .. b - 1 /\ q \in 0 .. b - 1 /\ r + b * q = v
  BY <1>1, <1>2, <1>3, <1>4
<1> QED
  BY <1>5 DEF q, r

(* Two bytes make a word.                                                  *)
LEMMA JoinBytes ==
  ASSUME NEW b \in Nat \ {0}, NEW low \in 0 .. b - 1, NEW high \in 0 .. b - 1
  PROVE  low + b * high \in Nat /\ low + b * high < b * b
<1>1. b * high <= b * (b - 1) /\ b * high \in Nat
  OBVIOUS
<1>2. b * (b - 1) = b * b - b /\ b * b \in Nat
  OBVIOUS
<1> QED
  BY <1>1, <1>2

LEMMA SmallMod ==
  ASSUME NEW a \in Nat, NEW w \in Nat \ {0}, a < w
  PROVE  a % w = a
OBVIOUS

(* A set of naturals has a least element: what is shown of every length or *)
(* index below is shown of the least one at which it would fail.           *)
LEMMA LeastNat ==
  ASSUME NEW S \in SUBSET Nat, S # {}
  PROVE  \E n \in S : \A m \in S : n <= m
<1> DEFINE R == OpToRel(<, Nat)
<1>1. PICK n \in S : \A m \in S : ~ (<<m, n>> \in R)
  <2>1. IsWellFoundedOn(R, Nat)
    BY NatLessThanWellFounded
  <2> HIDE DEF R
  <2> QED
    BY <2>1, WFMin
<1>2. ASSUME NEW m \in S PROVE n <= m
  <2>1. ~(<<m, n>> \in {ss \in Nat \X Nat : ss[1] < ss[2]})
    BY <1>1 DEF OpToRel
  <2>2. <<m, n>>[1] = m /\ <<m, n>>[2] = n /\ <<m, n>> \in Nat \X Nat
    OBVIOUS
  <2> QED
    BY <2>1, <2>2
<1> QED
  BY <1>2

----------------------------------------------------------------------------
(* The halves are positive integers, and every byte is a word.             *)
LEMMA Widths ==
  /\ Half \in Int /\ Half >= 1
  /\ ByteHalf \in Int /\ ByteHalf >= 1 /\ ByteHalf <= Half
  /\ \A x \in Words : x \in Int /\ 0 <= x /\ x < 2 * Half
  /\ \A x \in Bytes : x \in Words
  /\ 0 \in Words
BY WidthAssumption DEF Words, Bytes

(* Sums and differences are cast back to words.                            *)
LEMMA CastsAreWords ==
  \A a, b \in Words : Sum(a, b) \in Words /\ Difference(a, b) \in Words
BY Widths DEF Words, Sum, Difference

LEMMA OperandIsWord ==
  ASSUME NEW is_byte \in BOOLEAN, NEW x, Operand(x, is_byte)
  PROVE  x \in Words
BY Widths DEF Operand

LiftedFlags == [zero : BOOLEAN, sign : BOOLEAN, carry : BOOLEAN, overflow : BOOLEAN]
RuntimeFlags == [zero : BOOLEAN, sign : BOOLEAN, byte_sign : BOOLEAN, carry : BOOLEAN,
                 direction : BOOLEAN]

(* Each way of computing flags computes bits.                              *)
LEMMA FlagsAreBits ==
  /\ \A a, b \in Words : CompareFlags(a, b) \in LiftedFlags
  /\ \A m \in Words : TestFlags(m) \in LiftedFlags
  /\ \A a, b \in Words, is_byte \in BOOLEAN : update_flags_cmp(a, b, is_byte) \in RuntimeFlags
<1>1. ASSUME NEW a \in Words, NEW b \in Words
      PROVE  CompareFlags(a, b) \in LiftedFlags
  <2>1. (Difference(a, b) = 0) \in BOOLEAN /\ Negative(Difference(a, b)) \in BOOLEAN
    BY CastsAreWords, Widths DEF Negative
  <2>2. (a < b) \in BOOLEAN
    BY Widths
  <2> QED
    BY <2>1, <2>2 DEF CompareFlags, LiftedFlags
<1>2. ASSUME NEW m \in Words
      PROVE  TestFlags(m) \in LiftedFlags
  <2>1. Negative(m) \in BOOLEAN
    BY Widths DEF Negative
  <2> QED
    BY <2>1 DEF TestFlags, LiftedFlags
<1>3. ASSUME NEW a \in Words, NEW b \in Words, NEW is_byte \in BOOLEAN
      PROVE  update_flags_cmp(a, b, is_byte) \in RuntimeFlags
  <2>1. (a < b) \in BOOLEAN
    BY Widths
  <2> QED
    BY <2>1 DEF update_flags_cmp, FlagWord, RuntimeFlags
<1> QED
  BY <1>1, <1>2, <1>3

LEMMA TypeOKInit == Init => TypeOK
BY Widths DEF Init, TypeOK, Last, FlagWord

LEMMA TypeOKStep == TypeOK /\ [Next]_vars => TypeOK'
<1> SUFFICES ASSUME TypeOK, [Next]_vars PROVE TypeOK'
  OBVIOUS
<1>1. ASSUME NEW l \in Words, NEW r \in Words, NEW is_byte \in BOOLEAN, Compare(l, r, is_byte)
      PROVE  TypeOK'
  BY <1>1, FlagsAreBits DEF TypeOK, Compare, Last, LiftedFlags, RuntimeFlags
<1>2. ASSUME NEW l \in Words, NEW r \in Words, NEW is_byte \in BOOLEAN, Test(l, r, is_byte)
      PROVE  TypeOK'
  BY <1>2, FlagsAreBits, WidthAssumption DEF TypeOK, Test, Last, LiftedFlags, RuntimeFlags
<1>3. ASSUME NEW l \in Words, NEW r \in Words, Arithmetic(l, r)
      PROVE  TypeOK'
  <2>1. PICK result \in {Sum(l, r), Difference(l, r), BitAnd(l, r)} :
          /\ last' = Last("arithmetic", result, 0, FALSE)
          /\ flags' = update_flags_cmp(result, 0, FALSE)
          /\ UNCHANGED lifted
    BY <1>3 DEF Arithmetic
  <2>2. result \in Words /\ 0 \in Words
    BY CastsAreWords, WidthAssumption, Widths
  <2> QED
    BY <2>1, <2>2, FlagsAreBits DEF TypeOK, Last, RuntimeFlags
<1>4. ASSUME NEW d \in BOOLEAN, SetDirection(d)
      PROVE  TypeOK'
  BY <1>4 DEF TypeOK, SetDirection
<1>5. CASE UNCHANGED vars
  BY <1>5 DEF TypeOK, vars
<1> QED
  BY <1>1, <1>2, <1>3, <1>4, <1>5 DEF Next

(* Every reachable state has values of the declared ranges.                *)
THEOREM TypeCorrect == Spec => []TypeOK
BY TypeOKInit, TypeOKStep, PTL DEF Spec

----------------------------------------------------------------------------
(* The lifted flags always belong to the last comparison.                  *)
LiftedInv ==
  /\ last.operation = "compare" => lifted = CompareFlags(last.left, last.right)
  /\ last.operation = "test" => lifted = TestFlags(BitAnd(last.left, last.right))

(* The emitted flags always belong to the last comparison or result; STD   *)
(* and CLD leave them alone.                                               *)
FlagsInv ==
  /\ last.operation \in {"compare", "arithmetic"} =>
       LET f == update_flags_cmp(last.left, last.right, last.is_byte)
       IN  flags.zero = f.zero /\ flags.sign = f.sign /\ flags.carry = f.carry
  /\ last.operation = "arithmetic" => last.right = 0 /\ last.is_byte = FALSE

LEMMA LiftedInvInit == Init => LiftedInv
BY DEF Init, LiftedInv, Last

LEMMA LiftedInvStep == LiftedInv /\ [Next]_vars => LiftedInv'
<1> SUFFICES ASSUME LiftedInv, [Next]_vars PROVE LiftedInv'
  OBVIOUS
<1>1. ASSUME NEW l \in Words, NEW r \in Words, NEW is_byte \in BOOLEAN, Compare(l, r, is_byte)
      PROVE  LiftedInv'
  BY <1>1 DEF LiftedInv, Compare, Last
<1>2. ASSUME NEW l \in Words, NEW r \in Words, NEW is_byte \in BOOLEAN, Test(l, r, is_byte)
      PROVE  LiftedInv'
  BY <1>2 DEF LiftedInv, Test, Last
<1>3. ASSUME NEW l \in Words, NEW r \in Words, Arithmetic(l, r)
      PROVE  LiftedInv'
  BY <1>3 DEF LiftedInv, Arithmetic, Last
<1>4. ASSUME NEW d \in BOOLEAN, SetDirection(d)
      PROVE  LiftedInv'
  BY <1>4 DEF LiftedInv, SetDirection
<1>5. CASE UNCHANGED vars
  BY <1>5 DEF LiftedInv, vars
<1> QED
  BY <1>1, <1>2, <1>3, <1>4, <1>5 DEF Next

LEMMA LiftedInvCorrect == Spec => []LiftedInv
BY LiftedInvInit, LiftedInvStep, PTL DEF Spec

LEMMA FlagsInvInit == Init => FlagsInv
BY DEF Init, FlagsInv, Last

LEMMA FlagsInvStep == TypeOK /\ FlagsInv /\ [Next]_vars => FlagsInv'
<1> SUFFICES ASSUME TypeOK, FlagsInv, [Next]_vars PROVE FlagsInv'
  OBVIOUS
<1>1. ASSUME NEW l \in Words, NEW r \in Words, NEW is_byte \in BOOLEAN, Compare(l, r, is_byte)
      PROVE  FlagsInv'
  BY <1>1 DEF FlagsInv, Compare, Last
<1>2. ASSUME NEW l \in Words, NEW r \in Words, NEW is_byte \in BOOLEAN, Test(l, r, is_byte)
      PROVE  FlagsInv'
  BY <1>2 DEF FlagsInv, Test, Last
<1>3. ASSUME NEW l \in Words, NEW r \in Words, Arithmetic(l, r)
      PROVE  FlagsInv'
  BY <1>3 DEF FlagsInv, Arithmetic, Last
<1>4. ASSUME NEW d \in BOOLEAN, SetDirection(d)
      PROVE  FlagsInv'
  BY <1>4 DEF FlagsInv, SetDirection, TypeOK
<1>5. CASE UNCHANGED vars
  BY <1>5 DEF FlagsInv, vars
<1> QED
  BY <1>1, <1>2, <1>3, <1>4, <1>5 DEF Next

LEMMA FlagsInvCorrect == Spec => []FlagsInv
BY FlagsInvInit, FlagsInvStep, TypeCorrect, PTL DEF Spec

----------------------------------------------------------------------------
(* The four flags of CompareFlags, in terms of the operands themselves.    *)
LEMMA CompareFlagsMeaning ==
  ASSUME NEW a \in Words, NEW b \in Words
  PROVE  LET f == CompareFlags(a, b)
         IN  /\ f.zero <=> a = b
             /\ f.carry <=> a < b
             /\ f.sign <=> a - b \in -Half .. -1 \/ a - b >= Half
             /\ f.overflow <=> Signed(a, Half) - Signed(b, Half) \notin -Half .. Half - 1
             /\ f.sign # f.overflow <=> Signed(a, Half) < Signed(b, Half)
<1>1. (Difference(a, b) = 0) <=> (a = b)
  BY Widths DEF Difference
<1>2. Negative(Difference(a, b)) <=> a - b \in -Half .. -1 \/ a - b >= Half
  BY Widths DEF Difference, Negative
<1> DEFINE over == Negative(a) # Negative(b) /\ Negative(Difference(a, b)) # Negative(a)
<1>3. over <=> Signed(a, Half) - Signed(b, Half) \notin -Half .. Half - 1
  BY Widths DEF Difference, Negative, Signed
<1>4. (Negative(Difference(a, b)) # over) <=> Signed(a, Half) < Signed(b, Half)
  BY Widths DEF Difference, Negative, Signed
<1> QED
  BY <1>1, <1>2, <1>3, <1>4 DEF CompareFlags

LEMMA TestFlagsMeaning ==
  ASSUME NEW m \in Words
  PROVE  LET f == TestFlags(m)
         IN  /\ f.zero <=> m = 0
             /\ f.carry <=> m < 0
             /\ f.sign <=> m - 0 \in -Half .. -1 \/ m - 0 >= Half
             /\ f.overflow <=> Signed(m, Half) - Signed(0, Half) \notin -Half .. Half - 1
             /\ f.sign # f.overflow <=> Signed(m, Half) < Signed(0, Half)
<1>1. (m < 0) = FALSE
  BY Widths
<1>2. Negative(m) = (m - 0 \in -Half .. -1 \/ m - 0 >= Half)
  BY Widths DEF Negative
<1>3. Signed(m, Half) - Signed(0, Half) \in -Half .. Half - 1
  BY Widths DEF Signed
<1>4. Negative(m) = (Signed(m, Half) < Signed(0, Half))
  BY Widths DEF Negative, Signed
<1>5. Negative(m) \in BOOLEAN
  BY Widths DEF Negative
<1> QED
  BY <1>1, <1>2, <1>3, <1>4, <1>5, Zenon DEF TestFlags

(* The fourteen jumps, read from flags that have the meaning above.        *)
LEMMA ConditionsDecide ==
  ASSUME NEW f \in LiftedFlags, NEW a \in Words, NEW b \in Words,
         f.zero <=> a = b,
         f.carry <=> a < b,
         f.sign <=> a - b \in -Half .. -1 \/ a - b >= Half,
         f.overflow <=> Signed(a, Half) - Signed(b, Half) \notin -Half .. Half - 1,
         f.sign # f.overflow <=> Signed(a, Half) < Signed(b, Half),
         NEW c \in Conditions
  PROVE  evaluate_condition(c, f) <=> Related(c, a, b, Half)
<1>1. a \in Int /\ b \in Int /\ Half \in Int
  BY Widths
<1>2. Signed(a, Half) \in Int /\ Signed(b, Half) \in Int
  BY <1>1 DEF Signed
<1>3. Signed(a, Half) = Signed(b, Half) <=> a = b
  BY Widths DEF Signed
<1>4. CASE c \in {"equal", "not_equal", "below", "above_or_equal", "below_or_equal", "above"}
  BY <1>1, <1>4 DEF evaluate_condition, Related, Below, DifferenceSign, SignedRelation
<1>5. CASE c \in {"sign", "not_sign", "overflow", "not_overflow"}
  BY <1>5 DEF evaluate_condition, Related, Below, DifferenceSign, SignedRelation
<1>6. CASE c \in {"less", "greater_or_equal", "less_or_equal", "greater"}
  <2>1. /\ f.sign # f.overflow <=> Signed(a, Half) < Signed(b, Half)
        /\ f.sign = f.overflow <=> Signed(a, Half) >= Signed(b, Half)
    BY <1>2 DEF LiftedFlags
  <2> QED
    BY <1>2, <1>3, <1>6, <2>1 DEF evaluate_condition, Related, Below, DifferenceSign, SignedRelation
<1> QED
  BY <1>4, <1>5, <1>6 DEF Conditions

LEMMA LiftedDecidesHolds == TypeOK /\ LiftedInv => LiftedDecides
<1> SUFFICES ASSUME TypeOK, LiftedInv, ~last.is_byte, NEW c \in Conditions,
                    last.operation \in {"compare", "test"}
             PROVE  evaluate_condition(c, lifted) <=> Decided(c)
  BY DEF LiftedDecides
<1>1. last.left \in Words /\ last.right \in Words
  BY DEF TypeOK
<1>2. CASE last.operation = "compare"
  <2>1. lifted = CompareFlags(last.left, last.right)
    BY <1>2 DEF LiftedInv
  <2>2. evaluate_condition(c, lifted) <=> Related(c, last.left, last.right, Half)
    BY <1>1, <2>1, CompareFlagsMeaning, FlagsAreBits, ConditionsDecide
  <2> QED
    BY <1>2, <2>2 DEF Decided, HalfOf
<1>3. CASE last.operation = "test"
  <2>1. lifted = TestFlags(BitAnd(last.left, last.right))
    BY <1>3 DEF LiftedInv
  <2>2. BitAnd(last.left, last.right) \in Words /\ 0 \in Words
    BY <1>1, WidthAssumption, Widths
  <2>3. evaluate_condition(c, lifted) <=> Related(c, BitAnd(last.left, last.right), 0, Half)
    BY <2>1, <2>2, TestFlagsMeaning, FlagsAreBits, ConditionsDecide
  <2> QED
    BY <1>3, <2>3 DEF Decided, HalfOf
<1> QED
  BY <1>2, <1>3

(* The straight-line compiler takes exactly the jumps the 8086 takes after *)
(* a word CMP or TEST.                                                     *)
THEOREM LiftedDecidesCorrect == Spec => []LiftedDecides
BY LiftedDecidesHolds, TypeCorrect, LiftedInvCorrect, PTL

LEMMA UnsignedDecidedHolds == TypeOK /\ FlagsInv => UnsignedDecided
<1> SUFFICES ASSUME TypeOK, FlagsInv PROVE UnsignedDecided
  OBVIOUS
<1>1. last.left \in Words /\ last.right \in Words /\ last.is_byte \in BOOLEAN
  BY DEF TypeOK
<1>2. last.left \in Int /\ last.right \in Int
  BY <1>1, Widths
<1>3. ASSUME last.operation = "compare",
             NEW c \in {"equal", "not_equal", "below", "above_or_equal", "below_or_equal", "above"}
      PROVE  emit_conditional(c, flags) <=> Decided(c)
  <2>1. /\ flags.zero <=> last.left = last.right
        /\ flags.carry <=> last.left < last.right
    BY <1>2, <1>3 DEF FlagsInv, update_flags_cmp, FlagWord
  <2>2. Decided(c) <=> Related(c, last.left, last.right, HalfOf(last.is_byte))
    BY <1>3 DEF Decided
  <2> QED
    BY <1>2, <2>1, <2>2 DEF emit_conditional, Related, Below, DifferenceSign, SignedRelation
<1>4. ASSUME last.operation = "arithmetic", NEW c \in {"equal", "not_equal", "sign", "not_sign"}
      PROVE  emit_conditional(c, flags) <=> Decided(c)
  <2>1. last.right = 0 /\ last.is_byte = FALSE
    BY <1>4 DEF FlagsInv
  <2>2. /\ flags.zero <=> last.left = 0
        /\ flags.sign <=> Negative(Difference(last.left, 0))
    BY <1>4, <2>1 DEF FlagsInv, update_flags_cmp, FlagWord
  <2>3. Negative(Difference(last.left, 0)) <=> last.left - 0 \in -Half .. -1 \/ last.left - 0 >= Half
    BY <1>1, Widths DEF Difference, Negative
  <2>4. Decided(c) <=> Related(c, last.left, 0, Half)
    BY <1>4, <2>1 DEF Decided, HalfOf
  <2> QED
    BY <1>2, <1>4, <2>2, <2>3, <2>4 DEF emit_conditional, Related, Below, DifferenceSign, SignedRelation
<1> QED
  BY <1>3, <1>4 DEF UnsignedDecided

(* The emitted runtime takes exactly the unsigned jumps the 8086 takes     *)
(* after CMP, and its zero and sign jumps after word arithmetic.           *)
THEOREM UnsignedDecidedCorrect == Spec => []UnsignedDecided
BY UnsignedDecidedHolds, TypeCorrect, FlagsInvCorrect, PTL

----------------------------------------------------------------------------
(* A word has at least four values, and the units are positive.            *)
LEMMA Units ==
  /\ Byte \in Nat \ {0} /\ Byte >= 2
  /\ Word \in Nat \ {0}
  /\ Paragraph \in Nat \ {0} /\ PageSize \in Nat \ {0}
  /\ MinimumHeader \in Nat \ {0} /\ EntrySize \in Nat \ {0}
<1>1. Byte \in Nat /\ Byte >= 2
  BY UnitsAssumption
<1>2. Byte * Byte \in Nat /\ Byte * Byte >= 2
  BY <1>1
<1> QED
  BY <1>1, <1>2, UnitsAssumption DEF Word

(* The image is the one load_bytes has accepted.                           *)
LoaderInv ==
  /\ file \in InputFiles
  /\ image # NoImage => image = Image(file) /\ ~load_bytes_fails(file)

LEMMA LoaderInvInit == EmittedInit => LoaderInv
BY DEF EmittedInit, LoaderInv

(* Only loading, copying and relocating change what main() works on.       *)
LEMMA StartupSteps ==
  ASSUME [EmittedNext]_emitted
  PROVE  \/ load_bytes /\ UNCHANGED <<mem, done>>
         \/ copy_image \/ relocate_word
         \/ UNCHANGED startup
<1>1. CASE load_bytes /\ UNCHANGED <<mem, done, files, memory, machine>>
  BY <1>1
<1>2. CASE copy_image \/ relocate_word
  BY <1>2
<1>3. ASSUME NEW name \in Names, open(name)
      PROVE  UNCHANGED startup
  BY <1>3 DEF open, Calls, Within
<1>4. ASSUME NEW handle \in DOMAIN opened, close(handle)
      PROVE  UNCHANGED startup
  BY <1>4 DEF close, Calls, Within
<1>5. ASSUME NEW want \in Wants, allocate(want)
      PROVE  UNCHANGED startup
  BY <1>5 DEF allocate, Calls, Within
<1>6. CASE release
  BY <1>6 DEF release, Calls, Within
<1>7. ASSUME NEW b \in DOMAIN blocks, NEW want \in Wants, resize(b, want)
      PROVE  UNCHANGED startup
  BY <1>7 DEF resize, Calls, Within
<1>8. CASE Execute
  BY <1>8 DEF Execute, Within
<1>9. CASE UNCHANGED emitted
  BY <1>9 DEF emitted
<1> QED
  BY <1>1, <1>2, <1>3, <1>4, <1>5, <1>6, <1>7, <1>8, <1>9 DEF EmittedNext

LEMMA LoaderInvStep == LoaderInv /\ [EmittedNext]_emitted => LoaderInv'
<1> SUFFICES ASSUME LoaderInv, [EmittedNext]_emitted PROVE LoaderInv'
  OBVIOUS
<1>1. CASE load_bytes
  BY <1>1 DEF load_bytes, LoaderInv
<1>2. CASE UNCHANGED <<file, image>>
  BY <1>2 DEF LoaderInv
<1> QED
  BY <1>1, <1>2, StartupSteps DEF copy_image, relocate_word, startup

LEMMA LoaderInvCorrect == EmittedSpec => []LoaderInv
BY LoaderInvInit, LoaderInvStep, PTL DEF EmittedSpec

(* As many entries as fit into some bytes take no more than these.         *)
LEMMA EntriesFit ==
  ASSUME NEW n \in Nat, NEW s \in Nat \ {0}, NEW room \in Nat, n <= room \div s
  PROVE  n * s <= room
<1>1. room \div s \in Int /\ room = (room \div s) * s + (room % s) /\ room % s >= 0 /\ room % s \in Int
  BY DivMod, ModRange
<1> DEFINE q == room \div s
<1>2. q \in Int /\ n <= q /\ q * s <= room
  BY <1>1
<1> HIDE DEF q
<1>3. n * s <= q * s
  BY <1>2
<1> QED
  BY <1>2, <1>3

(* What an accepted MZ header promises.                                    *)
LEMMA Accepted ==
  ASSUME NEW f \in InputFiles, f.mz, ~load_bytes_fails(f)
  PROVE  /\ DeclaredSize(f) \in Nat /\ HeaderSize(f) \in Nat /\ ModuleSize(f) \in Nat \ {0}
         /\ MinimumHeader <= HeaderSize(f) /\ HeaderSize(f) < f.size
         /\ f.table + f.count * EntrySize <= HeaderSize(f)
         /\ \A i \in 1 .. f.count :
              Linear(f.entries[i]) \in Nat /\ Linear(f.entries[i]) + 1 < ModuleSize(f)
<1> USE Units
<1>1. /\ f.pages \in Nat /\ f.last_page \in Nat /\ f.count \in Nat /\ f.paragraphs \in Nat
      /\ f.table \in Nat /\ f.size \in Nat /\ f.ip \in Nat
      /\ f.entries \in Seq(Addresses) /\ f.count <= Len(f.entries)
  BY FilesAssumption
<1>2. ~parse_mz_fails(f)
  BY DEF load_bytes_fails
<1>3. f.pages # 0 /\ DeclaredSize(f) <= f.size /\ HeaderSize(f) <= DeclaredSize(f) /\ HeaderSize(f) >= MinimumHeader
      /\ DeclaredSize(f) \in Nat /\ HeaderSize(f) \in Nat
  <2>1. f.pages >= 1 /\ f.pages - 1 \in Nat
    BY <1>1, <1>2 DEF parse_mz_fails
  <2>2. (f.pages - 1) * PageSize \in Nat
    BY <2>1
  <2>3. DeclaredSize(f) \in Nat
    BY <1>1, <2>2 DEF DeclaredSize
  <2>4. HeaderSize(f) \in Nat
    BY <1>1 DEF HeaderSize
  <2> QED
    BY <1>1, <1>2, <2>1, <2>3, <2>4 DEF parse_mz_fails
<1>4. ModuleSize(f) \in Nat \ {0}
  <2>1. ModuleSize(f) \in Int /\ f.ip < ModuleSize(f)
    BY <1>1, <1>2, <1>3 DEF parse_mz_fails, ModuleSize
  <2> QED
    BY <1>1, <2>1
<1>5. HeaderSize(f) < f.size
  BY <1>1, <1>3, <1>4 DEF ModuleSize
<1>6. f.table + f.count * EntrySize <= HeaderSize(f)
  <2>1. f.table <= HeaderSize(f) /\ f.count <= (HeaderSize(f) - f.table) \div EntrySize
    <3> DEFINE n == (HeaderSize(f) - f.table) \div EntrySize
    <3>1. n \in Int
      <4>1. HeaderSize(f) - f.table \in Int
        BY <1>1, <1>3
      <4> QED
        BY <4>1, DivMod
    <3>2. ~(f.table > HeaderSize(f)) /\ ~(f.count > n)
      BY <1>2 DEF parse_mz_fails
    <3> HIDE DEF n
    <3>3. f.table <= HeaderSize(f) /\ f.count <= n
      BY <1>1, <1>3, <3>1, <3>2
    <3> QED
      BY <3>3 DEF n
  <2>2. HeaderSize(f) - f.table \in Nat
    <3>1. f.table <= HeaderSize(f)
      BY <2>1
    <3> QED
      BY <1>1, <1>3, <3>1
  <2>3. f.count * EntrySize <= HeaderSize(f) - f.table
    BY <1>1, <2>1, <2>2, EntriesFit
  <2>4. f.count * EntrySize \in Nat
    BY <1>1
  <2> QED
    BY <1>1, <1>3, <2>3, <2>4
<1>7. ASSUME NEW i \in 1 .. f.count
      PROVE  Linear(f.entries[i]) \in Nat /\ Linear(f.entries[i]) + 1 < ModuleSize(f)
  <2>1. f.entries[i] \in Addresses
    BY <1>1
  <2>2. Linear(f.entries[i]) \in Nat
    BY <2>1 DEF Linear, Addresses
  <2>3. ~WordOutside(Linear(f.entries[i]), ModuleSize(f))
    BY <1>2 DEF parse_mz_fails
  <2> QED
    BY <1>4, <2>2, <2>3 DEF WordOutside
<1> QED
  BY <1>3, <1>4, <1>5, <1>6, <1>7

(* relocations and bytes of the image.                                     *)
LEMMA ImageShape ==
  ASSUME NEW f \in InputFiles, f.mz
  PROVE  /\ Image(f).mz = TRUE /\ Image(f).paragraphs = f.paragraphs
         /\ Image(f).bytes = [i \in 0 .. ModuleSize(f) - 1 |-> f.fill]
         /\ Image(f).relocations \in Seq(Addresses)
         /\ Len(Image(f).relocations) = f.count /\ DOMAIN Image(f).relocations = 1 .. f.count
         /\ \A i \in 1 .. f.count : Image(f).relocations[i] = f.entries[i]
<1>1. f.entries \in Seq(Addresses) /\ f.count \in Nat /\ f.count <= Len(f.entries)
  BY FilesAssumption
<1> DEFINE r == SubSeq(f.entries, 1, f.count)
<1>2. Image(f).relocations = r /\ Image(f).mz = TRUE /\ Image(f).paragraphs = f.paragraphs
      /\ Image(f).bytes = [i \in 0 .. ModuleSize(f) - 1 |-> f.fill]
  BY DEF Image
<1>3. r \in Seq(Addresses) /\ Len(r) = f.count /\ \A i \in 1 .. f.count : r[i] = f.entries[i]
  BY <1>1
<1>4. DOMAIN r = 1 .. f.count
  BY <1>3
<1> QED
  BY <1>2, <1>3, <1>4

(* What load_bytes accepts, whatever the header fields and the units of    *)
(* the format, it has read within the file, and every relocated word lies  *)
(* in the module.                                                          *)
THEOREM LoadsInBoundsCorrect == EmittedSpec => []LoadsInBounds
<1>1. LoaderInv => LoadsInBounds
  <2> SUFFICES ASSUME LoaderInv, image # NoImage, image.mz
               PROVE  /\ MinimumHeader <= HeaderSize(file) /\ HeaderSize(file) < file.size
                      /\ file.table + file.count * EntrySize <= HeaderSize(file)
                      /\ \A i \in DOMAIN image.relocations :
                           {Linear(image.relocations[i]), Linear(image.relocations[i]) + 1} \subseteq DOMAIN image.bytes
    BY DEF LoadsInBounds
  <2>1. file \in InputFiles /\ image = Image(file) /\ ~load_bytes_fails(file)
    BY DEF LoaderInv
  <2>2. file.mz
    BY <2>1 DEF Image
  <2>3. ASSUME NEW i \in DOMAIN image.relocations
        PROVE  {Linear(image.relocations[i]), Linear(image.relocations[i]) + 1} \subseteq DOMAIN image.bytes
    <3>1. i \in 1 .. file.count /\ image.relocations[i] = file.entries[i] /\ DOMAIN image.bytes = 0 .. ModuleSize(file) - 1
      BY <2>1, <2>2, ImageShape
    <3> QED
      BY <2>1, <2>2, <3>1, Accepted
  <2> QED
    BY <2>1, <2>2, <2>3, Accepted
<1> QED
  BY <1>1, LoaderInvCorrect, PTL

----------------------------------------------------------------------------
Descriptors == 3 .. 3 + MaxOpens
Holds(h) == opened[h].live /\ opened[h].name # Nowhere
Holding == { h \in DOMAIN opened :
               opened[h].name # Nowhere /\ (opened[h].live \/ h >= TableSize) }

(* The handles are numbered from 3 on, and there are no more descriptors   *)
(* than opens.                                                             *)
FilesTyped ==
  /\ next_handle \in 3 .. 3 + MaxOpens
  /\ opened \in [3 .. next_handle - 1 -> [name : Names \cup {Nowhere}, live : BOOLEAN]]
  /\ handle_to_fd \in [0 .. TableSize - 1 -> {-1} \cup Descriptors]
  /\ DOMAIN kernel \subseteq Descriptors
  /\ Cardinality(DOMAIN kernel) <= next_handle - 3

Unaliased == next_handle <= HandleMask + 3

Reach ==
  \A h \in DOMAIN opened :
    h < TableSize =>
      IF Holds(h) THEN handle_to_fd[h] \in DOMAIN kernel /\ kernel[handle_to_fd[h]] = opened[h].name
      ELSE handle_to_fd[h] = -1
Distinct ==
  \A g, h \in DOMAIN opened :
    g # h /\ g < TableSize /\ h < TableSize /\ handle_to_fd[h] # -1 =>
      handle_to_fd[g] # handle_to_fd[h]
Counted == Cardinality(DOMAIN kernel) = Cardinality(Holding)

(* What the table, the descriptors and the handles have to do with each    *)
(* other, while no handle aliases another.                                 *)
FilesInv == FilesTyped /\ (Unaliased => Reach /\ Distinct /\ Counted)

----------------------------------------------------------------------------
LEMMA Limits ==
  /\ TableSize \in Int /\ TableSize > 3 /\ HandleMask \in Int /\ HandleMask >= TableSize
  /\ MaxOpens \in Int /\ MaxOpens >= 0
BY ServicesAssumption

(* A handle below the mask is itself; the next three fall below the table. *)
LEMMA Masked ==
  ASSUME NEW h \in Nat, 3 <= h, h < HandleMask + 3
  PROVE  /\ h < HandleMask => h % HandleMask = h
         /\ h >= HandleMask => h % HandleMask < 3
<1>1. HandleMask \in Nat \ {0} /\ HandleMask > 3
  BY Limits
<1>2. CASE h < HandleMask
  BY <1>1, <1>2
<1>3. CASE h >= HandleMask
  <2> DEFINE q == h \div HandleMask   r == h % HandleMask
  <2>1. q \in Int /\ r \in Int /\ 0 <= r /\ r < HandleMask /\ h = q * HandleMask + r
    BY <1>1, DivMod, ModRange
  <2> HIDE DEF q, r
  <2>2. q >= 1
    <3>1. ASSUME q <= 0 PROVE FALSE
      <4>1. q * HandleMask <= 0
        BY <1>1, <2>1, <3>1
      <4> QED
        BY <1>1, <1>3, <2>1, <4>1
    <3> QED
      BY <2>1, <3>1
  <2>3. q * HandleMask >= HandleMask
    BY <1>1, <2>1, <2>2
  <2>4. q * HandleMask \in Int
    BY <1>1, <2>1
  <2>5. r < 3
    BY <1>1, <1>3, <2>1, <2>3, <2>4
  <2> QED
    BY <1>3, <2>5, <1>1 DEF r
<1> QED
  BY <1>1, <1>2, <1>3

LEMMA TableEntry ==
  ASSUME NEW h \in Nat, 3 <= h, h < TableSize
  PROVE  ReadsFrom(h) = handle_to_fd[h] /\ WritesTo(h) = handle_to_fd[h]
<1>1. h % HandleMask = h
  BY Limits, Masked
<1> QED
  BY <1>1, Limits DEF ReadsFrom, WritesTo

LEMMA KernelFinite ==
  ASSUME FilesTyped
  PROVE  IsFiniteSet(DOMAIN kernel) /\ Cardinality(DOMAIN kernel) \in Nat
<1>1. IsFiniteSet(Descriptors)
  BY Limits, FS_Interval DEF Descriptors
<1> QED
  BY <1>1, FS_Subset, FS_CardinalityType DEF FilesTyped

(* While handles are left, so are descriptors.                             *)
LEMMA FreeExists ==
  ASSUME FilesTyped, next_handle < 3 + MaxOpens
  PROVE  FreeDescriptor \in Descriptors \ DOMAIN kernel
<1> DEFINE Free == Descriptors \ DOMAIN kernel
<1>1. Free # {}
  <2> SUFFICES ASSUME Descriptors \subseteq DOMAIN kernel PROVE FALSE
    OBVIOUS
  <2>1. Cardinality(Descriptors) = MaxOpens + 1
    BY Limits, FS_Interval DEF Descriptors
  <2>2. Cardinality(Descriptors) <= Cardinality(DOMAIN kernel)
    BY KernelFinite, FS_Subset
  <2>3. next_handle \in Int /\ Cardinality(DOMAIN kernel) <= next_handle - 3
    BY DEF FilesTyped
  <2> QED
    BY <2>1, <2>2, <2>3, KernelFinite, Limits
<1>2. Free \in SUBSET Nat
  BY Limits DEF Descriptors
<1>3. PICK d \in Free : \A e \in Free : d <= e
  BY <1>1, <1>2, LeastNat
<1>4. \A e \in 3 .. d - 1 : e \in DOMAIN kernel
  BY <1>3, Limits DEF Descriptors
<1>5. \E f \in 3 .. 3 + MaxOpens : f \notin DOMAIN kernel /\ \A e \in 3 .. f - 1 : e \in DOMAIN kernel
  BY <1>3, <1>4 DEF Descriptors
<1> QED
  BY <1>5 DEF FreeDescriptor, Descriptors

LEMMA HoldingFinite ==
  ASSUME FilesTyped
  PROVE  IsFiniteSet(Holding) /\ DOMAIN opened = 3 .. next_handle - 1
<1>1. DOMAIN opened = 3 .. next_handle - 1 /\ next_handle \in Int
  BY DEF FilesTyped
<1>2. IsFiniteSet(3 .. next_handle - 1)
  BY <1>1, FS_Interval
<1> QED
  BY <1>1, <1>2, FS_Subset DEF Holding

LEMMA FilesInvInit == EmittedInit => FilesInv
<1> SUFFICES ASSUME EmittedInit PROVE FilesInv
  OBVIOUS
<1>1. next_handle = 3 /\ kernel = <<>> /\ opened = <<>> /\ handle_to_fd = [h \in 0 .. TableSize - 1 |-> -1]
  BY DEF EmittedInit
<1>2. DOMAIN opened = {} /\ DOMAIN kernel = {} /\ Holding = {}
  BY <1>1 DEF Holding
<1>3. FilesTyped
  <2>1. opened \in [3 .. next_handle - 1 -> [name : Names \cup {Nowhere}, live : BOOLEAN]]
    <3>1. 3 .. next_handle - 1 = {}
      BY <1>1
    <3>2. opened = [x \in {} |-> x]
      BY <1>1, <1>2
    <3> QED
      BY <3>1, <3>2
  <2> QED
    BY <1>1, <1>2, <2>1, Limits, FS_EmptySet DEF FilesTyped
<1>4. Reach /\ Distinct /\ Counted
  BY <1>2 DEF Reach, Distinct, Counted
<1> QED
  BY <1>3, <1>4 DEF FilesInv

----------------------------------------------------------------------------
(* What numbering a handle does to the state, whatever descriptor it gets. *)
LEMMA NumberedTyped ==
  ASSUME FilesTyped, next_handle < 3 + MaxOpens,
         NEW name \in Names \cup {Nowhere}, NEW fd \in {-1} \cup Descriptors,
         Numbered(name), handle_to_fd' = Entered(fd)
  PROVE  /\ next_handle' = next_handle + 1 /\ next_handle' \in 3 .. 3 + MaxOpens
         /\ opened' \in [3 .. next_handle' - 1 -> [name : Names \cup {Nowhere}, live : BOOLEAN]]
         /\ DOMAIN opened = 3 .. next_handle - 1
         /\ DOMAIN opened' = DOMAIN opened \cup {next_handle}
         /\ next_handle \notin DOMAIN opened
         /\ opened'[next_handle] = [name |-> name, live |-> TRUE]
         /\ \A h \in DOMAIN opened : opened'[h] = opened[h]
         /\ handle_to_fd' \in [0 .. TableSize - 1 -> {-1} \cup Descriptors]
         /\ next_handle < TableSize => handle_to_fd'[next_handle] = fd
         /\ \A h \in DOMAIN opened : h < TableSize => handle_to_fd'[h] = handle_to_fd[h]
<1> USE Limits
<1>1. next_handle \in Int /\ next_handle >= 3 /\ next_handle' = next_handle + 1 /\ next_handle' \in 3 .. 3 + MaxOpens
  BY DEF FilesTyped, Numbered
<1>2. DOMAIN opened = 3 .. next_handle - 1 /\ 3 .. next_handle' - 1 = DOMAIN opened \cup {next_handle}
      /\ next_handle \notin DOMAIN opened
  BY <1>1 DEF FilesTyped
<1>3. opened' = [h \in DOMAIN opened \cup {next_handle} |->
                   IF h = next_handle THEN [name |-> name, live |-> TRUE] ELSE opened[h]]
  BY DEF Numbered
<1>4. /\ DOMAIN opened' = DOMAIN opened \cup {next_handle}
      /\ opened'[next_handle] = [name |-> name, live |-> TRUE]
      /\ \A h \in DOMAIN opened : opened'[h] = opened[h]
  BY <1>2, <1>3
<1>5. \A h \in DOMAIN opened : opened[h] \in [name : Names \cup {Nowhere}, live : BOOLEAN]
  BY <1>2 DEF FilesTyped
<1>6. opened' \in [3 .. next_handle' - 1 -> [name : Names \cup {Nowhere}, live : BOOLEAN]]
  BY <1>2, <1>3, <1>5
<1>7. /\ handle_to_fd' \in [0 .. TableSize - 1 -> {-1} \cup Descriptors]
      /\ next_handle < TableSize => handle_to_fd'[next_handle] = fd
      /\ \A h \in DOMAIN opened : h < TableSize => handle_to_fd'[h] = handle_to_fd[h]
  <2>1. CASE next_handle < TableSize
    <3>1. handle_to_fd' = [handle_to_fd EXCEPT ![next_handle] = fd]
      BY <2>1 DEF Entered
    <3> QED
      BY <1>1, <1>2, <2>1, <3>1 DEF FilesTyped
  <2>2. CASE ~(next_handle < TableSize)
    BY <2>2 DEF Entered, FilesTyped
  <2> QED
    BY <2>1, <2>2
<1> QED
  BY <1>1, <1>2, <1>4, <1>6, <1>7

LEMMA OpenedStep ==
  ASSUME FilesInv, next_handle < 3 + MaxOpens, NEW name \in Names,
         kernel' = [d \in DOMAIN kernel \cup {FreeDescriptor} |->
                      IF d = FreeDescriptor THEN name ELSE kernel[d]],
         handle_to_fd' = Entered(FreeDescriptor), Numbered(name)
  PROVE  FilesInv'
<1> DEFINE fd == FreeDescriptor
<1>0. FilesTyped
  BY DEF FilesInv
<1>1. fd \in Descriptors /\ fd \notin DOMAIN kernel
  BY <1>0, FreeExists
<1>2. fd \in Int /\ fd # -1
  BY <1>1, Limits DEF Descriptors
<1>3. /\ next_handle' = next_handle + 1 /\ next_handle' \in 3 .. 3 + MaxOpens
      /\ opened' \in [3 .. next_handle' - 1 -> [name : Names \cup {Nowhere}, live : BOOLEAN]]
      /\ DOMAIN opened = 3 .. next_handle - 1
      /\ DOMAIN opened' = DOMAIN opened \cup {next_handle}
      /\ next_handle \notin DOMAIN opened
      /\ opened'[next_handle] = [name |-> name, live |-> TRUE]
      /\ \A h \in DOMAIN opened : opened'[h] = opened[h]
      /\ handle_to_fd' \in [0 .. TableSize - 1 -> {-1} \cup Descriptors]
      /\ next_handle < TableSize => handle_to_fd'[next_handle] = fd
      /\ \A h \in DOMAIN opened : h < TableSize => handle_to_fd'[h] = handle_to_fd[h]
  BY <1>0, <1>1, NumberedTyped
<1>4. /\ DOMAIN kernel' = DOMAIN kernel \cup {fd}
      /\ kernel'[fd] = name /\ \A d \in DOMAIN kernel : kernel'[d] = kernel[d]
  BY <1>1
<1>5. name # Nowhere
  BY ServicesAssumption DEF Nowhere
<1>6. Cardinality(DOMAIN kernel') = Cardinality(DOMAIN kernel) + 1
  BY <1>0, <1>1, <1>4, KernelFinite, FS_AddElement
<1>7. next_handle \in Int /\ next_handle >= 3
  BY <1>0 DEF FilesTyped
<1>8. FilesTyped'
  <2>1. DOMAIN kernel' \subseteq Descriptors
    BY <1>0, <1>1, <1>4 DEF FilesTyped
  <2>2. Cardinality(DOMAIN kernel') <= next_handle' - 3
    BY <1>0, <1>3, <1>6, <1>7, KernelFinite DEF FilesTyped
  <2> QED
    BY <1>3, <2>1, <2>2 DEF FilesTyped, Descriptors
<1> HIDE DEF fd
<1>9. ASSUME Unaliased'
      PROVE  Reach' /\ Distinct' /\ Counted'
  <2>1. Reach /\ Distinct /\ Counted
    BY <1>3, <1>7, <1>9, Limits DEF FilesInv, Unaliased
  <2>2. \A h \in DOMAIN opened : (Holds(h))' <=> Holds(h)
    BY <1>3 DEF Holds
  <2>3. \A h \in DOMAIN opened : h < TableSize => handle_to_fd[h] \in DOMAIN kernel \/ handle_to_fd[h] = -1
    BY <2>1 DEF Reach
  <2>4. Reach'
    <3> SUFFICES ASSUME NEW h \in DOMAIN opened', h < TableSize
                 PROVE  IF (Holds(h))'
                        THEN handle_to_fd'[h] \in DOMAIN kernel' /\ kernel'[handle_to_fd'[h]] = opened'[h].name
                        ELSE handle_to_fd'[h] = -1
      BY DEF Reach
    <3>1. CASE h = next_handle
      BY <1>3, <1>4, <1>5, <3>1 DEF Holds
    <3>2. CASE h \in DOMAIN opened
      BY <1>3, <1>4, <2>1, <2>2, <3>2 DEF Reach
    <3> QED
      BY <1>3, <3>1, <3>2
  <2>5. Distinct'
    <3> SUFFICES ASSUME NEW g \in DOMAIN opened', NEW h \in DOMAIN opened',
                        g # h, g < TableSize, h < TableSize, handle_to_fd'[h] # -1
                 PROVE  handle_to_fd'[g] # handle_to_fd'[h]
      BY DEF Distinct
    <3>1. CASE g = next_handle /\ h \in DOMAIN opened
      BY <1>1, <1>3, <2>3, <3>1
    <3>2. CASE h = next_handle /\ g \in DOMAIN opened
      BY <1>1, <1>2, <1>3, <2>3, <3>2
    <3>3. CASE g \in DOMAIN opened /\ h \in DOMAIN opened
      BY <1>3, <2>1, <3>3 DEF Distinct
    <3> QED
      BY <1>3, <3>1, <3>2, <3>3
  <2>6. Counted'
    <3>1. Holding' = Holding \cup {next_handle} /\ next_handle \notin Holding
      <4>1. opened'[next_handle].name = name /\ opened'[next_handle].live
        BY <1>3
      <4> QED
        BY <1>3, <1>5, <4>1 DEF Holding
    <3>2. Cardinality(Holding') = Cardinality(Holding) + 1
      BY <1>0, <3>1, HoldingFinite, FS_AddElement
    <3> QED
      BY <1>6, <2>1, <3>2 DEF Counted
  <2> QED
    BY <2>4, <2>5, <2>6
<1> QED
  BY <1>8, <1>9 DEF FilesInv

LEMMA FailedStep ==
  ASSUME FilesInv, next_handle < 3 + MaxOpens,
         handle_to_fd' = Entered(-1), Numbered(Nowhere), UNCHANGED kernel
  PROVE  FilesInv'
<1>0. FilesTyped
  BY DEF FilesInv
<1>3. /\ next_handle' = next_handle + 1 /\ next_handle' \in 3 .. 3 + MaxOpens
      /\ opened' \in [3 .. next_handle' - 1 -> [name : Names \cup {Nowhere}, live : BOOLEAN]]
      /\ DOMAIN opened = 3 .. next_handle - 1
      /\ DOMAIN opened' = DOMAIN opened \cup {next_handle}
      /\ next_handle \notin DOMAIN opened
      /\ opened'[next_handle] = [name |-> Nowhere, live |-> TRUE]
      /\ \A h \in DOMAIN opened : opened'[h] = opened[h]
      /\ handle_to_fd' \in [0 .. TableSize - 1 -> {-1} \cup Descriptors]
      /\ next_handle < TableSize => handle_to_fd'[next_handle] = -1
      /\ \A h \in DOMAIN opened : h < TableSize => handle_to_fd'[h] = handle_to_fd[h]
  BY <1>0, NumberedTyped
<1>7. next_handle \in Int /\ next_handle >= 3
  BY <1>0 DEF FilesTyped
<1>8. FilesTyped'
  BY <1>0, <1>3, <1>7, KernelFinite DEF FilesTyped, Descriptors
<1>9. ASSUME Unaliased'
      PROVE  Reach' /\ Distinct' /\ Counted'
  <2>1. Reach /\ Distinct /\ Counted
    BY <1>3, <1>7, <1>9, Limits DEF FilesInv, Unaliased
  <2>2. \A h \in DOMAIN opened : (Holds(h))' <=> Holds(h)
    BY <1>3 DEF Holds
  <2>4. Reach'
    <3> SUFFICES ASSUME NEW h \in DOMAIN opened', h < TableSize
                 PROVE  IF (Holds(h))'
                        THEN handle_to_fd'[h] \in DOMAIN kernel' /\ kernel'[handle_to_fd'[h]] = opened'[h].name
                        ELSE handle_to_fd'[h] = -1
      BY DEF Reach
    <3>1. CASE h = next_handle
      BY <1>3, <3>1 DEF Holds
    <3>2. CASE h \in DOMAIN opened
      BY <1>3, <2>1, <2>2, <3>2 DEF Reach
    <3> QED
      BY <1>3, <3>1, <3>2
  <2>5. Distinct'
    BY <1>3, <2>1 DEF Distinct
  <2>6. Holding' = Holding
    BY <1>3 DEF Holding
  <2> QED
    BY <2>1, <2>4, <2>5, <2>6 DEF Counted
<1> QED
  BY <1>8, <1>9 DEF FilesInv

LEMMA ClosedStep ==
  ASSUME FilesInv, NEW handle \in DOMAIN opened, close(handle)
  PROVE  FilesInv'
<1> DEFINE h == handle % HandleMask
           hit == h >= 3 /\ h < TableSize /\ handle_to_fd[h] >= 0
<1>0. FilesTyped
  BY DEF FilesInv
<1>1. /\ opened' = [opened EXCEPT ![handle].live = FALSE] /\ UNCHANGED next_handle
      /\ hit => /\ kernel' = [d \in DOMAIN kernel \ {handle_to_fd[h]} |-> kernel[d]]
                /\ handle_to_fd' = [handle_to_fd EXCEPT ![h] = -1]
      /\ ~hit => UNCHANGED <<kernel, handle_to_fd>>
  BY DEF close, Dropped
<1>2. handle \in Nat /\ 3 <= handle /\ handle < next_handle /\ next_handle \in Int /\ DOMAIN opened = 3 .. next_handle - 1
  BY <1>0 DEF FilesTyped
<1>3. h \in Int
  BY <1>2, Limits, ModRange
<1> HIDE DEF h
<1>4. /\ opened' \in [3 .. next_handle - 1 -> [name : Names \cup {Nowhere}, live : BOOLEAN]]
      /\ DOMAIN opened' = DOMAIN opened
      /\ opened'[handle].name = opened[handle].name /\ ~opened'[handle].live
      /\ \A g \in DOMAIN opened : g # handle => opened'[g] = opened[g]
  <2>1. opened \in [DOMAIN opened -> [name : Names \cup {Nowhere}, live : BOOLEAN]]
    BY <1>0, <1>2 DEF FilesTyped
  <2>2. opened'[handle].name = opened[handle].name /\ opened'[handle].live = FALSE
    BY <1>1, <2>1
  <2>3. opened' \in [DOMAIN opened -> [name : Names \cup {Nowhere}, live : BOOLEAN]]
    BY <1>1, <2>1
  <2>4. \A g \in DOMAIN opened : g # handle => opened'[g] = opened[g]
    BY <1>1, <2>1
  <2> QED
    BY <1>2, <2>2, <2>3, <2>4
<1>5. /\ hit => DOMAIN kernel' = DOMAIN kernel \ {handle_to_fd[h]}
      /\ DOMAIN kernel' \subseteq DOMAIN kernel /\ \A d \in DOMAIN kernel' : kernel'[d] = kernel[d]
  BY <1>1
<1>6. FilesTyped'
  <2>1. handle_to_fd' \in [0 .. TableSize - 1 -> {-1} \cup Descriptors]
    BY <1>0, <1>1, <1>3 DEF FilesTyped
  <2>2. Cardinality(DOMAIN kernel') <= Cardinality(DOMAIN kernel) /\ Cardinality(DOMAIN kernel') \in Nat
    BY <1>0, <1>5, KernelFinite, FS_Subset, FS_CardinalityType
  <2>3. Cardinality(DOMAIN kernel') <= next_handle' - 3
    BY <1>0, <1>1, <1>2, <2>2, KernelFinite DEF FilesTyped
  <2>4. DOMAIN kernel' \subseteq Descriptors
    BY <1>0, <1>5 DEF FilesTyped
  <2>5. next_handle' \in 3 .. 3 + MaxOpens /\ opened' \in [3 .. next_handle' - 1 -> [name : Names \cup {Nowhere}, live : BOOLEAN]]
    BY <1>0, <1>1, <1>4 DEF FilesTyped
  <2> QED
    BY <2>1, <2>3, <2>4, <2>5 DEF FilesTyped, Descriptors
<1>7. ASSUME Unaliased'
      PROVE  Reach' /\ Distinct' /\ Counted'
  <2>1. Reach /\ Distinct /\ Counted
    BY <1>1, <1>7 DEF FilesInv, Unaliased
  <2>2. handle < HandleMask + 3
    BY <1>1, <1>2, <1>7, Limits DEF Unaliased
  <2>3. /\ handle < TableSize => h = handle
        /\ handle >= TableSize => ~(h >= 3 /\ h < TableSize)
    BY <1>2, <2>2, Masked, Limits DEF h
  <2>4. ASSUME NEW g \in DOMAIN opened
        PROVE  (Holds(g))' <=> Holds(g) /\ g # handle
    BY <1>4, <2>4 DEF Holds
  <2>5. CASE handle < TableSize /\ Holds(handle)
    <3> DEFINE fd == handle_to_fd[handle]
    <3>1. fd \in DOMAIN kernel /\ h = handle
      BY <2>1, <2>3, <2>5 DEF Reach
    <3>2. fd \in Int /\ fd >= 3
      BY <1>0, <3>1, Limits DEF FilesTyped, Descriptors
    <3>3. hit
      BY <1>2, <2>5, <3>1, <3>2
    <3> HIDE DEF hit
    <3>4. /\ DOMAIN kernel' = DOMAIN kernel \ {fd}
          /\ handle_to_fd' = [handle_to_fd EXCEPT ![handle] = -1]
      BY <1>1, <1>5, <3>1, <3>3
    <3>5. /\ handle_to_fd'[handle] = -1
          /\ \A g \in DOMAIN opened : g < TableSize /\ g # handle => handle_to_fd'[g] = handle_to_fd[g]
      <4>1. handle_to_fd \in [0 .. TableSize - 1 -> {-1} \cup Descriptors] /\ handle \in 0 .. TableSize - 1
        BY <1>0, <1>2, <2>5, Limits DEF FilesTyped
      <4>2. \A g \in DOMAIN opened : g < TableSize => g \in 0 .. TableSize - 1
        BY <1>2, Limits
      <4> QED
        BY <3>4, <4>1, <4>2
    <3> HIDE DEF fd
    <3>6. Reach'
      <4> SUFFICES ASSUME NEW g \in DOMAIN opened, g < TableSize
                   PROVE  IF (Holds(g))'
                          THEN handle_to_fd'[g] \in DOMAIN kernel' /\ kernel'[handle_to_fd'[g]] = opened'[g].name
                          ELSE handle_to_fd'[g] = -1
        BY <1>4 DEF Reach
      <4>1. CASE g = handle
        BY <2>4, <3>5, <4>1
      <4>2. CASE g # handle
        <5>1. handle_to_fd'[g] = handle_to_fd[g] /\ opened'[g] = opened[g]
          BY <1>4, <3>5, <4>2
        <5>2. CASE Holds(g)
          <6>1. handle_to_fd[g] \in DOMAIN kernel /\ kernel[handle_to_fd[g]] = opened[g].name
            BY <2>1, <5>2 DEF Reach
          <6>2. handle_to_fd[g] # fd
            BY <2>1, <2>5, <3>1, <3>2, <4>2 DEF Distinct, fd
          <6> QED
            BY <1>5, <2>4, <3>4, <4>2, <5>1, <5>2, <6>1, <6>2
        <5>3. CASE ~Holds(g)
          BY <2>1, <2>4, <5>1, <5>3 DEF Reach
        <5> QED
          BY <5>2, <5>3
      <4> QED
        BY <4>1, <4>2
    <3>7. Distinct'
      <4> SUFFICES ASSUME NEW g \in DOMAIN opened, NEW k \in DOMAIN opened,
                          g # k, g < TableSize, k < TableSize, handle_to_fd'[k] # -1
                   PROVE  handle_to_fd'[g] # handle_to_fd'[k]
        BY <1>4 DEF Distinct
      <4>1. k # handle /\ handle_to_fd'[k] = handle_to_fd[k]
        BY <3>5
      <4>2. CASE g = handle
        BY <3>5, <4>2
      <4>3. CASE g # handle
        BY <2>1, <3>5, <4>1, <4>3 DEF Distinct
      <4> QED
        BY <4>2, <4>3
    <3>8. Counted'
      <4>1. Holding' = Holding \ {handle} /\ handle \in Holding
        BY <1>2, <1>4, <2>5, Limits DEF Holding, Holds
      <4>2. Cardinality(Holding') = Cardinality(Holding) - 1
        BY <1>0, <4>1, HoldingFinite, FS_RemoveElement
      <4>3. Cardinality(DOMAIN kernel') = Cardinality(DOMAIN kernel) - 1
        BY <1>0, <3>1, <3>4, KernelFinite, FS_RemoveElement
      <4> QED
        BY <2>1, <4>2, <4>3 DEF Counted
    <3> QED
      BY <3>6, <3>7, <3>8
  <2>6. CASE ~(handle < TableSize /\ Holds(handle))
    <3>1. ~hit
      <4>1. CASE handle >= TableSize
        BY <2>3, <4>1
      <4>2. CASE handle < TableSize
        BY <2>1, <2>3, <2>6, <4>2 DEF Reach
      <4> QED
        BY <1>2, <4>1, <4>2, Limits
    <3> HIDE DEF hit
    <3>2. UNCHANGED <<kernel, handle_to_fd>>
      BY <1>1, <3>1
    <3>3. Reach'
      <4> SUFFICES ASSUME NEW g \in DOMAIN opened, g < TableSize
                   PROVE  IF (Holds(g))'
                          THEN handle_to_fd'[g] \in DOMAIN kernel' /\ kernel'[handle_to_fd'[g]] = opened'[g].name
                          ELSE handle_to_fd'[g] = -1
        BY <1>4 DEF Reach
      <4>1. (Holds(g))' <=> Holds(g)
        BY <2>4, <2>6
      <4>2. opened'[g].name = opened[g].name
        BY <1>4
      <4> QED
        BY <2>1, <3>2, <4>1, <4>2 DEF Reach
    <3>4. Distinct'
      BY <1>4, <2>1, <3>2 DEF Distinct
    <3>5. Holding' = Holding
      <4>1. ASSUME NEW g \in DOMAIN opened
            PROVE  opened'[g].name # Nowhere /\ (opened'[g].live \/ g >= TableSize) <=>
                   opened[g].name # Nowhere /\ (opened[g].live \/ g >= TableSize)
        <5>1. CASE g # handle
          BY <1>4, <5>1
        <5>2. CASE g = handle /\ handle >= TableSize
          BY <1>4, <5>2
        <5>3. CASE g = handle /\ handle < TableSize
          <6>1. ~Holds(handle) /\ ~(handle >= TableSize)
            BY <1>2, <2>6, <5>3, Limits
          <6> QED
            BY <1>4, <5>3, <6>1 DEF Holds
        <5> QED
          BY <1>2, <5>1, <5>2, <5>3, Limits
      <4> QED
        BY <1>4, <4>1 DEF Holding
    <3> QED
      BY <2>1, <3>2, <3>3, <3>4, <3>5 DEF Counted
  <2> QED
    BY <2>5, <2>6
<1> QED
  BY <1>6, <1>7 DEF FilesInv

LEMMA FilesInvStep == FilesInv /\ [EmittedNext]_emitted => FilesInv'
<1> SUFFICES ASSUME FilesInv, [EmittedNext]_emitted PROVE FilesInv'
  OBVIOUS
<1>1. ASSUME NEW name \in Names, open(name)
      PROVE  FilesInv'
  BY <1>1, OpenedStep, FailedStep DEF open
<1>2. ASSUME NEW handle \in DOMAIN opened, close(handle)
      PROVE  FilesInv'
  BY <1>2, ClosedStep
<1>3. CASE UNCHANGED files
  BY <1>3 DEF files, FilesInv, FilesTyped, Unaliased, Reach, Distinct, Counted, Holding, Holds, Descriptors
<1>4. CASE load_bytes /\ UNCHANGED <<mem, done, files, memory, machine>>
  BY <1>3, <1>4
<1>5. CASE copy_image \/ relocate_word \/ release \/ Execute
  BY <1>3, <1>5 DEF copy_image, relocate_word, release, Execute
<1>6. ASSUME NEW want \in Wants, allocate(want)
      PROVE  FilesInv'
  BY <1>3, <1>6 DEF allocate
<1>7. ASSUME NEW b \in DOMAIN blocks, NEW want \in Wants, resize(b, want)
      PROVE  FilesInv'
  BY <1>3, <1>7 DEF resize
<1>8. CASE UNCHANGED emitted
  BY <1>3, <1>8 DEF emitted
<1> QED
  BY <1>1, <1>2, <1>4, <1>5, <1>6, <1>7, <1>8 DEF EmittedNext

(* The emitted handle table leads every handle to the file it was returned *)
(* for until it is closed, and to nothing afterwards, for every size of    *)
(* the table, until handles are numbered so high that they alias.          *)
THEOREM HandlesReachTheirFilesCorrect == EmittedSpec => []HandlesReachTheirFiles
<1>1. FilesInv => HandlesReachTheirFiles
  <2> SUFFICES ASSUME FilesInv, Unaliased PROVE HandlesReachTheirFiles
    BY DEF HandlesReachTheirFiles, Unaliased
  <2>1. FilesTyped /\ Reach /\ Distinct /\ Counted
    BY DEF FilesInv
  <2>2. ASSUME NEW h \in DOMAIN opened, h < TableSize
        PROVE  ReadsFrom(h) = handle_to_fd[h] /\ WritesTo(h) = handle_to_fd[h]
    <3>1. h \in Nat /\ 3 <= h
      BY <2>1 DEF FilesTyped
    <3> QED
      BY <2>2, <3>1, TableEntry
  <2>3. ASSUME NEW h \in DOMAIN opened, h < TableSize
        PROVE  /\ ReadsFrom(h) = WritesTo(h)
               /\ IF opened[h].live /\ opened[h].name # Nowhere
                  THEN ReadsFrom(h) \in DOMAIN kernel /\ kernel[ReadsFrom(h)] = opened[h].name
                  ELSE ReadsFrom(h) = -1
    BY <2>1, <2>2, <2>3 DEF Reach, Holds
  <2>4. ASSUME NEW h \in DOMAIN opened, h < TableSize, NEW g \in DOMAIN opened \ {h}, g < TableSize, ReadsFrom(h) # -1
        PROVE  ReadsFrom(g) # ReadsFrom(h)
    <3>1. handle_to_fd[g] # handle_to_fd[h]
      BY <2>1, <2>2, <2>4 DEF Distinct
    <3> QED
      BY <2>2, <2>4, <3>1
  <2>5. Cardinality(DOMAIN kernel) =
       Cardinality({ h \in DOMAIN opened : opened[h].name # Nowhere /\ (opened[h].live \/ h >= TableSize) })
    BY <2>1 DEF Counted, Holding
  <2> QED
    BY <2>3, <2>4, <2>5 DEF HandlesReachTheirFiles
<1>2. FilesInv /\ [EmittedNext]_emitted => FilesInv'
  BY FilesInvStep
<1> QED
  BY <1>1, <1>2, FilesInvInit, PTL DEF EmittedSpec

----------------------------------------------------------------------------
Block == [segment : Nat, size : Nat, granted : Nat]
Unwrapped == \A i \in DOMAIN blocks :
               FirstBlock <= blocks[i].segment /\ blocks[i].segment + blocks[i].granted <= Word
Ascending == \A i, j \in DOMAIN blocks :
               i < j => blocks[i].segment + blocks[i].granted <= blocks[j].segment
(* Every grant begins where the one before it ends, as long as none has    *)
(* wrapped around.                                                         *)
BlocksInv ==
  /\ blocks \in Seq(Block) /\ next_seg \in Nat /\ DOMAIN mem \subseteq Nat
  /\ next_seg = IF Len(blocks) = 0 THEN FirstBlock
                ELSE (blocks[Len(blocks)].segment + blocks[Len(blocks)].granted) % Word
  /\ Unwrapped => Ascending

LEMMA Placement ==
  ASSUME LoaderInv, image # NoImage
  PROVE  /\ Base(image) \in Nat /\ DOMAIN image.bytes \subseteq Nat
         /\ LoadSegment(image) \in Nat
<1>1. file \in InputFiles /\ image = Image(file)
  BY DEF LoaderInv
<1>2. DOMAIN image.bytes \subseteq Nat /\ image.paragraphs \in Nat
  BY <1>1, FilesAssumption DEF Image
<1>3. PspSegment + image.paragraphs \in Int
  BY <1>2, ServicesAssumption
<1>4. LoadSegment(image) \in Nat
  BY <1>3, Units, ModRange DEF LoadSegment
<1>5. LoadSegment(image) * Paragraph \in Nat
  BY <1>4, Units
<1>6. Base(image) \in Nat
  BY <1>5, ServicesAssumption DEF Base
<1> QED
  BY <1>2, <1>4, <1>6

(* Memory keeps its addresses, and they are not negative.                  *)
LEMMA MemorySteps ==
  ASSUME LoaderInv, [EmittedNext]_emitted, DOMAIN mem \subseteq Nat
  PROVE  DOMAIN mem' \subseteq Nat
<1>1. CASE copy_image
  <2>1. mem' = [a \in { Base(image) + k : k \in DOMAIN image.bytes } |-> image.bytes[a - Base(image)]] /\ image # NoImage
    BY <1>1 DEF copy_image
  <2>2. DOMAIN mem' = { Base(image) + k : k \in DOMAIN image.bytes }
    BY <2>1
  <2> QED
    BY <2>1, <2>2, Placement
<1>2. CASE relocate_word
  BY <1>2 DEF relocate_word, Relocate
<1> QED
  BY <1>1, <1>2, StartupSteps DEF startup

LEMMA GrantStep ==
  ASSUME BlocksInv, DOMAIN mem' \subseteq Nat, NEW want \in Wants,
         blocks' = Append(blocks, [segment |-> next_seg, size |-> want, granted |-> want]),
         next_seg' = (next_seg + Advance(want)) % Word
  PROVE  BlocksInv'
<1> DEFINE n == Len(blocks)
           b == [segment |-> next_seg, size |-> want, granted |-> want]
<1>1. blocks \in Seq(Block) /\ n \in Nat /\ next_seg \in Nat /\ want \in Nat /\ DOMAIN blocks = 1 .. n
  BY ServicesAssumption DEF BlocksInv
<1>2. /\ blocks' \in Seq(Block) /\ Len(blocks') = n + 1 /\ DOMAIN blocks' = 1 .. n + 1
      /\ blocks'[n + 1] = b /\ \A i \in 1 .. n : blocks'[i] = blocks[i]
  <2>1. b \in Block
    BY <1>1 DEF Block
  <2> HIDE DEF b
  <2>2. blocks' = Append(blocks, b)
    BY DEF b
  <2> QED
    BY <1>1, <2>1, <2>2
<1>3. next_seg' \in Nat /\ next_seg' = (b.segment + b.granted) % Word
  <2>1. next_seg + want \in Int
    BY <1>1
  <2> QED
    BY <2>1, Units, ModRange DEF Advance
<1>4. ASSUME Unwrapped'
      PROVE  Ascending'
  <2>1. Unwrapped
    BY <1>1, <1>2, <1>4 DEF Unwrapped
  <2>2. Ascending
    BY <2>1 DEF BlocksInv
  <2>3. FirstBlock <= next_seg
    BY <1>1, <1>2, <1>4 DEF Unwrapped
  <2>4. ASSUME NEW i \in 1 .. n
        PROVE  blocks[i].segment + blocks[i].granted <= next_seg
    <3>1. n >= 1 /\ n \in 1 .. n
      BY <1>1, <2>4
    <3> DEFINE end == blocks[n].segment + blocks[n].granted
    <3>2. blocks[n] \in Block /\ blocks[i] \in Block
      BY <1>1, <3>1, <2>4
    <3>3. end \in Nat /\ end <= Word /\ next_seg = end % Word
      <4>1. end \in Nat
        BY <3>2 DEF Block
      <4>2. end <= Word
        BY <1>1, <2>1, <3>1 DEF Unwrapped
      <4>3. next_seg = end % Word
        BY <1>1, <3>1 DEF BlocksInv
      <4> QED
        BY <4>1, <4>2, <4>3
    <3> HIDE DEF end
    <3>4. next_seg = end
      <4>1. CASE end = Word
        <5>1. Word % Word = 0
          BY Units
        <5> QED
          BY <2>3, <3>3, <4>1, <5>1, ServicesAssumption
      <4>2. CASE end < Word
        <5>1. end % Word = end
          BY <3>3, <4>2, Units, SmallMod
        <5> QED
          BY <3>3, <5>1
      <4> QED
        BY <3>3, <4>1, <4>2, Units
    <3>5. CASE i = n
      BY <3>3, <3>4, <3>5 DEF end
    <3>6. CASE i < n
      <4>1. blocks[i].segment + blocks[i].granted <= blocks[n].segment
        BY <1>1, <2>2, <3>1, <3>6 DEF Ascending
      <4>2. /\ blocks[i].segment \in Nat /\ blocks[i].granted \in Nat
            /\ blocks[n].segment \in Nat /\ blocks[n].granted \in Nat
        BY <3>2 DEF Block
      <4> QED
        BY <3>4, <4>1, <4>2 DEF end
    <3> QED
      BY <1>1, <3>5, <3>6
  <2>5. ASSUME NEW i \in 1 .. n + 1, NEW j \in 1 .. n + 1, i < j
        PROVE  blocks'[i].segment + blocks'[i].granted <= blocks'[j].segment
    <3>1. i \in 1 .. n /\ blocks'[i] = blocks[i]
      BY <1>1, <1>2, <2>5
    <3>2. CASE j = n + 1
      BY <1>2, <2>4, <3>1, <3>2
    <3>3. CASE j \in 1 .. n
      BY <1>1, <1>2, <2>2, <2>5, <3>1, <3>3 DEF Ascending
    <3> QED
      BY <1>1, <3>2, <3>3
  <2> QED
    BY <1>2, <2>5 DEF Ascending
<1>5. Len(blocks') # 0 /\ blocks'[Len(blocks')] = b
  BY <1>1, <1>2
<1> HIDE DEF b
<1> QED
  BY <1>2, <1>3, <1>4, <1>5 DEF BlocksInv

LEMMA ResizeStep ==
  ASSUME BlocksInv, DOMAIN mem' \subseteq Nat, UNCHANGED next_seg,
         NEW b \in DOMAIN blocks, NEW want \in Wants, blocks' = [blocks EXCEPT ![b].size = want]
  PROVE  BlocksInv'
<1>1. blocks \in Seq(Block) /\ Len(blocks) \in Nat /\ DOMAIN blocks = 1 .. Len(blocks) /\ want \in Nat
  BY ServicesAssumption DEF BlocksInv
<1>2. blocks \in [1 .. Len(blocks) -> Block] /\ b \in 1 .. Len(blocks)
  BY <1>1
<1>3. /\ blocks' \in [1 .. Len(blocks) -> Block]
      /\ \A i \in 1 .. Len(blocks) : blocks'[i].segment = blocks[i].segment /\ blocks'[i].granted = blocks[i].granted
  BY <1>1, <1>2 DEF Block
<1>4. blocks' \in Seq(Block) /\ Len(blocks') = Len(blocks) /\ DOMAIN blocks' = 1 .. Len(blocks)
  BY <1>1, <1>3
<1>5. Unwrapped' => Unwrapped
  BY <1>1, <1>3, <1>4 DEF Unwrapped
<1>6. Ascending => Ascending'
  BY <1>1, <1>3, <1>4 DEF Ascending
<1>7. Len(blocks) # 0 => Len(blocks) \in 1 .. Len(blocks)
  BY <1>1
<1> QED
  BY <1>3, <1>4, <1>5, <1>6, <1>7 DEF BlocksInv

LEMMA BlocksInvStep == BlocksInv /\ LoaderInv /\ [EmittedNext]_emitted => BlocksInv'
<1> SUFFICES ASSUME BlocksInv, LoaderInv, [EmittedNext]_emitted PROVE BlocksInv'
  OBVIOUS
<1>1. DOMAIN mem' \subseteq Nat
  BY MemorySteps DEF BlocksInv
<1>2. CASE UNCHANGED memory
  BY <1>1, <1>2 DEF memory, BlocksInv, Unwrapped, Ascending
<1>3. ASSUME NEW want \in Wants, allocate(want)
      PROVE  BlocksInv'
  BY <1>1, <1>2, <1>3, GrantStep DEF allocate
<1>4. ASSUME NEW b \in DOMAIN blocks, NEW want \in Wants, resize(b, want)
      PROVE  BlocksInv'
  BY <1>1, <1>4, ResizeStep DEF resize
<1>5. CASE load_bytes /\ UNCHANGED <<mem, done, files, memory, machine>>
  BY <1>2, <1>5
<1>6. CASE copy_image \/ relocate_word \/ release \/ Execute
  BY <1>2, <1>6 DEF copy_image, relocate_word, release, Execute
<1>7. ASSUME NEW name \in Names, open(name)
      PROVE  UNCHANGED memory
  BY <1>7 DEF open
<1>8. ASSUME NEW handle \in DOMAIN opened, close(handle)
      PROVE  UNCHANGED memory
  BY <1>8 DEF close, memory
<1>9. CASE UNCHANGED emitted
  BY <1>2, <1>9 DEF emitted
<1> QED
  BY <1>2, <1>3, <1>4, <1>5, <1>6, <1>7, <1>8, <1>9 DEF EmittedNext

(* The blocks the emitted 48h grants lie apart from each other and from    *)
(* the image, for every order and size of requests that does not wrap      *)
(* around.                                                                 *)
THEOREM BlocksApartCorrect == EmittedSpec => []BlocksApart
<1>1. EmittedInit => BlocksInv
  <2> SUFFICES ASSUME EmittedInit PROVE BlocksInv
    OBVIOUS
  <2>1. blocks = <<>> /\ mem = <<>> /\ next_seg = FirstBlock
    BY DEF EmittedInit
  <2>2. blocks \in Seq(Block) /\ Len(blocks) = 0 /\ DOMAIN blocks = {} /\ DOMAIN mem = {}
    BY <2>1
  <2>3. FirstBlock \in Nat
    BY ServicesAssumption, Units
  <2> QED
    BY <2>1, <2>2, <2>3 DEF BlocksInv, Unwrapped, Ascending
<1>2. BlocksInv /\ LoaderInv /\ [EmittedNext]_emitted => BlocksInv'
  BY BlocksInvStep
<1>3. BlocksInv => BlocksApart
  <2> SUFFICES ASSUME BlocksInv, Unwrapped,
                      \A i \in DOMAIN blocks : blocks[i].size <= blocks[i].granted,
                      \A a \in DOMAIN mem : a < FirstBlock * Paragraph,
                      NEW i \in DOMAIN blocks, NEW j \in DOMAIN blocks
               PROVE  /\ i # j => Span(blocks[i]) \cap Span(blocks[j]) = {}
                      /\ \A a \in DOMAIN mem : a \div Paragraph \notin Span(blocks[i])
    BY DEF BlocksApart, Unwrapped
  <2>1. \A k \in DOMAIN blocks :
          /\ blocks[k].segment \in Nat /\ blocks[k].size \in Nat /\ blocks[k].granted \in Nat
          /\ blocks[k].size <= blocks[k].granted /\ FirstBlock <= blocks[k].segment
    <3>1. \A k \in DOMAIN blocks : blocks[k] \in Block
      BY DEF BlocksInv
    <3> QED
      BY <3>1 DEF Block, Unwrapped
  <2>2. Ascending
    BY DEF BlocksInv
  <2>3. \A k, l \in DOMAIN blocks : k < l => Span(blocks[k]) \cap Span(blocks[l]) = {}
    BY <2>1, <2>2 DEF Ascending, Span
  <2>4. i # j => i < j \/ j < i
    <3>1. DOMAIN blocks = 1 .. Len(blocks) /\ Len(blocks) \in Nat
      BY DEF BlocksInv
    <3> QED
      BY <3>1
  <2>5. ASSUME NEW a \in DOMAIN mem
        PROVE  a \div Paragraph \notin Span(blocks[i])
    <3> DEFINE q == a \div Paragraph
    <3>1. a \in Nat /\ a < FirstBlock * Paragraph /\ FirstBlock \in Nat
      BY <2>5, ServicesAssumption, Units DEF BlocksInv
    <3>2. q \in Int /\ a = q * Paragraph + (a % Paragraph) /\ a % Paragraph \in Int /\ a % Paragraph >= 0
      <4>1. a \in Int /\ Paragraph \in Nat \ {0}
        BY <3>1, Units
      <4> QED
        BY <4>1, DivMod, ModRange
    <3> HIDE DEF q
    <3>3. q < FirstBlock
      <4>1. ASSUME q >= FirstBlock PROVE FALSE
        <5>1. q * Paragraph >= FirstBlock * Paragraph
          BY <3>1, <3>2, <4>1, Units
        <5>2. q * Paragraph \in Int /\ FirstBlock * Paragraph \in Int
          BY <3>1, <3>2, Units
        <5> QED
          BY <3>1, <3>2, <5>1, <5>2
      <4> QED
        BY <3>1, <3>2, <4>1
    <3>4. q \notin Span(blocks[i])
      BY <2>1, <3>1, <3>2, <3>3 DEF Span
    <3> QED
      BY <3>4 DEF q
  <2> QED
    BY <2>3, <2>4, <2>5
<1> QED
  BY <1>1, <1>2, <1>3, LoaderInvCorrect, PTL DEF EmittedSpec

----------------------------------------------------------------------------
Values == 0 .. Byte - 1
Shift == PspSegment + file.paragraphs
Filled == file.fill + Byte * file.fill

(* after, the function apply_relocations computes with.                    *)
Relocating(i, segment) ==
  LET after[k \in 0 .. Len(i.relocations)] ==
        IF k = 0 THEN i.bytes
        ELSE Relocate(after[k - 1], Linear(i.relocations[k]), segment)
  IN  after

Place(i) == Base(image) + Linear(image.relocations[i])
Times(i, d) == Cardinality({ j \in 1 .. d : Place(j) = Place(i) })
Alone(i) == \A j \in DOMAIN image.relocations : Place(j) - Place(i) \notin {-1, 1}

Copied == DOMAIN mem = { Base(image) + k : k \in DOMAIN image.bytes }
          /\ mem \in [DOMAIN mem -> Values]
AsLoader(after) ==
  /\ after[done] \in [DOMAIN image.bytes -> Values]
  /\ \A k \in DOMAIN image.bytes : mem[Base(image) + k] = after[done][k]
WordsMoved ==
  \A i \in DOMAIN image.relocations :
    Alone(i) => mem[Place(i)] + Byte * mem[Place(i) + 1] = (Filled + Times(i, done) * Shift) % Word
RestKept ==
  \A a \in DOMAIN mem :
    (\A i \in 1 .. done : a \notin {Place(i), Place(i) + 1}) => mem[a] = file.fill

(* Memory is always what apply_relocations has made of the image after as  *)
(* many entries.                                                           *)
RelocationInv ==
  /\ done \in Int /\ done >= -1 /\ (image = NoImage => done = -1)
  /\ done >= 0 =>
       /\ done <= Len(image.relocations)
       /\ Copied /\ WordsMoved /\ RestKept
       /\ AsLoader(Relocating(image, LoadSegment(image)))

----------------------------------------------------------------------------
(* One relocation moves the word at its place and no other byte.           *)
LEMMA RelocateEffect ==
  ASSUME NEW D, NEW m \in [D -> Values], NEW at \in D, at \in Int, at + 1 \in D, NEW s \in Nat
  PROVE  LET r == Relocate(m, at, s)
         IN  /\ r \in [D -> Values]
             /\ r[at] = ((m[at] + Byte * m[at + 1] + s) % Word) % Byte
             /\ r[at + 1] = ((m[at] + Byte * m[at + 1] + s) % Word) \div Byte
             /\ r[at] + Byte * r[at + 1] = (m[at] + Byte * m[at + 1] + s) % Word
             /\ \A a \in D \ {at, at + 1} : r[a] = m[a]
<1> DEFINE v == (m[at] + Byte * m[at + 1] + s) % Word
<1>1. v \in Nat /\ v < Word
  <2>1. m[at] + Byte * m[at + 1] + s \in Int
    BY JoinBytes, Units DEF Values
  <2> QED
    BY <2>1, Units, ModRange
<1>2. Relocate(m, at, s) = [m EXCEPT ![at] = v % Byte, ![at + 1] = v \div Byte]
  BY DEF Relocate
<1> HIDE DEF v
<1>3. v % Byte \in Values /\ v \div Byte \in Values /\ (v % Byte) + Byte * (v \div Byte) = v
  BY <1>1, SplitWord, Units DEF Word, Values
<1>4. at # at + 1
  OBVIOUS
<1> DEFINE r == Relocate(m, at, s)
<1>5. r \in [D -> Values] /\ r[at] = v % Byte /\ r[at + 1] = v \div Byte
      /\ \A a \in D \ {at, at + 1} : r[a] = m[a]
  BY <1>2, <1>3, <1>4
<1> QED
  BY <1>3, <1>5 DEF v

(* The function apply_relocations computes with exists, so it is what its definition says. *)
LEMMA RelocatingIs ==
  ASSUME NEW i, NEW segment, Len(i.relocations) \in Nat
  PROVE  LET after == Relocating(i, segment)
         IN  /\ after[0] = i.bytes
             /\ \A k \in 1 .. Len(i.relocations) :
                  after[k] = Relocate(after[k - 1], Linear(i.relocations[k]), segment)
             /\ apply_relocations(i, segment) = after[Len(i.relocations)]
<1> DEFINE n == Len(i.relocations)
           Is(f, m) == f = [k \in 0 .. m |-> IF k = 0 THEN i.bytes
                                            ELSE Relocate(f[k - 1], Linear(i.relocations[k]), segment)]
           Bad == { m \in Nat : ~ \E f : Is(f, m) }
<1>1. Bad = {}
  <2> SUFFICES ASSUME Bad # {} PROVE FALSE
    OBVIOUS
  <2>1. Bad \in SUBSET Nat
    OBVIOUS
  <2>2. PICK m \in Bad : \A l \in Bad : m <= l
    <3> HIDE DEF Bad
    <3> QED
      BY <2>1, LeastNat
  <2>3. m \in Nat /\ ~ \E f : Is(f, m)
    OBVIOUS
  <2>4. CASE m = 0
    <3> DEFINE f == [k \in 0 .. 0 |-> i.bytes]
    <3>1. \A k \in 0 .. 0 : k = 0
      OBVIOUS
    <3>2. Is(f, 0)
      BY <3>1
    <3> QED
      BY <2>3, <2>4, <3>2
  <2>5. CASE m # 0
    <3>1. m \in Nat /\ m - 1 \in Nat /\ ~(m <= m - 1)
      BY <2>3, <2>5
    <3>2. m - 1 \notin Bad
      BY <2>2, <3>1
    <3>3. PICK f : Is(f, m - 1)
      BY <3>1, <3>2
    <3> DEFINE g == [k \in 0 .. m |->
                       IF k = 0 THEN i.bytes
                       ELSE IF k = m THEN Relocate(f[m - 1], Linear(i.relocations[m]), segment) ELSE f[k]]
    <3>4. /\ g = [k \in 0 .. m |-> g[k]] /\ g[0] = i.bytes
          /\ g[m] = Relocate(f[m - 1], Linear(i.relocations[m]), segment)
          /\ \A k \in 0 .. m - 1 : g[k] = f[k]
      <4>1. f[0] = i.bytes
        BY <3>1, <3>3
      <4> QED
        BY <2>3, <2>5, <3>1, <4>1
    <3> HIDE DEF g
    <3>5. \A k \in 0 .. m : g[k] = IF k = 0 THEN i.bytes
                                   ELSE Relocate(g[k - 1], Linear(i.relocations[k]), segment)
      <4> SUFFICES ASSUME NEW k \in 0 .. m, k # 0
                   PROVE  g[k] = Relocate(g[k - 1], Linear(i.relocations[k]), segment)
        BY <3>4
      <4>1. k - 1 \in 0 .. m - 1 /\ g[k - 1] = f[k - 1]
        <5>1. k - 1 \in 0 .. m - 1
          BY <3>1
        <5> QED
          BY <3>4, <5>1
      <4>2. CASE k = m
        BY <3>4, <4>1, <4>2
      <4>3. CASE k # m
        <5>1. k \in 0 .. m - 1
          BY <2>3, <4>3
        <5>2. f[k] = Relocate(f[k - 1], Linear(i.relocations[k]), segment)
          BY <3>3, <5>1
        <5> QED
          BY <3>4, <4>1, <5>1, <5>2
      <4> QED
        BY <4>2, <4>3
    <3>6. Is(g, m)
      BY <3>4, <3>5
    <3> QED
      BY <2>3, <3>6
  <2> QED
    BY <2>4, <2>5
<1>2. \E f : Is(f, n)
  BY <1>1
<1>3. Relocating(i, segment) = CHOOSE f : Is(f, n)
  BY DEF Relocating
<1>4. apply_relocations(i, segment) = Relocating(i, segment)[n]
  BY DEF apply_relocations, Relocating
<1>5. Is(Relocating(i, segment), n)
  <2> HIDE DEF Is
  <2> QED
    BY <1>2, <1>3
<1>6. 0 \in 0 .. n /\ \A k \in 1 .. n : k \in 0 .. n /\ k # 0
  OBVIOUS
<1> DEFINE after == Relocating(i, segment)
<1> HIDE DEF after
<1>7. after = [k \in 0 .. n |-> IF k = 0 THEN i.bytes
                                ELSE Relocate(after[k - 1], Linear(i.relocations[k]), segment)]
  BY <1>5 DEF after
<1>8. after[0] = i.bytes /\ \A k \in 1 .. n : after[k] = Relocate(after[k - 1], Linear(i.relocations[k]), segment)
  BY <1>6, <1>7
<1> QED
  BY <1>4, <1>8 DEF after

(* What the accepted image promises to main().                             *)
LEMMA Layout ==
  ASSUME LoaderInv, image # NoImage
  PROVE  /\ Len(image.relocations) \in Nat
         /\ DOMAIN image.relocations = 1 .. Len(image.relocations)
         /\ \A k \in DOMAIN image.bytes : image.bytes[k] = file.fill
         /\ image.bytes \in [DOMAIN image.bytes -> Values]
         /\ file.fill \in Values /\ Shift \in Nat
         /\ image.mz \in BOOLEAN /\ (image.mz => LoadSegment(image) = Shift % Word)
         /\ ~image.mz => Len(image.relocations) = 0
         /\ \A i \in DOMAIN image.relocations :
              /\ Linear(image.relocations[i]) \in DOMAIN image.bytes
              /\ Linear(image.relocations[i]) + 1 \in DOMAIN image.bytes
<1>1. file \in InputFiles /\ image = Image(file) /\ ~load_bytes_fails(file)
  BY DEF LoaderInv
<1>2. file.fill \in Values /\ file.paragraphs \in Nat /\ Shift \in Nat /\ file.mz \in BOOLEAN /\ file.size \in Nat
  BY <1>1, FilesAssumption, ServicesAssumption DEF Values, Shift
<1>3. CASE file.mz
  <2>1. ModuleSize(file) \in Nat /\ file.count \in Nat
    BY <1>1, <1>3, Accepted, FilesAssumption
  <2>2. /\ image.mz = TRUE /\ image.paragraphs = file.paragraphs
        /\ image.bytes = [i \in 0 .. ModuleSize(file) - 1 |-> file.fill]
        /\ Len(image.relocations) = file.count /\ DOMAIN image.relocations = 1 .. file.count
        /\ \A i \in 1 .. file.count : image.relocations[i] = file.entries[i]
    BY <1>1, <1>3, ImageShape
  <2>3. ASSUME NEW i \in DOMAIN image.relocations
        PROVE  /\ Linear(image.relocations[i]) \in DOMAIN image.bytes
               /\ Linear(image.relocations[i]) + 1 \in DOMAIN image.bytes
    <3>1. i \in 1 .. file.count /\ Linear(image.relocations[i]) \in Nat /\ Linear(image.relocations[i]) + 1 < ModuleSize(file)
      BY <1>1, <1>3, <2>2, Accepted
    <3> QED
      BY <2>1, <2>2, <3>1
  <2>4. LoadSegment(image) = Shift % Word
    BY <2>2 DEF LoadSegment, Shift
  <2> QED
    BY <1>2, <2>1, <2>2, <2>3, <2>4
<1>4. CASE ~file.mz
  <2>1. /\ image.mz = FALSE /\ image.paragraphs = 0 /\ image.relocations = <<>>
        /\ image.bytes = [i \in 0 .. file.size - 1 |-> file.fill]
    BY <1>1, <1>4 DEF Image
  <2>2. Len(image.relocations) = 0 /\ DOMAIN image.relocations = {}
    BY <2>1
  <2>3. DOMAIN image.bytes = 0 .. file.size - 1
    BY <2>1
  <2> QED
    <3>1. \A k \in DOMAIN image.bytes : image.bytes[k] = file.fill
      BY <2>1, <2>3
    <3>2. image.bytes \in [DOMAIN image.bytes -> Values]
      BY <1>2, <2>1, <2>3
    <3>3. Len(image.relocations) \in Nat /\ DOMAIN image.relocations = 1 .. Len(image.relocations)
      BY <2>2
    <3> QED
      BY <1>2, <2>1, <2>2, <3>1, <3>2, <3>3
<1> QED
  BY <1>2, <1>3, <1>4

LEMMA CopyStep ==
  ASSUME LoaderInv, RelocationInv, copy_image
  PROVE  RelocationInv'
<1>1. /\ image # NoImage /\ done' = 0 /\ UNCHANGED <<file, image>>
      /\ mem' = [a \in { Base(image) + k : k \in DOMAIN image.bytes } |-> image.bytes[a - Base(image)]]
  BY DEF copy_image
<1> DEFINE after == Relocating(image, LoadSegment(image))
<1>2. /\ Len(image.relocations) \in Nat
      /\ DOMAIN image.relocations = 1 .. Len(image.relocations)
      /\ \A k \in DOMAIN image.bytes : image.bytes[k] = file.fill
      /\ image.bytes \in [DOMAIN image.bytes -> Values]
      /\ file.fill \in Values /\ Shift \in Nat
      /\ \A i \in DOMAIN image.relocations :
           /\ Linear(image.relocations[i]) \in DOMAIN image.bytes
           /\ Linear(image.relocations[i]) + 1 \in DOMAIN image.bytes
  BY <1>1, Layout
<1>3. Base(image) \in Nat /\ DOMAIN image.bytes \subseteq Nat
  BY <1>1, Placement
<1>4. after[0] = image.bytes
  BY <1>2, RelocatingIs
<1> HIDE DEF after
<1>5. /\ DOMAIN mem' = { Base(image) + k : k \in DOMAIN image.bytes }
      /\ \A k \in DOMAIN image.bytes : Base(image) + k \in DOMAIN mem' /\ mem'[Base(image) + k] = image.bytes[k]
  <2>1. \A k \in DOMAIN image.bytes : (Base(image) + k) - Base(image) = k
    BY <1>3
  <2> QED
    BY <1>1, <2>1
<1>6. \A a \in DOMAIN mem' : mem'[a] = file.fill
  BY <1>2, <1>5
<1>7. mem' \in [DOMAIN mem' -> Values]
  BY <1>1, <1>2, <1>5, <1>6
<1>8. /\ Base(image)' = Base(image) /\ Shift' = Shift /\ Filled' = Filled
      /\ Relocating(image, LoadSegment(image))' = after
      /\ \A i : Place(i)' = Place(i)
  BY <1>1 DEF Base, LoadSegment, Shift, Filled, Relocating, Place, after
<1>9. WordsMoved'
  <2> SUFFICES ASSUME NEW i \in DOMAIN image.relocations
               PROVE  mem'[Place(i)] + Byte * mem'[Place(i) + 1] = (Filled + Times(i, done)' * Shift) % Word
    BY <1>1, <1>8 DEF WordsMoved
  <2>1. Place(i) \in DOMAIN mem' /\ Place(i) + 1 \in DOMAIN mem'
    <3>1. Base(image) + Linear(image.relocations[i]) \in DOMAIN mem' /\ Base(image) + (Linear(image.relocations[i]) + 1) \in DOMAIN mem'
      BY <1>2, <1>5
    <3>2. Linear(image.relocations[i]) \in Nat
      BY <1>2, <1>3
    <3>3. Base(image) + (Linear(image.relocations[i]) + 1) = Place(i) + 1
      BY <1>3, <3>2 DEF Place
    <3> QED
      BY <3>1, <3>3 DEF Place
  <2>2. mem'[Place(i)] + Byte * mem'[Place(i) + 1] = Filled
    BY <1>6, <2>1 DEF Filled
  <2>3. Times(i, done)' = 0
    <3>1. { j \in 1 .. done' : Place(j)' = Place(i)' } = {}
      BY <1>1
    <3> QED
      BY <3>1, FS_EmptySet DEF Times
  <2>4. Filled \in Nat /\ Filled % Word = Filled
    BY <1>2, JoinBytes, SmallMod, Units DEF Filled, Values, Word
  <2>5. Filled + 0 * Shift = Filled
    BY <1>2, <2>4
  <2> QED
    BY <2>2, <2>3, <2>4, <2>5
<1>10. Copied' /\ RestKept'
  BY <1>1, <1>5, <1>6, <1>7, <1>8 DEF Copied, RestKept
<1>11. AsLoader(Relocating(image, LoadSegment(image)))'
  <2>1. after[done'] = image.bytes
    BY <1>1, <1>4
  <2>2. after[done'] \in [DOMAIN image.bytes -> Values]
    BY <1>2, <2>1
  <2>3. \A k \in DOMAIN image.bytes : mem'[Base(image) + k] = after[done'][k]
    BY <1>5, <2>1
  <2> QED
    BY <1>1, <1>8, <2>2, <2>3 DEF AsLoader
<1> QED
  BY <1>1, <1>2, <1>9, <1>10, <1>11 DEF RelocationInv

LEMMA RelocateStep ==
  ASSUME LoaderInv, RelocationInv, relocate_word
  PROVE  RelocationInv'
<1> DEFINE after == Relocating(image, LoadSegment(image))
           lin == Linear(image.relocations[done + 1])
           at == Place(done + 1)
           seg == LoadSegment(image)
           B == Base(image)
<1>1. /\ done \in Int /\ done >= 0 /\ done < Len(image.relocations) /\ done' = done + 1
      /\ UNCHANGED <<file, image>> /\ mem' = Relocate(mem, lin + B, seg)
  BY DEF relocate_word, RelocationInv, Added
<1>2. image # NoImage /\ Copied /\ WordsMoved /\ RestKept /\ AsLoader(after)
  BY <1>1 DEF RelocationInv
<1>3. /\ Len(image.relocations) \in Nat
      /\ DOMAIN image.relocations = 1 .. Len(image.relocations)
      /\ Shift \in Nat /\ file.fill \in Values
      /\ seg = Shift % Word
      /\ \A i \in DOMAIN image.relocations :
           /\ Linear(image.relocations[i]) \in DOMAIN image.bytes
           /\ Linear(image.relocations[i]) + 1 \in DOMAIN image.bytes
  BY <1>1, <1>2, Layout
<1>4. B \in Nat /\ DOMAIN image.bytes \subseteq Nat /\ seg \in Nat
  BY <1>2, Placement
<1>5. done + 1 \in DOMAIN image.relocations /\ done + 1 \in 1 .. Len(image.relocations)
  BY <1>1, <1>3
<1>6. /\ after[done + 1] = Relocate(after[done], lin, seg)
  <2>1. (done + 1) - 1 = done
    BY <1>1
  <2> QED
    BY <1>3, <1>5, <2>1, RelocatingIs
<1>7. /\ Base(image)' = B /\ Shift' = Shift /\ Filled' = Filled
      /\ Relocating(image, LoadSegment(image))' = after
      /\ \A i : Place(i)' = Place(i)
      /\ \A i : Alone(i)' <=> Alone(i)
  BY <1>1 DEF Base, LoadSegment, Shift, Filled, Relocating, Place, Alone
<1> HIDE DEF after, seg
<1>8. ASSUME NEW i \in DOMAIN image.relocations
      PROVE  Place(i) \in DOMAIN mem /\ Place(i) + 1 \in DOMAIN mem /\ Place(i) \in Nat
             /\ Place(i) = B + Linear(image.relocations[i])
  <2>1. B + Linear(image.relocations[i]) \in DOMAIN mem /\ B + (Linear(image.relocations[i]) + 1) \in DOMAIN mem
    BY <1>2, <1>3 DEF Copied
  <2>2. Linear(image.relocations[i]) \in Nat
    BY <1>3, <1>4
  <2>3. B + (Linear(image.relocations[i]) + 1) = Place(i) + 1 /\ Place(i) \in Nat
    BY <1>4, <2>2 DEF Place
  <2> QED
    BY <2>1, <2>3 DEF Place
<1>9. lin \in DOMAIN image.bytes /\ lin + 1 \in DOMAIN image.bytes /\ lin \in Nat /\ lin + B = at
      /\ at \in DOMAIN mem /\ at + 1 \in DOMAIN mem /\ at \in Nat /\ at = B + lin
  BY <1>3, <1>4, <1>5, <1>8
<1> HIDE DEF lin, at, B
<1>10. /\ mem' \in [DOMAIN mem -> Values]
       /\ mem'[at] = ((mem[at] + Byte * mem[at + 1] + seg) % Word) % Byte
       /\ mem'[at + 1] = ((mem[at] + Byte * mem[at + 1] + seg) % Word) \div Byte
       /\ mem'[at] + Byte * mem'[at + 1] = (mem[at] + Byte * mem[at + 1] + seg) % Word
       /\ \A a \in DOMAIN mem \ {at, at + 1} : mem'[a] = mem[a]
  <2>1. mem \in [DOMAIN mem -> Values] /\ seg \in Nat
    BY <1>2, <1>4 DEF Copied, seg
  <2>2. mem' = Relocate(mem, at, seg)
    BY <1>1, <1>9 DEF B, lin, seg
  <2> QED
    BY <1>9, <2>1, <2>2, RelocateEffect
<1>11. DOMAIN mem' = DOMAIN mem
  BY <1>10
<1>12. Copied'
  BY <1>1, <1>2, <1>7, <1>10, <1>11 DEF Copied, B
<1>13. RestKept'
  <2> SUFFICES ASSUME NEW a \in DOMAIN mem,
                      \A i \in 1 .. done + 1 : a \notin {Place(i), Place(i) + 1}
               PROVE  mem'[a] = file.fill
    BY <1>1, <1>7, <1>11 DEF RestKept
  <2>1. \A i \in 1 .. done : i \in 1 .. done + 1
    BY <1>1
  <2>2. done + 1 \in 1 .. done + 1
    BY <1>1
  <2>3. a \notin {at, at + 1}
    BY <2>2 DEF at
  <2>4. mem[a] = file.fill
    BY <1>2, <2>1 DEF RestKept
  <2> QED
    BY <1>10, <2>3, <2>4
<1>14. WordsMoved'
  <2> SUFFICES ASSUME NEW i \in DOMAIN image.relocations, Alone(i)
               PROVE  mem'[Place(i)] + Byte * mem'[Place(i) + 1] = (Filled + Times(i, done)' * Shift) % Word
    BY <1>1, <1>7 DEF WordsMoved
  <2> DEFINE p == Place(i)
             J == { j \in 1 .. done : Place(j) = p }
             t == Cardinality(J)
  <2>1. p \in DOMAIN mem /\ p + 1 \in DOMAIN mem /\ p \in Nat
    BY <1>8
  <2>2. IsFiniteSet(J) /\ t \in Nat
    <3>1. IsFiniteSet(1 .. done)
      BY <1>1, FS_Interval
    <3> QED
      BY <3>1, FS_Subset, FS_CardinalityType
  <2>3. mem[p] + Byte * mem[p + 1] = (Filled + t * Shift) % Word
    BY <1>2 DEF WordsMoved, Times
  <2>4. at - p \notin {-1, 1}
    BY <1>5 DEF Alone, at
  <2>5. Times(i, done)' = Cardinality({ j \in 1 .. done + 1 : Place(j) = p })
    BY <1>1, <1>7 DEF Times
  <2>6. CASE at = p
    <3>1. { j \in 1 .. done + 1 : Place(j) = p } = J \cup {done + 1} /\ done + 1 \notin J
      BY <1>1, <2>6 DEF at
    <3>2. Times(i, done)' = t + 1
      BY <2>2, <2>5, <3>1, FS_AddElement
    <3>3. Filled + t * Shift \in Nat
      <4>1. Filled \in Nat /\ t * Shift \in Nat
        BY <1>3, <2>2, JoinBytes, Units DEF Filled, Values
      <4> QED
        BY <4>1
    <3>4. mem'[p] + Byte * mem'[p + 1] = (((Filled + t * Shift) % Word) + (Shift % Word)) % Word
      BY <1>3, <1>10, <2>3, <2>6
    <3> HIDE DEF t
    <3>5. (((Filled + t * Shift) % Word) + (Shift % Word)) % Word = (Filled + t * Shift + Shift) % Word
      <4>1. Shift \in Int /\ Filled + t * Shift \in Int
        BY <1>3, <3>3
      <4> HIDE DEF Filled
      <4> QED
        BY <4>1, AddMod, Units
    <3>6. Filled + t * Shift + Shift = Filled + (t + 1) * Shift
      <4>1. Filled \in Nat /\ t \in Nat
        BY <1>3, <2>2, JoinBytes, Units DEF Filled, t, Values
      <4> QED
        BY <1>3, <4>1
    <3> QED
      BY <3>2, <3>4, <3>5, <3>6
  <2>7. CASE at # p
    <3>1. {p, p + 1} \cap {at, at + 1} = {}
      BY <1>9, <2>1, <2>4, <2>7
    <3>2. mem'[p] = mem[p] /\ mem'[p + 1] = mem[p + 1]
      BY <1>10, <2>1, <3>1
    <3>3. { j \in 1 .. done + 1 : Place(j) = p } = J
      BY <1>1, <2>7 DEF at
    <3> QED
      BY <2>3, <2>5, <3>2, <3>3
  <2> QED
    BY <2>6, <2>7
<1>15. AsLoader(Relocating(image, LoadSegment(image)))'
  <2> DEFINE old == after[done]   new == after[done + 1]
  <2>1. old \in [DOMAIN image.bytes -> Values] /\ \A k \in DOMAIN image.bytes : mem[B + k] = old[k]
    BY <1>2 DEF AsLoader, B
  <2> HIDE DEF old
  <2>2. new = Relocate(old, lin, seg)
    BY <1>6 DEF old
  <2> HIDE DEF new
  <2>3. /\ new \in [DOMAIN image.bytes -> Values]
        /\ new[lin] = ((old[lin] + Byte * old[lin + 1] + seg) % Word) % Byte
        /\ new[lin + 1] = ((old[lin] + Byte * old[lin + 1] + seg) % Word) \div Byte
        /\ \A a \in DOMAIN image.bytes \ {lin, lin + 1} : new[a] = old[a]
    BY <1>4, <1>9, <2>1, <2>2, RelocateEffect
  <2>4. mem[at] = old[lin] /\ mem[at + 1] = old[lin + 1]
    <3>1. at + 1 = B + (lin + 1)
      BY <1>4, <1>9 DEF B
    <3> QED
      BY <1>9, <2>1, <3>1
  <2>5. ASSUME NEW k \in DOMAIN image.bytes
        PROVE  mem'[B + k] = new[k]
    <3>1. k \in Nat /\ B \in Nat
      BY <1>4 DEF B
    <3>2. B + k \in DOMAIN mem
      BY <1>2 DEF Copied, B
    <3>3. CASE k = lin
      BY <1>9, <1>10, <2>3, <2>4, <3>3
    <3>4. CASE k = lin + 1
      <4>1. B + k = at + 1
        BY <1>9, <3>1, <3>4
      <4> QED
        BY <1>10, <2>3, <2>4, <3>4, <4>1
    <3>5. CASE k \notin {lin, lin + 1}
      <4>1. B + k \notin {at, at + 1}
        BY <1>9, <3>1, <3>5
      <4> QED
        BY <1>10, <2>1, <2>3, <3>2, <3>5, <4>1
    <3> QED
      BY <3>3, <3>4, <3>5
  <2>6. after[done'] = new
    BY <1>1 DEF new
  <2> QED
    BY <1>1, <1>7, <2>3, <2>5, <2>6 DEF AsLoader
<1> QED
  BY <1>1, <1>2, <1>3, <1>12, <1>13, <1>14, <1>15 DEF RelocationInv

LEMMA RelocationInvStep == LoaderInv /\ RelocationInv /\ [EmittedNext]_emitted => RelocationInv'
<1> SUFFICES ASSUME LoaderInv, RelocationInv, [EmittedNext]_emitted PROVE RelocationInv'
  OBVIOUS
<1>1. CASE load_bytes /\ UNCHANGED <<mem, done>>
  BY <1>1 DEF load_bytes, RelocationInv
<1>2. CASE UNCHANGED startup
  <2> DEFINE after == Relocating(image, LoadSegment(image))
  <2>1. file' = file /\ image' = image /\ mem' = mem /\ done' = done
    BY <1>2 DEF startup
  <2>2. /\ Base(image)' = Base(image) /\ Shift' = Shift /\ Filled' = Filled
        /\ after' = after
        /\ \A i : Place(i)' = Place(i)
        /\ \A i : Alone(i)' <=> Alone(i)
    BY <2>1 DEF Base, LoadSegment, Shift, Filled, Relocating, Place, Alone
  <2> HIDE DEF after
  <2>3. ASSUME done >= 0
        PROVE  Copied' /\ WordsMoved' /\ RestKept' /\ AsLoader(after)'
    <3>1. Copied /\ WordsMoved /\ RestKept /\ AsLoader(after)
      BY <2>3 DEF RelocationInv, after
    <3>2. \A i : Times(i, done)' = Times(i, done)
      BY <2>1, <2>2 DEF Times
    <3>3. Copied' /\ RestKept' /\ AsLoader(after)'
      BY <2>1, <2>2, <3>1 DEF Copied, RestKept, AsLoader
    <3>4. WordsMoved'
      BY <2>1, <2>2, <3>1, <3>2 DEF WordsMoved
    <3> QED
      BY <3>3, <3>4
  <2> QED
    BY <2>1, <2>3 DEF RelocationInv, after
<1> QED
  BY <1>1, <1>2, StartupSteps, CopyStep, RelocateStep

(* The emitted main() makes of every accepted image, of any size and with  *)
(* any table, what apply_relocations makes of it.                          *)
THEOREM MainRelocatesCorrect == EmittedSpec => []MainRelocates
<1>1. EmittedInit => RelocationInv
  BY DEF EmittedInit, RelocationInv
<1>2. LoaderInv /\ RelocationInv => MainRelocates
  <2> SUFFICES ASSUME LoaderInv, RelocationInv, Running PROVE MainRelocates
    BY DEF MainRelocates
  <2>1. image # NoImage /\ done = Len(image.relocations)
    BY DEF Running
  <2>2. /\ Len(image.relocations) \in Nat
        /\ DOMAIN image.relocations = 1 .. done
    BY <2>1, Layout
  <2>3. Copied /\ WordsMoved /\ RestKept /\ AsLoader(Relocating(image, LoadSegment(image)))
    BY <2>1, <2>2 DEF RelocationInv
  <2>4. apply_relocations(image, LoadSegment(image)) = Relocating(image, LoadSegment(image))[done]
    BY <2>1, <2>2, RelocatingIs
  <2>5. \A k \in DOMAIN image.bytes : mem[Base(image) + k] = apply_relocations(image, LoadSegment(image))[k]
    BY <2>3, <2>4 DEF AsLoader
  <2>6. \A i \in DOMAIN image.relocations :
          (\A j \in DOMAIN image.relocations : Place(j) - Place(i) \notin {-1, 1}) =>
            mem[Place(i)] + Byte * mem[Place(i) + 1] =
              (file.fill + Byte * file.fill
               + Cardinality({ j \in DOMAIN image.relocations : Place(j) = Place(i) }) * (PspSegment + file.paragraphs)) % Word
    BY <2>2, <2>3 DEF WordsMoved, Alone, Times, Filled, Shift
  <2>7. \A a \in DOMAIN mem :
          (\A i \in DOMAIN image.relocations : a \notin {Place(i), Place(i) + 1}) => mem[a] = file.fill
    BY <2>2, <2>3 DEF RestKept
  <2>8. DOMAIN mem = { Base(image) + k : k \in DOMAIN image.bytes }
    BY <2>3 DEF Copied
  <2> QED
    BY <2>5, <2>6, <2>7, <2>8 DEF MainRelocates, Place
<1> QED
  BY <1>1, <1>2, LoaderInvCorrect, RelocationInvStep, PTL DEF EmittedSpec

----------------------------------------------------------------------------
ByteValues == 2 * ByteHalf
WordValues == 2 * Half
Memories == [0 .. WordValues -> Bytes]
StringState == [ram : Memories, ax : Words, cx : Words, si : Words, di : Words, flags : RuntimeFlags]

(* A word is two bytes.                                                    *)
LEMMA StringWidths ==
  /\ ByteValues \in Nat \ {0} /\ WordValues \in Nat \ {0} /\ ByteValues * ByteValues = WordValues
  /\ Words = 0 .. WordValues - 1 /\ Bytes = 0 .. ByteValues - 1
BY Widths, StringsAssumption DEF ByteValues, WordValues, Words, Bytes

LEMMA WordSplits ==
  ASSUME NEW v \in Words
  PROVE  /\ v \in Nat /\ v % ByteValues \in Bytes /\ v \div ByteValues \in Bytes
         /\ (v % ByteValues) + ByteValues * (v \div ByteValues) = v
<1>1. v \in Nat /\ v < ByteValues * ByteValues
  BY StringWidths
<1>2. ByteValues \in Nat \ {0} /\ Bytes = 0 .. ByteValues - 1
  BY StringWidths
<1> QED
  BY <1>1, <1>2, SplitWord

LEMMA LowByteOf ==
  ASSUME NEW x \in Words, NEW b \in Bytes
  PROVE  LowByte(x, b) \in Words /\ LowByte(x, b) % ByteValues = b
         /\ \A c \in Bytes : LowByte(LowByte(x, b), c) = LowByte(x, c)
<1> DEFINE q == x \div ByteValues   r == x % ByteValues
<1>1. q \in 0 .. ByteValues - 1 /\ r \in 0 .. ByteValues - 1 /\ r + ByteValues * q = x
  BY StringWidths, WordSplits
<1>2. LowByte(x, b) = (x - r) + b
  BY DEF LowByte, ByteValues
<1> HIDE DEF q, r
<1>3. ByteValues * q \in Int /\ ByteValues * q = q * ByteValues
  BY <1>1, StringWidths
<1>4. LowByte(x, b) = b + ByteValues * q
  BY <1>1, <1>2, <1>3, StringWidths
<1>5. LowByte(x, b) \in Words
  BY <1>1, <1>4, StringWidths, JoinBytes
<1>6. (q * ByteValues + b) % ByteValues = b
  <2>1. b \in Int /\ 0 <= b /\ b < ByteValues /\ q \in Int /\ ByteValues \in Nat \ {0}
    BY <1>1, StringWidths
  <2> QED
    BY <2>1, ModIs
<1>7. LowByte(x, b) % ByteValues = b
  BY <1>3, <1>4, <1>6, StringWidths
<1>8. ASSUME NEW c \in Bytes
      PROVE  LowByte(LowByte(x, b), c) = LowByte(x, c)
  <2>1. LowByte(LowByte(x, b), c) = (LowByte(x, b) - b) + c
    BY <1>7 DEF LowByte, ByteValues
  <2>2. LowByte(x, c) = (x - r) + c
    BY DEF LowByte, ByteValues, r
  <2> QED
    BY <1>1, <1>3, <1>4, <2>1, <2>2, StringWidths
<1> QED
  BY <1>5, <1>7, <1>8

LEMMA LoadsTyped ==
  ASSUME NEW ram \in Memories, NEW offset \in Words, NEW word \in BOOLEAN
  PROVE  /\ Loads(ram, offset, word) \in Words
         /\ ~word => Loads(ram, offset, word) \in Bytes
         /\ (~word \/ offset # WordValues - 1) => Fetch(ram, offset, word) = Loads(ram, offset, word)
<1>1. offset \in 0 .. WordValues /\ offset + 1 \in 0 .. WordValues /\ offset \in Nat
  BY StringWidths
<1>2. ram[offset] \in Bytes /\ ram[offset + 1] \in Bytes
  BY <1>1 DEF Memories
<1>3. ram[offset] + ByteValues * ram[offset + 1] \in Words
  BY <1>2, StringWidths, JoinBytes
<1>4. ram[offset] + 0 = ram[offset]
  BY <1>2, StringWidths
<1>5. CASE word
  <2>1. Loads(ram, offset, word) = ram[offset] + ByteValues * ram[offset + 1]
    BY <1>5 DEF Loads, ByteValues
  <2>2. ASSUME offset # WordValues - 1
        PROVE  Fetch(ram, offset, word) = Loads(ram, offset, word)
    <3>1. (offset + 1) % WordValues = offset + 1
      <4>1. offset + 1 \in Nat /\ offset + 1 < WordValues
        BY <2>2, StringWidths
      <4> QED
        BY <4>1, StringWidths, SmallMod
    <3>2. Upper(offset) = offset + 1
      BY <3>1 DEF Upper, WordValues
    <3> QED
      BY <1>5, <3>2 DEF Fetch, Loads
  <2> QED
    BY <1>3, <1>5, <2>1, <2>2
<1>6. CASE ~word
  <2>1. Loads(ram, offset, word) = ram[offset] + 0 /\ Fetch(ram, offset, word) = ram[offset] + 0
    BY <1>6 DEF Loads, Fetch
  <2>2. ram[offset] \in Words
    BY <1>2, Widths
  <2> QED
    BY <1>2, <1>4, <1>6, <2>1, <2>2
<1> QED
  BY <1>5, <1>6

LEMMA StoresTyped ==
  ASSUME NEW ram \in Memories, NEW offset \in Words, NEW value \in Words, NEW word \in BOOLEAN
  PROVE  /\ Stores(ram, offset, value, word) \in Memories
         /\ (~word \/ offset # WordValues - 1) => Put(ram, offset, value, word) = Stores(ram, offset, value, word)
<1>1. offset \in 0 .. WordValues /\ offset + 1 \in 0 .. WordValues /\ offset \in Nat /\ offset # offset + 1
  BY StringWidths
<1> DEFINE low == value % ByteValues   high == value \div ByteValues
<1>2. low \in Bytes /\ high \in Bytes
  BY WordSplits
<1>3. Stores(ram, offset, value, word) =
        IF word THEN [ram EXCEPT ![offset] = low, ![offset + 1] = high] ELSE [ram EXCEPT ![offset] = low]
  BY DEF Stores, ByteValues
<1>4. Put(ram, offset, value, word) =
        [a \in DOMAIN ram |-> IF a = offset THEN low ELSE IF word /\ a = Upper(offset) THEN high ELSE ram[a]]
  BY DEF Put, ByteValues
<1> HIDE DEF low, high
<1>5. Stores(ram, offset, value, word) \in Memories
  BY <1>1, <1>2, <1>3 DEF Memories
<1>6. ASSUME ~word \/ offset # WordValues - 1
      PROVE  Put(ram, offset, value, word) = Stores(ram, offset, value, word)
  <2>1. word => Upper(offset) = offset + 1
    <3>1. word => offset + 1 \in Nat /\ offset + 1 < WordValues
      BY <1>6, StringWidths
    <3>2. word => (offset + 1) % WordValues = offset + 1
      BY <3>1, StringWidths, SmallMod
    <3> QED
      BY <3>2 DEF Upper, WordValues
  <2>2. DOMAIN ram = 0 .. WordValues
    BY DEF Memories
  <2>3. CASE word
    BY <1>1, <1>3, <1>4, <2>1, <2>2, <2>3 DEF Memories
  <2>4. CASE ~word
    BY <1>1, <1>3, <1>4, <2>2, <2>4 DEF Memories
  <2> QED
    BY <2>3, <2>4
<1> QED
  BY <1>5, <1>6

LEMMA SteppedTyped ==
  ASSUME NEW index \in Words, NEW flag_word, NEW word \in BOOLEAN
  PROVE  Stepped(index, flag_word, word) \in Words
<1>1. index + df_step(flag_word, Width(word)) \in Int
  BY StringWidths DEF df_step, Width
<1> QED
  <2> DEFINE i == index + df_step(flag_word, Width(word))
  <2>1. Stepped(index, flag_word, word) = i % WordValues
    BY DEF Stepped, WordValues
  <2> HIDE DEF i
  <2>2. i % WordValues \in Int /\ 0 <= i % WordValues /\ i % WordValues < WordValues
    BY <1>1, StringWidths, ModRange DEF i
  <2> QED
    BY <2>1, <2>2, StringWidths

Compared(op, word, s) ==
  IF op = "cmps" THEN Loads(s.ram, s.si, word) ELSE IF word THEN s.ax ELSE s.ax % (2 * ByteHalf)
FlagsAfter(op, word, s) ==
  IF op \in {"cmps", "scas"}
  THEN update_flags_cmp(Compared(op, word, s), Loads(s.ram, s.di, word), ~word) ELSE s.flags

(* t is r after one round, field by field.                                 *)
OneRound(op, word, r, t) ==
  /\ t \in StringState /\ t.cx = r.cx /\ t.flags = FlagsAfter(op, word, r)
  /\ t.ram = IF op = "movs" THEN Stores(r.ram, r.di, Loads(r.ram, r.si, word), word)
             ELSE IF op = "stos" THEN Stores(r.ram, r.di, r.ax, word) ELSE r.ram
  /\ t.ax = IF op # "lods" THEN r.ax
            ELSE IF word THEN Loads(r.ram, r.si, TRUE) ELSE LowByte(r.ax, Loads(r.ram, r.si, FALSE))
  /\ t.si = IF op \in {"movs", "lods", "cmps"} THEN Stepped(r.si, FlagsAfter(op, word, r), word) ELSE r.si
  /\ t.di = IF op \in {"movs", "stos", "cmps", "scas"} THEN Stepped(r.di, FlagsAfter(op, word, r), word)
            ELSE r.di

LEMMA BodyIs ==
  ASSUME NEW op \in Operations, NEW word \in BOOLEAN, NEW s \in StringState
  PROVE  OneRound(op, word, s, Body(op, word, s))
<1> DEFINE r == Body(op, word, s)
           after == FlagsAfter(op, word, s)
           ram == CASE op = "movs" -> Stores(s.ram, s.di, Loads(s.ram, s.si, word), word)
                    [] op = "stos" -> Stores(s.ram, s.di, s.ax, word)
                    [] OTHER -> s.ram
           ax == IF op # "lods" THEN s.ax
                 ELSE IF word THEN Loads(s.ram, s.si, TRUE) ELSE LowByte(s.ax, Loads(s.ram, s.si, FALSE))
           si == IF op \in {"movs", "lods", "cmps"} THEN Stepped(s.si, after, word) ELSE s.si
           di == IF op \in {"movs", "stos", "cmps", "scas"} THEN Stepped(s.di, after, word) ELSE s.di
<1>1. s.ram \in Memories /\ s.ax \in Words /\ s.cx \in Words /\ s.si \in Words /\ s.di \in Words /\ s.flags \in RuntimeFlags
      /\ s = [ram |-> s.ram, ax |-> s.ax, cx |-> s.cx, si |-> s.si, di |-> s.di, flags |-> s.flags]
  BY DEF StringState
<1>2. r = [s EXCEPT !.ram = ram, !.ax = ax, !.flags = after, !.si = si, !.di = di]
  BY Zenon DEF Body, FlagsAfter, Compared
<1>3. ram = IF op = "movs" THEN Stores(s.ram, s.di, Loads(s.ram, s.si, word), word)
            ELSE IF op = "stos" THEN Stores(s.ram, s.di, s.ax, word) ELSE s.ram
  OBVIOUS
<1>4. after \in RuntimeFlags
  <2>1. Compared(op, word, s) \in Words
    BY <1>1, LoadsTyped, WordSplits, Widths DEF Compared, ByteValues
  <2>2. Loads(s.ram, s.di, word) \in Words
    BY <1>1, LoadsTyped
  <2> QED
    BY <1>1, <2>1, <2>2, FlagsAreBits DEF FlagsAfter
<1>5. ram \in Memories
  BY <1>1, <1>3, StoresTyped, LoadsTyped
<1>6. ax \in Words
  BY <1>1, LoadsTyped, LowByteOf
<1>7. si \in Words /\ di \in Words
  BY <1>1, SteppedTyped
<1> HIDE DEF r, after, ram, ax, si, di
<1>8. r = [ram |-> ram, ax |-> ax, cx |-> s.cx, si |-> si, di |-> di, flags |-> after]
  BY <1>1, <1>2
<1>9. r \in StringState
  BY <1>1, <1>4, <1>5, <1>6, <1>7, <1>8 DEF StringState
<1>10. r.ram = ram /\ r.ax = ax /\ r.cx = s.cx /\ r.si = si /\ r.di = di /\ r.flags = after
  BY <1>8
<1> QED
  BY <1>3, <1>9, <1>10 DEF r, ax, si, di, after, OneRound

(* The index of element k, one step at a time.                             *)
LEMMA AtStep ==
  ASSUME NEW index \in Words, NEW k \in Nat, NEW word \in BOOLEAN, NEW s, NEW f,
         f.direction = s.flags.direction, f.direction \in BOOLEAN
  PROVE  /\ At(index, 0, word, s) = index
         /\ At(index, k, word, s) \in Words
         /\ Stepped(At(index, k, word, s), f, word) = At(index, k + 1, word, s)
<1> DEFINE w == Width(word)
           d == df_step(f, w)
           o(n) == (IF s.flags.direction THEN -n ELSE n) * w
<1>1. w \in {1, 2}
  BY DEF Width
<1>2. d = (IF s.flags.direction THEN -w ELSE w) /\ d \in Int
  BY <1>1 DEF df_step
<1> HIDE DEF w
<1>3. o(0) = 0 /\ o(k) \in Int /\ o(k + 1) = o(k) + d
  <2>1. CASE s.flags.direction
    BY <1>1, <1>2, <2>1
  <2>2. CASE ~s.flags.direction
    BY <1>1, <1>2, <2>2
  <2> QED
    BY <2>1, <2>2
<1>4. \A n : At(index, n, word, s) = (index + o(n)) % WordValues
  BY DEF At, WordValues, w
<1> HIDE DEF o, d
<1>5. index \in Nat /\ index < WordValues /\ index \in Int
  BY StringWidths
<1>6. At(index, 0, word, s) = index
  <2>1. index + o(0) = index
    BY <1>3, <1>5
  <2> QED
    BY <1>4, <1>5, <2>1, StringWidths, SmallMod
<1>7. At(index, k, word, s) \in Words
  <2> DEFINE x == index + o(k)
  <2>1. x \in Int
    BY <1>3, <1>5
  <2> HIDE DEF x
  <2>2. x % WordValues \in Int /\ 0 <= x % WordValues /\ x % WordValues < WordValues
    BY <2>1, StringWidths, ModRange
  <2> QED
    BY <1>4, <2>2, StringWidths DEF x
<1>8. Stepped(At(index, k, word, s), f, word) = At(index, k + 1, word, s)
  <2> DEFINE x == index + o(k)
  <2>1. x \in Int /\ index + o(k + 1) = x + d
    BY <1>2, <1>3, <1>5
  <2>2. Stepped(At(index, k, word, s), f, word) = (At(index, k, word, s) + d) % WordValues
    BY DEF Stepped, WordValues, d, w
  <2>3. At(index, k, word, s) = x % WordValues
    BY <1>4
  <2> HIDE DEF x
  <2>4. ((x % WordValues) + d) % WordValues = (x + d) % WordValues
    BY <1>2, <2>1, StringWidths, AddMod
  <2> QED
    BY <1>4, <2>1, <2>2, <2>3, <2>4
<1> QED
  BY <1>6, <1>7, <1>8

(* What the machine's memory holds after k elements.                       *)
NextMemory(op, word, s, cells, k) ==
  CASE op = "movs" -> Put(cells[k], At(s.di, k, word, s), Fetch(cells[k], At(s.si, k, word, s), word), word)
    [] op = "stos" -> Put(cells[k], At(s.di, k, word, s), s.ax, word)
    [] OTHER -> s.ram

(* r is what the machine has left of s after k elements, but for the count. *)
Follows(op, word, s, cells, k, r) ==
  /\ r \in StringState
  /\ r.ram = cells[k] /\ (op \notin {"movs", "stos"} => r.ram = s.ram)
  /\ r.si = IF op \in {"movs", "lods", "cmps"} THEN At(s.si, k, word, s) ELSE s.si
  /\ r.di = IF op = "lods" THEN s.di ELSE At(s.di, k, word, s)
  /\ r.ax = IF op # "lods" \/ k = 0 THEN s.ax
            ELSE IF word THEN Fetch(s.ram, At(s.si, k - 1, word, s), word)
            ELSE LowByte(s.ax, Fetch(s.ram, At(s.si, k - 1, word, s), word))
  /\ r.flags.direction = s.flags.direction
  /\ IF Compares(op) /\ k > 0
     THEN /\ r.flags.zero = (Pair(op, word, s, k - 1)[1] = Pair(op, word, s, k - 1)[2])
          /\ r.flags.carry = (Pair(op, word, s, k - 1)[1] < Pair(op, word, s, k - 1)[2])
     ELSE r.flags = s.flags

Apart(op, word, s, k) ==
  /\ word => At(s.si, k, word, s) # WordValues - 1 /\ At(s.di, k, word, s) # WordValues - 1
  /\ ~(Compares(op) /\ s.flags.direction)

LEMMA FollowsStart ==
  ASSUME NEW op \in Operations, NEW word \in BOOLEAN, NEW s \in StringState,
         NEW cells, cells[0] = s.ram
  PROVE  Follows(op, word, s, cells, 0, s)
<1>1. s.si \in Words /\ s.di \in Words /\ s.flags.direction \in BOOLEAN
  BY DEF StringState, RuntimeFlags
<1>2. At(s.si, 0, word, s) = s.si /\ At(s.di, 0, word, s) = s.di
  BY <1>1, AtStep
<1> QED
  BY <1>2 DEF Follows

(* The statements of the loop handle one element as the machine does.      *)
LEMMA BodyStep ==
  ASSUME NEW op \in Operations, NEW word \in BOOLEAN, NEW s \in StringState, NEW cells, NEW k \in Nat,
         NEW r, Follows(op, word, s, cells, k, r), Apart(op, word, s, k),
         cells[k + 1] = NextMemory(op, word, s, cells, k)
  PROVE  Follows(op, word, s, cells, k + 1, Body(op, word, r))
<1> DEFINE t == Body(op, word, r)
           after == FlagsAfter(op, word, r)
           si == At(s.si, k, word, s)
           di == At(s.di, k, word, s)
<1>1. r \in StringState /\ r.ram = cells[k] /\ r.ram \in Memories /\ r.ax \in Words
  BY DEF Follows, StringState
<1>2. s.si \in Words /\ s.di \in Words /\ s.flags.direction \in BOOLEAN /\ s.ax \in Words /\ s.ram \in Memories
  BY DEF StringState, RuntimeFlags
<1>3. si \in Words /\ di \in Words
  BY <1>2, AtStep
<1>4. OneRound(op, word, r, t)
  BY <1>1, BodyIs
<1>5. /\ op \in {"movs", "lods", "cmps"} => r.si = si
      /\ op \notin {"movs", "lods", "cmps"} => r.si = s.si
      /\ op # "lods" => r.di = di
      /\ op = "lods" => r.di = s.di
      /\ op # "lods" => r.ax = s.ax
      /\ op \notin {"movs", "stos"} => r.ram = s.ram
      /\ r.flags.direction = s.flags.direction
  BY DEF Follows
<1>6. /\ Fetch(r.ram, si, word) = Loads(r.ram, si, word)
      /\ Fetch(r.ram, di, word) = Loads(r.ram, di, word)
      /\ \A v \in Words : Put(r.ram, di, v, word) = Stores(r.ram, di, v, word)
      /\ Loads(r.ram, si, word) \in Words /\ Loads(r.ram, di, word) \in Words
      /\ ~word => Loads(r.ram, si, word) \in Bytes
  BY <1>1, <1>3, LoadsTyped, StoresTyped DEF Apart
<1>7. after.direction = s.flags.direction /\ after.direction \in BOOLEAN
  <2>1. CASE Compares(op)
    <3>1. after.direction = FALSE
      BY <2>1 DEF FlagsAfter, Compares, update_flags_cmp, FlagWord
    <3>2. s.flags.direction = FALSE
      BY <1>2, <2>1 DEF Apart
    <3> QED
      BY <3>1, <3>2
  <2>2. CASE ~Compares(op)
    BY <1>2, <1>5, <2>2 DEF FlagsAfter, Compares
  <2> QED
    BY <2>1, <2>2
<1>8. Stepped(si, after, word) = At(s.si, k + 1, word, s) /\ Stepped(di, after, word) = At(s.di, k + 1, word, s)
  BY <1>2, <1>7, AtStep
<1> HIDE DEF t, si, di
<1>9. t.ram = cells[k + 1] /\ (op \notin {"movs", "stos"} => t.ram = s.ram)
  <2>1. CASE op = "movs"
    BY <1>1, <1>4, <1>5, <1>6, <2>1 DEF NextMemory, si, di, OneRound
  <2>2. CASE op = "stos"
    BY <1>1, <1>2, <1>4, <1>5, <1>6, <2>2 DEF NextMemory, di, OneRound
  <2>3. CASE op \notin {"movs", "stos"}
    BY <1>4, <1>5, <2>3 DEF NextMemory, OneRound
  <2> QED
    BY <2>1, <2>2, <2>3
<1>10. /\ t.si = IF op \in {"movs", "lods", "cmps"} THEN At(s.si, k + 1, word, s) ELSE s.si
       /\ t.di = IF op = "lods" THEN s.di ELSE At(s.di, k + 1, word, s)
  BY <1>4, <1>5, <1>8 DEF Operations, OneRound
<1>11. t.ax = IF op # "lods" THEN s.ax
              ELSE IF word THEN Fetch(s.ram, si, word) ELSE LowByte(s.ax, Fetch(s.ram, si, word))
  <2>1. CASE op # "lods"
    BY <1>4, <1>5, <2>1 DEF OneRound
  <2>2. CASE op = "lods" /\ word
    BY <1>4, <1>5, <1>6, <2>2 DEF OneRound
  <2>3. CASE op = "lods" /\ ~word
    <3> DEFINE b == Loads(r.ram, si, word)
    <3>1. t.ax = LowByte(r.ax, b) /\ b \in Bytes /\ Fetch(s.ram, si, word) = b
      BY <1>4, <1>5, <1>6, <2>3 DEF OneRound
    <3> HIDE DEF b
    <3>2. CASE k = 0
      BY <2>3, <3>1, <3>2 DEF Follows
    <3>3. CASE k # 0
      <4> DEFINE c == Fetch(s.ram, At(s.si, k - 1, word, s), word)
      <4>1. r.ax = LowByte(s.ax, c)
        BY <2>3, <3>3 DEF Follows
      <4>2. k - 1 \in Nat
        BY <3>3
      <4>3. At(s.si, k - 1, word, s) \in Words
        BY <1>2, <4>2, AtStep
      <4>4. c \in Bytes
        BY <1>2, <2>3, <4>3, LoadsTyped
      <4> HIDE DEF c
      <4> QED
        BY <1>2, <2>3, <3>1, <4>1, <4>4, LowByteOf
    <3> QED
      BY <3>2, <3>3
  <2> QED
    BY <2>1, <2>2, <2>3
<1>12. ASSUME Compares(op)
       PROVE  /\ t.flags.zero = (Pair(op, word, s, k)[1] = Pair(op, word, s, k)[2])
              /\ t.flags.carry = (Pair(op, word, s, k)[1] < Pair(op, word, s, k)[2])
  <2>1. Pair(op, word, s, k)[1] = Compared(op, word, r)
    BY <1>5, <1>6, <1>12 DEF Pair, Compared, Compares, Accumulator, si
  <2>2. Pair(op, word, s, k)[2] = Loads(r.ram, r.di, word)
    BY <1>5, <1>6, <1>12 DEF Pair, Compares, di
  <2> QED
    BY <1>4, <1>12, <2>1, <2>2 DEF FlagsAfter, Compares, update_flags_cmp, FlagWord, OneRound
<1>13. ~Compares(op) => t.flags = s.flags
  BY <1>4 DEF FlagsAfter, Compares, Follows, OneRound
<1>14. (k + 1) - 1 = k /\ k + 1 > 0 /\ k + 1 # 0
  OBVIOUS
<1> QED
  BY <1>4, <1>7, <1>9, <1>10, <1>11, <1>12, <1>13, <1>14 DEF Follows, t, si, OneRound

(* The states of the while loop.                                           *)
Rounds(op, word, rep, s) ==
  LET rounds[n \in 0 .. s.cx] ==
        IF n = 0 THEN [s |-> s, broken |-> FALSE]
        ELSE IF rounds[n - 1].broken THEN rounds[n - 1]
        ELSE LET next == Body(op, word, [rounds[n - 1].s EXCEPT !.cx = @ - 1])
             IN  [s |-> next, broken |-> Breaks(rep, next.flags)]
  IN  rounds

NextRound(op, word, rep, round) ==
  IF round.broken THEN round
  ELSE LET next == Body(op, word, [round.s EXCEPT !.cx = @ - 1])
       IN  [s |-> next, broken |-> Breaks(rep, next.flags)]

(* The loop exists for every count: each round is made from the last.      *)
LEMMA RoundsIs ==
  ASSUME NEW op, NEW word, NEW rep, NEW s, s.cx \in Nat
  PROVE  /\ Rounds(op, word, rep, s)[0] = [s |-> s, broken |-> FALSE]
         /\ \A k \in 1 .. s.cx :
              Rounds(op, word, rep, s)[k] = NextRound(op, word, rep, Rounds(op, word, rep, s)[k - 1])
         /\ emit_string_op(op, word, rep, s) =
              IF rep = "none" THEN Body(op, word, s) ELSE Rounds(op, word, rep, s)[s.cx].s
<1> DEFINE start == [s |-> s, broken |-> FALSE]
           Is(f, m) == f = [n \in 0 .. m |-> IF n = 0 THEN start ELSE NextRound(op, word, rep, f[n - 1])]
           Bad == { m \in Nat : ~ \E f : Is(f, m) }
<1>1. Bad = {}
  <2> SUFFICES ASSUME Bad # {} PROVE FALSE
    OBVIOUS
  <2>1. Bad \in SUBSET Nat
    OBVIOUS
  <2>2. PICK m \in Bad : \A l \in Bad : m <= l
    <3> HIDE DEF Bad
    <3> QED
      BY <2>1, LeastNat
  <2>3. m \in Nat /\ ~ \E f : Is(f, m)
    OBVIOUS
  <2> HIDE DEF start
  <2>4. CASE m = 0
    <3> DEFINE f == [k \in 0 .. 0 |-> start]
    <3>1. \A k \in 0 .. 0 : k = 0
      OBVIOUS
    <3>2. Is(f, 0)
      BY <3>1
    <3> QED
      BY <2>3, <2>4, <3>2
  <2>5. CASE m # 0
    <3>1. m \in Nat /\ m - 1 \in Nat /\ ~(m <= m - 1)
      BY <2>3, <2>5
    <3>2. m - 1 \notin Bad
      BY <2>2, <3>1
    <3>3. PICK f : Is(f, m - 1)
      BY <3>1, <3>2
    <3> DEFINE g == [k \in 0 .. m |->
                       IF k = 0 THEN start
                       ELSE IF k = m THEN NextRound(op, word, rep, f[m - 1]) ELSE f[k]]
    <3>4. /\ g = [k \in 0 .. m |-> g[k]] /\ g[0] = start
          /\ g[m] = NextRound(op, word, rep, f[m - 1])
          /\ \A k \in 0 .. m - 1 : g[k] = f[k]
      <4>1. f[0] = start
        BY <3>1, <3>3
      <4> QED
        BY <2>3, <2>5, <3>1, <4>1
    <3> HIDE DEF g
    <3>5. \A k \in 0 .. m : g[k] = IF k = 0 THEN start ELSE NextRound(op, word, rep, g[k - 1])
      <4> SUFFICES ASSUME NEW k \in 0 .. m, k # 0
                   PROVE  g[k] = NextRound(op, word, rep, g[k - 1])
        BY <3>4
      <4>1. k - 1 \in 0 .. m - 1 /\ g[k - 1] = f[k - 1]
        <5>1. k - 1 \in 0 .. m - 1
          BY <3>1
        <5> QED
          BY <3>4, <5>1
      <4>2. CASE k = m
        BY <3>4, <4>1, <4>2
      <4>3. CASE k # m
        <5>1. k \in 0 .. m - 1
          BY <2>3, <4>3
        <5>2. f[k] = NextRound(op, word, rep, f[k - 1])
          BY <3>3, <5>1
        <5> QED
          BY <3>4, <4>1, <5>1, <5>2
      <4> QED
        BY <4>2, <4>3
    <3>6. Is(g, m)
      BY <3>4, <3>5
    <3> QED
      BY <2>3, <3>6
  <2> QED
    BY <2>4, <2>5
<1>2. \E f : Is(f, s.cx)
  BY <1>1
<1>3. Rounds(op, word, rep, s) = CHOOSE f : Is(f, s.cx)
  BY DEF Rounds, NextRound
<1>4. emit_string_op(op, word, rep, s) =
        IF rep = "none" THEN Body(op, word, s) ELSE Rounds(op, word, rep, s)[s.cx].s
  BY DEF emit_string_op, Rounds
<1>5. Is(Rounds(op, word, rep, s), s.cx)
  <2> HIDE DEF Is
  <2> QED
    BY <1>2, <1>3
<1>6. 0 \in 0 .. s.cx /\ \A k \in 1 .. s.cx : k \in 0 .. s.cx /\ k # 0
  OBVIOUS
<1> DEFINE rounds == Rounds(op, word, rep, s)
<1> HIDE DEF rounds
<1>7. rounds = [n \in 0 .. s.cx |-> IF n = 0 THEN start ELSE NextRound(op, word, rep, rounds[n - 1])]
  BY <1>5 DEF rounds
<1>8. rounds[0] = start /\ \A k \in 1 .. s.cx : rounds[k] = NextRound(op, word, rep, rounds[k - 1])
  BY <1>6, <1>7
<1> QED
  BY <1>4, <1>8 DEF rounds

(* The machine's memory after each element.                                *)
MemoryOf(op, word, s, n) ==
  LET cells[k \in 0 .. n] ==
        IF k = 0 THEN s.ram
        ELSE CASE op = "movs" ->
                    Put(cells[k - 1], At(s.di, k - 1, word, s),
                        Fetch(cells[k - 1], At(s.si, k - 1, word, s), word), word)
               [] op = "stos" -> Put(cells[k - 1], At(s.di, k - 1, word, s), s.ax, word)
               [] OTHER -> s.ram
  IN  cells

LEMMA MemoryIs ==
  ASSUME NEW op, NEW word, NEW s, NEW n \in Nat
  PROVE  /\ MemoryOf(op, word, s, n)[0] = s.ram
         /\ \A k \in 0 .. n - 1 :
              MemoryOf(op, word, s, n)[k + 1] = NextMemory(op, word, s, MemoryOf(op, word, s, n), k)
<1> DEFINE Next1(f, k) == NextMemory(op, word, s, f, k)
           Is(f, m) == f = [k \in 0 .. m |-> IF k = 0 THEN s.ram ELSE Next1(f, k - 1)]
           Bad == { m \in Nat : ~ \E f : Is(f, m) }
<1>0. ASSUME NEW f, NEW g, NEW k, f[k] = g[k]
      PROVE  Next1(f, k) = Next1(g, k)
  BY <1>0 DEF NextMemory
<1>1. Bad = {}
  <2> SUFFICES ASSUME Bad # {} PROVE FALSE
    OBVIOUS
  <2>1. Bad \in SUBSET Nat
    OBVIOUS
  <2>2. PICK m \in Bad : \A l \in Bad : m <= l
    <3> HIDE DEF Bad
    <3> QED
      BY <2>1, LeastNat
  <2>3. m \in Nat /\ ~ \E f : Is(f, m)
    OBVIOUS
  <2> HIDE DEF Next1
  <2>4. CASE m = 0
    <3> DEFINE f == [k \in 0 .. 0 |-> s.ram]
    <3>1. \A k \in 0 .. 0 : k = 0
      OBVIOUS
    <3>2. Is(f, 0)
      BY <3>1
    <3> QED
      BY <2>3, <2>4, <3>2
  <2>5. CASE m # 0
    <3>1. m \in Nat /\ m - 1 \in Nat /\ ~(m <= m - 1)
      BY <2>3, <2>5
    <3>2. m - 1 \notin Bad
      BY <2>2, <3>1
    <3>3. PICK f : Is(f, m - 1)
      BY <3>1, <3>2
    <3> DEFINE g == [k \in 0 .. m |->
                       IF k = 0 THEN s.ram ELSE IF k = m THEN Next1(f, m - 1) ELSE f[k]]
    <3>4. /\ g = [k \in 0 .. m |-> g[k]] /\ g[0] = s.ram
          /\ g[m] = Next1(f, m - 1)
          /\ \A k \in 0 .. m - 1 : g[k] = f[k]
      <4>1. f[0] = s.ram
        BY <3>1, <3>3
      <4> QED
        BY <2>3, <2>5, <3>1, <4>1
    <3> HIDE DEF g
    <3>5. \A k \in 0 .. m : g[k] = IF k = 0 THEN s.ram ELSE Next1(g, k - 1)
      <4> SUFFICES ASSUME NEW k \in 0 .. m, k # 0
                   PROVE  g[k] = Next1(g, k - 1)
        BY <3>4
      <4>1. k - 1 \in 0 .. m - 1 /\ g[k - 1] = f[k - 1]
        <5>1. k - 1 \in 0 .. m - 1
          BY <3>1
        <5> QED
          BY <3>4, <5>1
      <4>2. Next1(g, k - 1) = Next1(f, k - 1)
        BY <1>0, <4>1
      <4>3. CASE k = m
        BY <3>4, <4>2, <4>3
      <4>4. CASE k # m
        <5>1. k \in 0 .. m - 1
          BY <2>3, <4>4
        <5>2. f[k] = Next1(f, k - 1)
          BY <3>3, <5>1
        <5> QED
          BY <3>4, <4>2, <5>1, <5>2
      <4> QED
        BY <4>3, <4>4
    <3>6. Is(g, m)
      BY <3>4, <3>5
    <3> QED
      BY <2>3, <3>6
  <2> QED
    BY <2>4, <2>5
<1>2. \E f : Is(f, n)
  BY <1>1
<1>3. MemoryOf(op, word, s, n) = CHOOSE f : Is(f, n)
  BY DEF MemoryOf, NextMemory
<1>4. Is(MemoryOf(op, word, s, n), n)
  <2> HIDE DEF Is
  <2> QED
    BY <1>2, <1>3
<1> DEFINE cells == MemoryOf(op, word, s, n)
<1> HIDE DEF cells, Next1
<1>5. cells = [k \in 0 .. n |-> IF k = 0 THEN s.ram ELSE Next1(cells, k - 1)]
  BY <1>4 DEF cells
<1>6. 0 \in 0 .. n /\ \A k \in 0 .. n - 1 : k + 1 \in 0 .. n /\ k + 1 # 0 /\ (k + 1) - 1 = k
  OBVIOUS
<1>7. cells[0] = s.ram
  BY <1>5, <1>6
<1>8. ASSUME NEW k \in 0 .. n - 1
      PROVE  cells[k + 1] = Next1(cells, k)
  BY <1>5, <1>6
<1> QED
  BY <1>7, <1>8 DEF cells, Next1

(* There is a number of elements after which the machine stops.            *)
LEMMA HandledIs ==
  ASSUME NEW op, NEW word, NEW rep, NEW s, s.cx \in Nat, rep # "none"
  PROVE  LET N == Handled(op, word, rep, s)
         IN  /\ N \in 0 .. s.cx
             /\ N = s.cx \/ (N > 0 /\ Ends(op, word, rep, s, N - 1))
             /\ \A k \in 0 .. N - 2 : ~Ends(op, word, rep, s, k)
<1> DEFINE E(k) == Ends(op, word, rep, s, k)
           Good(n) == /\ n = s.cx \/ (n > 0 /\ E(n - 1))
                      /\ \A k \in 0 .. n - 2 : ~E(k)
           Stops == { n \in 1 .. s.cx : E(n - 1) }
<1> HIDE DEF E
<1>1. \E n \in 0 .. s.cx : Good(n)
  <2>1. CASE Stops = {}
    <3>1. ASSUME NEW k \in 0 .. s.cx - 2 PROVE ~E(k)
      <4>1. k + 1 \in 1 .. s.cx /\ (k + 1) - 1 = k
        OBVIOUS
      <4>2. E(k) => k + 1 \in Stops
        BY <4>1
      <4> HIDE DEF Stops
      <4> QED
        BY <2>1, <4>2
    <3> QED
      BY <3>1
  <2>2. CASE Stops # {}
    <3>1. Stops \in SUBSET Nat
      OBVIOUS
    <3>2. PICK n \in Stops : \A m \in Stops : n <= m
      <4> HIDE DEF Stops
      <4> QED
        BY <2>2, <3>1, LeastNat
    <3>3. n \in 1 .. s.cx /\ E(n - 1)
      OBVIOUS
    <3>4. ASSUME NEW k \in 0 .. n - 2 PROVE ~E(k)
      <4>1. k + 1 \in 1 .. s.cx /\ (k + 1) - 1 = k /\ ~(n <= k + 1)
        BY <3>3
      <4>2. k + 1 \notin Stops
        BY <3>2, <4>1
      <4> QED
        BY <4>1, <4>2
    <3> QED
      BY <3>3, <3>4
  <2> QED
    BY <2>1, <2>2
<1>2. Handled(op, word, rep, s) = CHOOSE n \in 0 .. s.cx : Good(n)
  BY DEF Handled, E
<1> DEFINE N == Handled(op, word, rep, s)
<1>3. N \in 0 .. s.cx /\ Good(N)
  <2> HIDE DEF Good
  <2> QED
    BY <1>1, <1>2
<1> QED
  BY <1>3 DEF E

(* The loop counts before it handles an element.                           *)
LEMMA CountAside ==
  ASSUME NEW op, NEW word, NEW s, NEW cells, NEW k, NEW r, Follows(op, word, s, cells, k, r), r.cx > 0
  PROVE  /\ Follows(op, word, s, cells, k, [r EXCEPT !.cx = @ - 1])
         /\ [r EXCEPT !.cx = @ - 1].cx = r.cx - 1
<1> DEFINE t == [r EXCEPT !.cx = @ - 1]
<1>1. r \in StringState /\ r.cx - 1 \in Words
  BY StringWidths DEF Follows, StringState
<1>2. /\ t \in StringState /\ t.cx = r.cx - 1 /\ t.ram = r.ram /\ t.ax = r.ax /\ t.si = r.si /\ t.di = r.di
      /\ t.flags = r.flags
  BY <1>1 DEF StringState
<1> HIDE DEF t
<1>3. Follows(op, word, s, cells, k, t)
  BY <1>2 DEF Follows
<1> QED
  BY <1>2, <1>3 DEF t

(* What the machine leaves, from a state that has followed it.             *)
LEMMA FollowsToTheEnd ==
  ASSUME NEW op \in Operations, NEW word \in BOOLEAN, NEW rep, NEW s \in StringState, NEW r,
         Handled(op, word, rep, s) \in Nat,
         LET N == Handled(op, word, rep, s)
         IN  /\ Follows(op, word, s, MemoryOf(op, word, s, N), N, r)
             /\ r.cx = IF rep = "none" THEN s.cx ELSE s.cx - N
  PROVE  Left(r) = Machine(op, word, rep, s)
<1> DEFINE n == Handled(op, word, rep, s)
           cells == MemoryOf(op, word, s, n)
           element == Fetch(s.ram, At(s.si, n - 1, word, s), word)
           pair == Pair(op, word, s, n - 1)
<1>1. Machine(op, word, rep, s) =
       [ram |-> cells[n],
        ax  |-> IF op # "lods" \/ n = 0 THEN s.ax ELSE IF word THEN element ELSE LowByte(s.ax, element),
        cx  |-> IF rep = "none" THEN s.cx ELSE s.cx - n,
        si  |-> IF op \in {"movs", "lods", "cmps"} THEN At(s.si, n, word, s) ELSE s.si,
        di  |-> IF op = "lods" THEN s.di ELSE At(s.di, n, word, s),
        zero  |-> IF Compares(op) /\ n > 0 THEN pair[1] = pair[2] ELSE s.flags.zero,
        carry |-> IF Compares(op) /\ n > 0 THEN pair[1] < pair[2] ELSE s.flags.carry,
        direction |-> s.flags.direction]
  BY DEF Machine, MemoryOf
<1>2. Follows(op, word, s, cells, n, r) /\ r.cx = (IF rep = "none" THEN s.cx ELSE s.cx - n)
  OBVIOUS
<1> HIDE DEF n, cells, element, pair
<1>3. /\ r.ram = cells[n]
      /\ r.si = IF op \in {"movs", "lods", "cmps"} THEN At(s.si, n, word, s) ELSE s.si
      /\ r.di = IF op = "lods" THEN s.di ELSE At(s.di, n, word, s)
      /\ r.ax = IF op # "lods" \/ n = 0 THEN s.ax ELSE IF word THEN element ELSE LowByte(s.ax, element)
      /\ r.flags.direction = s.flags.direction
  BY <1>2 DEF Follows, element
<1>4. /\ r.flags.zero = IF Compares(op) /\ n > 0 THEN pair[1] = pair[2] ELSE s.flags.zero
      /\ r.flags.carry = IF Compares(op) /\ n > 0 THEN pair[1] < pair[2] ELSE s.flags.carry
  <2>1. CASE Compares(op) /\ n > 0
    BY <1>2, <2>1 DEF Follows, pair
  <2>2. CASE ~(Compares(op) /\ n > 0)
    BY <1>2, <2>2 DEF Follows
  <2> QED
    BY <2>1, <2>2
<1> QED
  BY <1>1, <1>2, <1>3, <1>4 DEF Left

(* One string instruction, from any state the machine can be in.           *)
LEMMA StringIsExact ==
  ASSUME NEW op \in Operations, NEW word \in BOOLEAN, NEW rep \in Prefixes, NEW s \in StringState,
         \A k \in 0 .. Handled(op, word, rep, s) - 1 : Apart(op, word, s, k),
         Compares(op) /\ rep = "rep" => Handled(op, word, rep, s) >= s.cx,
         ~(~Compares(op) /\ rep = "repne" /\ s.flags.zero)
  PROVE  Left(emit_string_op(op, word, rep, s)) = Machine(op, word, rep, s)
<1> DEFINE N == Handled(op, word, rep, s)
           cells == MemoryOf(op, word, s, N)
           rounds == Rounds(op, word, rep, s)
<1>1. s.cx \in Nat /\ s.flags.zero \in BOOLEAN
  BY StringWidths DEF StringState, RuntimeFlags
<1>2. CASE rep = "none"
  <2>1. N = 1
    BY <1>2 DEF Handled
  <2>2. cells[0] = s.ram /\ cells[0 + 1] = NextMemory(op, word, s, cells, 0)
    <3>1. 1 \in Nat /\ 0 \in 0 .. 1 - 1
      OBVIOUS
    <3> HIDE DEF N
    <3> QED
      BY <2>1, <3>1, MemoryIs
  <2>3. Apart(op, word, s, 0)
    BY <2>1
  <2> HIDE DEF cells, N
  <2>4. Follows(op, word, s, cells, 0 + 1, Body(op, word, s))
    BY <2>2, <2>3, FollowsStart, BodyStep
  <2>5. Body(op, word, s).cx = s.cx
    BY BodyIs DEF OneRound
  <2>6. emit_string_op(op, word, rep, s) = Body(op, word, s)
    BY <1>2 DEF emit_string_op
  <2> QED
    BY <1>2, <2>1, <2>4, <2>5, <2>6, FollowsToTheEnd DEF N, cells
<1>3. CASE rep # "none"
  <2>1. /\ N \in 0 .. s.cx /\ N \in Nat
        /\ N = s.cx \/ (N > 0 /\ Ends(op, word, rep, s, N - 1))
        /\ \A k \in 0 .. N - 2 : ~Ends(op, word, rep, s, k)
    BY <1>1, <1>3, HandledIs
  <2>2. /\ rounds[0] = [s |-> s, broken |-> FALSE]
        /\ \A k \in 1 .. s.cx : rounds[k] = NextRound(op, word, rep, rounds[k - 1])
        /\ emit_string_op(op, word, rep, s) = rounds[s.cx].s
    BY <1>1, <1>3, RoundsIs
  <2>3. /\ cells[0] = s.ram
        /\ \A k \in 0 .. N - 1 : cells[k + 1] = NextMemory(op, word, s, cells, k)
    BY <2>1, MemoryIs
  <2>4. \A k \in 0 .. N - 1 : Apart(op, word, s, k)
    OBVIOUS
  <2>5. Compares(op) /\ rep = "rep" => N >= s.cx
    OBVIOUS
  <2> HIDE DEF N, cells, rounds
  <2> DEFINE Good(k) == /\ Follows(op, word, s, cells, k, rounds[k].s)
                        /\ rounds[k].s.cx = s.cx - k
                        /\ (rounds[k].broken <=> k > 0 /\ Breaks(rep, rounds[k].s.flags))
             Bad == { k \in 0 .. N : ~Good(k) }
  <2>6. Bad = {}
    <3> SUFFICES ASSUME Bad # {} PROVE FALSE
      OBVIOUS
    <3>1. Bad \in SUBSET Nat
      OBVIOUS
    <3>2. PICK m \in Bad : \A l \in Bad : m <= l
      <4> HIDE DEF Bad
      <4> QED
        BY <3>1, LeastNat
    <3> HIDE DEF Good
    <3>3. m \in 0 .. N /\ ~Good(m)
      OBVIOUS
    <3>4. CASE m = 0
      <4>1. Follows(op, word, s, cells, 0, s)
        BY <2>3, FollowsStart
      <4>2. Good(0)
        <5>1. rounds[0].s = s /\ rounds[0].broken = FALSE /\ s.cx - 0 = s.cx /\ ~(0 > 0)
          BY <1>1, <2>2
        <5> QED
          BY <4>1, <5>1 DEF Good
      <4> QED
        BY <3>3, <3>4, <4>2
    <3>5. CASE m # 0
      <4> DEFINE k == m - 1
      <4>1. k \in 0 .. N - 1 /\ k \in 0 .. N /\ k \in Nat /\ k + 1 = m /\ m \in 1 .. s.cx /\ ~(m <= k) /\ k < s.cx
        BY <1>1, <2>1, <3>3, <3>5
      <4>2. k \notin Bad
        BY <3>2, <4>1
      <4>3. Good(k)
        BY <4>1, <4>2
      <4> HIDE DEF k
      <4> DEFINE r == rounds[k].s
      <4>4. Follows(op, word, s, cells, k, r) /\ r.cx = s.cx - k /\ r.cx > 0
        BY <1>1, <4>1, <4>3 DEF Good
      <4>5. ~rounds[k].broken
        <5> SUFFICES ASSUME k > 0, Breaks(rep, r.flags) PROVE FALSE
          BY <4>3 DEF Good
        <5>1. rep = "repne" /\ r.flags.zero
          BY DEF Breaks, Prefixes
        <5>2. CASE Compares(op)
          <6>1. r.flags.zero = (Pair(op, word, s, k - 1)[1] = Pair(op, word, s, k - 1)[2])
            BY <4>4, <5>2 DEF Follows
          <6>2. Ends(op, word, rep, s, k - 1)
            BY <5>1, <5>2, <6>1 DEF Ends
          <6>3. k - 1 \in 0 .. N - 2
            BY <2>1, <4>1
          <6> QED
            BY <2>1, <6>2, <6>3
        <5>3. CASE ~Compares(op)
          <6>1. r.flags = s.flags
            BY <4>4, <5>3 DEF Follows
          <6> QED
            BY <5>1, <5>3, <6>1
        <5> QED
          BY <5>2, <5>3
      <4> DEFINE q == [r EXCEPT !.cx = @ - 1]
                 t == Body(op, word, q)
      <4>6. rounds[m] = [s |-> t, broken |-> Breaks(rep, t.flags)]
        <5>1. m - 1 = k
          BY DEF k
        <5>2. rounds[m] = NextRound(op, word, rep, rounds[k])
          BY <2>2, <4>1, <5>1
        <5> QED
          BY <4>5, <5>2 DEF NextRound
      <4>7. Follows(op, word, s, cells, k, q) /\ q.cx = r.cx - 1 /\ q \in StringState
        <5> HIDE DEF r
        <5>1. Follows(op, word, s, cells, k, q) /\ q.cx = r.cx - 1
          BY <4>4, CountAside
        <5> HIDE DEF q
        <5> QED
          BY <5>1 DEF Follows
      <4> HIDE DEF r, q
      <4>8. Follows(op, word, s, cells, k + 1, t)
        BY <2>3, <2>4, <4>1, <4>7, BodyStep
      <4>9. t.cx = q.cx
        <5>1. OneRound(op, word, q, t)
          BY <4>7, BodyIs
        <5> QED
          BY <5>1 DEF OneRound
      <4> HIDE DEF t
      <4>10. Good(m)
        <5>1. t.cx = s.cx - m
          BY <1>1, <4>1, <4>4, <4>7, <4>9
        <5>2. Follows(op, word, s, cells, m, t)
          BY <4>1, <4>8
        <5>3. rounds[m].s = t /\ rounds[m].broken = Breaks(rep, t.flags) /\ m > 0
          BY <4>1, <4>6
        <5> QED
          BY <5>1, <5>2, <5>3 DEF Good
      <4> QED
        BY <3>3, <4>10
    <3> QED
      BY <3>4, <3>5
  <2> HIDE DEF Good
  <2>7. Good(N)
    BY <2>1, <2>6
  (* Behind a break the loop does no more.                                   *)
  <2>8. rounds[s.cx] = rounds[N]
    <3>1. CASE N = s.cx
      BY <3>1
    <3>2. CASE N # s.cx
      <4>1. N > 0 /\ Ends(op, word, rep, s, N - 1) /\ N < s.cx
        BY <1>1, <2>1, <3>2
      <4>2. Compares(op) /\ rep = "repne"
        BY <1>1, <1>3, <2>1, <2>5, <4>1 DEF Ends, Prefixes
      <4>3. rounds[N].broken
        <5>1. rounds[N].s.flags.zero = (Pair(op, word, s, N - 1)[1] = Pair(op, word, s, N - 1)[2])
          BY <2>7, <4>1, <4>2 DEF Good, Follows
        <5>2. rounds[N].s.flags.zero
          BY <4>1, <4>2, <5>1 DEF Ends
        <5>3. Breaks(rep, rounds[N].s.flags)
          BY <4>2, <5>2 DEF Breaks
        <5> QED
          BY <2>7, <4>1, <5>3 DEF Good
      <4> DEFINE Late == { k \in N .. s.cx : rounds[k] # rounds[N] }
      <4>4. Late = {}
        <5> SUFFICES ASSUME Late # {} PROVE FALSE
          OBVIOUS
        <5>1. Late \in SUBSET Nat
          BY <2>1
        <5>2. PICK m \in Late : \A l \in Late : m <= l
          <6> HIDE DEF Late
          <6> QED
            BY <5>1, LeastNat
        <5>3. m \in N .. s.cx /\ m # N /\ rounds[m] # rounds[N]
          OBVIOUS
        <5>4. m - 1 \in N .. s.cx /\ m \in 1 .. s.cx /\ ~(m <= m - 1)
          BY <1>1, <2>1, <5>3
        <5>5. m - 1 \notin Late
          BY <5>2, <5>4
        <5>6. rounds[m - 1] = rounds[N]
          BY <5>4, <5>5
        <5>7. rounds[m] = NextRound(op, word, rep, rounds[m - 1])
          BY <2>2, <5>4
        <5> QED
          BY <4>3, <5>3, <5>6, <5>7 DEF NextRound
      <4>5. s.cx \in N .. s.cx
        BY <1>1, <2>1
      <4> QED
        BY <4>4, <4>5
    <3> QED
      BY <3>1, <3>2
  <2>9. Follows(op, word, s, cells, N, rounds[N].s) /\ rounds[N].s.cx = s.cx - N
    BY <2>7 DEF Good
  <2>10. Left(rounds[N].s) = Machine(op, word, rep, s)
    BY <1>3, <2>1, <2>9, FollowsToTheEnd DEF N, cells
  <2> QED
    BY <2>2, <2>8, <2>10
<1> QED
  BY <1>2, <1>3

----------------------------------------------------------------------------
(* Whatever it runs into, a string instruction leaves values of the        *)
(* declared ranges, and one that compares nothing the flags.               *)
LEMMA EmitTyped ==
  ASSUME NEW op \in Operations, NEW word \in BOOLEAN, NEW rep \in Prefixes, NEW s \in StringState
  PROVE  /\ emit_string_op(op, word, rep, s) \in StringState
         /\ ~Compares(op) => emit_string_op(op, word, rep, s).flags = s.flags
<1> DEFINE rounds == Rounds(op, word, rep, s)
           Kept(t) == t \in StringState /\ (~Compares(op) => t.flags = s.flags)
           Good(k) == Kept(rounds[k].s) /\ (rounds[k].broken \/ rounds[k].s.cx = s.cx - k)
           Bad == { k \in 0 .. s.cx : ~Good(k) }
<1>1. s.cx \in Nat
  BY StringWidths DEF StringState
<1>2. ASSUME NEW t, Kept(t) PROVE Kept(Body(op, word, t)) /\ Body(op, word, t).cx = t.cx
  <2>1. OneRound(op, word, t, Body(op, word, t))
    BY <1>2, BodyIs
  <2> QED
    BY <1>2, <2>1 DEF OneRound, FlagsAfter, Compares
<1>3. /\ rounds[0] = [s |-> s, broken |-> FALSE]
      /\ \A k \in 1 .. s.cx : rounds[k] = NextRound(op, word, rep, rounds[k - 1])
      /\ emit_string_op(op, word, rep, s) = IF rep = "none" THEN Body(op, word, s) ELSE rounds[s.cx].s
  BY <1>1, RoundsIs
<1>4. Kept(s)
  OBVIOUS
<1> HIDE DEF rounds, Kept
<1>5. Bad = {}
  <2> SUFFICES ASSUME Bad # {} PROVE FALSE
    OBVIOUS
  <2>1. Bad \in SUBSET Nat
    OBVIOUS
  <2>2. PICK m \in Bad : \A l \in Bad : m <= l
    <3> HIDE DEF Bad
    <3> QED
      BY <2>1, LeastNat
  <2> HIDE DEF Good
  <2>3. m \in 0 .. s.cx /\ ~Good(m)
    OBVIOUS
  <2>4. CASE m = 0
    <3>1. Good(0)
      BY <1>1, <1>3, <1>4 DEF Good
    <3> QED
      BY <2>3, <2>4, <3>1
  <2>5. CASE m # 0
    <3>1. m \in 1 .. s.cx /\ m - 1 \in 0 .. s.cx /\ ~(m <= m - 1)
      BY <1>1, <2>3, <2>5
    <3>2. m - 1 \notin Bad
      BY <2>2, <3>1
    <3>3. Good(m - 1)
      BY <3>1, <3>2
    <3> DEFINE round == rounds[m - 1]
    <3>4. rounds[m] = NextRound(op, word, rep, round)
      BY <1>3, <3>1
    <3>5. CASE round.broken
      BY <2>3, <3>3, <3>4, <3>5 DEF NextRound, Good
    <3>6. CASE ~round.broken
      <4> DEFINE r == round.s   q == [r EXCEPT !.cx = @ - 1]   t == Body(op, word, q)
      <4>1. r \in StringState /\ r.cx = s.cx - (m - 1) /\ (~Compares(op) => r.flags = s.flags)
        BY <3>3, <3>6 DEF Good, Kept
      <4>2. rounds[m].s = t
        BY <3>4, <3>6 DEF NextRound
      <4> HIDE DEF r
      <4>3. q \in StringState /\ q.flags = r.flags /\ q.cx = s.cx - m
        <5>1. r.cx - 1 = s.cx - m /\ s.cx - m \in Words
          BY <1>1, <3>1, <4>1, StringWidths DEF StringState
        <5> QED
          BY <4>1, <5>1 DEF StringState
      <4> HIDE DEF q
      <4>4. Kept(t) /\ t.cx = s.cx - m
        BY <1>2, <4>1, <4>3 DEF Kept
      <4> HIDE DEF t
      <4> QED
        BY <2>3, <4>2, <4>4 DEF Good
    <3> QED
      BY <3>5, <3>6
  <2> QED
    BY <2>4, <2>5
<1>6. Kept(emit_string_op(op, word, rep, s))
  <2>1. Kept(Body(op, word, s))
    BY <1>2, <1>4
  <2>2. s.cx \in 0 .. s.cx
    BY <1>1
  <2>3. Kept(rounds[s.cx].s)
    BY <1>5, <2>2
  <2> QED
    BY <1>3, <2>1, <2>3
<1> QED
  BY <1>6 DEF Kept

----------------------------------------------------------------------------
(* The last string instruction and what it has made of its operands.       *)
StringKept ==
  string = NoString \/
  \E op \in Operations, word \in BOOLEAN, rep \in Prefixes, s \in StringState :
    string = [op |-> op, word |-> word, rep |-> rep, before |-> s,
              after |-> emit_string_op(op, word, rep, s)]

MachineInv == TypeOK /\ LiftedInv /\ FlagsInv /\ StringKept

LEMMA NextKeeps ==
  ASSUME TypeOK, LiftedInv, FlagsInv, Next
  PROVE  TypeOK' /\ LiftedInv' /\ FlagsInv'
BY TypeOKStep, LiftedInvStep, FlagsInvStep

LEMMA ExecuteStringKeeps ==
  ASSUME MachineInv, NEW op \in Operations, NEW word \in BOOLEAN, NEW rep \in Prefixes,
         NEW s \in StringState, s.flags = flags, ExecuteString(op, word, rep, s)
  PROVE  MachineInv'
<1> DEFINE after == emit_string_op(op, word, rep, s)
<1>1. after \in StringState /\ (~Compares(op) => after.flags = flags)
  BY EmitTyped
<1>2. /\ flags' = after.flags
      /\ string' = [op |-> op, word |-> word, rep |-> rep, before |-> s, after |-> after]
      /\ last' = IF Compares(op) THEN Last("none", 0, 0, FALSE) ELSE last
      /\ UNCHANGED lifted
  BY DEF ExecuteString, Compares
<1>3. StringKept'
  BY <1>2 DEF StringKept
<1> HIDE DEF after
<1>4. flags' \in RuntimeFlags
  BY <1>1, <1>2 DEF StringState
<1>5. TypeOK /\ LiftedInv /\ FlagsInv
  BY DEF MachineInv
<1>6. CASE Compares(op)
  <2>1. last' = Last("none", 0, 0, FALSE)
    BY <1>2, <1>6
  <2>2. TypeOK'
    BY <1>2, <1>4, <1>5, <2>1, Widths DEF TypeOK, Last, RuntimeFlags
  <2>3. LiftedInv' /\ FlagsInv'
    BY <2>1 DEF LiftedInv, FlagsInv, Last
  <2> QED
    BY <1>3, <2>2, <2>3 DEF MachineInv
<1>7. CASE ~Compares(op)
  <2>1. flags' = flags /\ last' = last /\ lifted' = lifted
    BY <1>1, <1>2, <1>7
  <2> QED
    BY <1>3, <1>5, <2>1 DEF MachineInv, TypeOK, LiftedInv, FlagsInv
<1> QED
  BY <1>6, <1>7

LEMMA MachineInvStep == MachineInv /\ [EmittedNext]_emitted => MachineInv'
<1> SUFFICES ASSUME MachineInv, [EmittedNext]_emitted PROVE MachineInv'
  OBVIOUS
<1>1. CASE UNCHANGED machine
  BY <1>1 DEF machine, vars, MachineInv, TypeOK, LiftedInv, FlagsInv, StringKept
<1>2. CASE Otherwise
  <2>1. string' = NoString /\ Next
    BY <1>2 DEF Otherwise, Next
  <2> QED
    BY <2>1, NextKeeps DEF MachineInv, StringKept
<1>3. ASSUME NEW op \in Operations, NEW word \in BOOLEAN, NEW rep \in Prefixes, NEW ram \in Rams,
             NEW si \in Offsets, NEW di \in Offsets, NEW count \in Counts, NEW ax \in Elements,
             ExecuteString(op, word, rep, [ram |-> ram, ax |-> ax, cx |-> count, si |-> si, di |-> di,
                                           flags |-> flags])
      PROVE  MachineInv'
  <2> DEFINE s == [ram |-> ram, ax |-> ax, cx |-> count, si |-> si, di |-> di, flags |-> flags]
  <2>1. s \in StringState /\ s.flags = flags
    <3>1. flags \in RuntimeFlags
      BY DEF MachineInv, TypeOK, RuntimeFlags
    <3>2. ram \in Memories
      BY StringsAssumption DEF Memories, WordValues
    <3> QED
      BY <3>1, <3>2, StringsAssumption DEF StringState
  <2> HIDE DEF s
  <2>2. ExecuteString(op, word, rep, s)
    BY <1>3 DEF s
  <2> QED
    BY <2>1, <2>2, ExecuteStringKeeps
<1>4. CASE Execute
  BY <1>2, <1>3, <1>4 DEF Execute, StringsNext
<1>5. CASE load_bytes /\ UNCHANGED <<mem, done, files, memory, machine>>
  BY <1>1, <1>5
<1>6. CASE copy_image \/ relocate_word \/ release
  BY <1>1, <1>6 DEF copy_image, relocate_word, release, Calls
<1>7. ASSUME NEW name \in Names, open(name)
      PROVE  UNCHANGED machine
  BY <1>7 DEF open, Calls
<1>8. ASSUME NEW handle \in DOMAIN opened, close(handle)
      PROVE  UNCHANGED machine
  BY <1>8 DEF close, Calls
<1>9. ASSUME NEW want \in Wants, allocate(want)
      PROVE  UNCHANGED machine
  BY <1>9 DEF allocate, Calls
<1>10. ASSUME NEW b \in DOMAIN blocks, NEW want \in Wants, resize(b, want)
      PROVE  UNCHANGED machine
  BY <1>10 DEF resize, Calls
<1>11. CASE UNCHANGED emitted
  BY <1>1, <1>11 DEF emitted
<1> QED
  BY <1>1, <1>4, <1>5, <1>6, <1>7, <1>8, <1>9, <1>10, <1>11 DEF EmittedNext

LEMMA MachineInvCorrect == EmittedSpec => []MachineInv
<1>1. EmittedInit => MachineInv
  BY TypeOKInit, LiftedInvInit, FlagsInvInit DEF EmittedInit, StringsInit, MachineInv, StringKept
<1> QED
  BY <1>1, MachineInvStep, PTL DEF EmittedSpec

(* The same within the emitted program, string instructions included: the  *)
(* flags lifted from a word CMP or TEST decide every jump.                 *)
THEOREM LiftedDecidesEmitted == EmittedSpec => []LiftedDecides
<1>1. MachineInv => LiftedDecides
  BY LiftedDecidesHolds DEF MachineInv
<1> QED
  BY <1>1, MachineInvCorrect, PTL

(* And the emitted flag word decides the unsigned jumps, whatever string   *)
(* instructions come between.                                              *)
THEOREM UnsignedDecidedEmitted == EmittedSpec => []UnsignedDecided
<1>1. MachineInv => UnsignedDecided
  BY UnsignedDecidedHolds DEF MachineInv
<1> QED
  BY <1>1, MachineInvCorrect, PTL

(* A string instruction of the emitted program leaves memory, registers    *)
(* and flags as the 8086 would, for every count, both directions, every    *)
(* operand and every width of a word, but for the four cases the property  *)
(* names.                                                                  *)
THEOREM StringsExactCorrect == EmittedSpec => []StringsExact
<1>1. StringKept => StringsExact
  <2> SUFFICES ASSUME StringKept, string # NoString,
                      ~ComparesBackward, ~EndsOnDifference, ~EndsOnZeroFlag, ~Straddles
               PROVE  AsOnMachine
    BY DEF StringsExact
  <2>1. PICK op \in Operations, word \in BOOLEAN, rep \in Prefixes, s \in StringState :
          string = [op |-> op, word |-> word, rep |-> rep, before |-> s,
                    after |-> emit_string_op(op, word, rep, s)]
    BY DEF StringKept
  <2> DEFINE after == emit_string_op(op, word, rep, s)
  <2> HIDE DEF after
  <2>2. /\ string.op = op /\ string.word = word /\ string.rep = rep
        /\ string.before = s /\ string.after = after
    BY <2>1 DEF after
  <2> DEFINE N == Handled(op, word, rep, s)
  <2>3. ASSUME NEW k \in 0 .. N - 1
        PROVE  Apart(op, word, s, k)
    <3>1. ~(Compares(op) /\ s.flags.direction)
      BY <2>2 DEF ComparesBackward
    <3>2. word => At(s.si, k, word, s) # WordValues - 1 /\ At(s.di, k, word, s) # WordValues - 1
      <4>1. ASSUME word, NEW index \in {s.si, s.di}
            PROVE  At(index, k, word, s) # WordValues - 1
        <5>1. word = TRUE
          BY <4>1
        <5> QED
          BY <2>2, <4>1, <5>1 DEF Straddles, WordValues
      <4> QED
        BY <4>1
    <3> QED
      BY <3>1, <3>2 DEF Apart
  <2>4. Compares(op) /\ rep = "rep" => N >= s.cx
    <3>1. s.cx \in Nat
      BY StringWidths DEF StringState
    <3>2. ASSUME rep # "none" PROVE N \in Nat
      BY <3>1, <3>2, HandledIs
    <3> QED
      BY <2>2, <3>1, <3>2 DEF EndsOnDifference
  <2>5. ~(~Compares(op) /\ rep = "repne" /\ s.flags.zero)
    BY <2>2 DEF EndsOnZeroFlag
  <2>6. Left(after) = Machine(op, word, rep, s)
    BY <2>3, <2>4, <2>5, StringIsExact DEF after
  <2> QED
    BY <2>2, <2>6 DEF AsOnMachine
<1>2. MachineInv => StringsExact
  BY <1>1 DEF MachineInv
<1> QED
  BY <1>2, MachineInvCorrect, PTL
=============================================================================
