----------------------- MODULE RegisterTranslation_proofs -----------------------
(***************************************************************************)
(* Proofs about the register SSA builder, the translator that fills it and *)
(* what is read off its values: the stack and memory of the translator are *)
(* the machine's, what constant_propagation knows is true of the machine,  *)
(* and dead_value_elimination returns the least set the roots need.        *)
(***************************************************************************)
EXTENDS RegisterTranslation, DeadValues, FiniteSetTheorems, SequenceTheorems, WellFoundedInduction, TLAPS

Word == 0 .. WordSize - 1
Byte == 0 .. ByteSize - 1

(* The sizes of a byte and a word.                                         *)
LEMMA Sizes ==
  /\ ByteSize \in Nat \ {0} /\ ByteSize >= 2 /\ WordSize \in Nat \ {0} /\ WordSize >= 4
  /\ ByteSize <= WordSize
<1>1. ByteSize \in Nat /\ ByteSize >= 2
  BY SizeAssumption
<1>2. ByteSize * ByteSize >= 2 * ByteSize /\ ByteSize * ByteSize \in Nat
  BY <1>1
<1> QED
  BY <1>1, <1>2 DEF WordSize

(* Remainders and quotients.                                               *)
LEMMA ModRange ==
  ASSUME NEW a \in Int, NEW w \in Nat \ {0}
  PROVE  a % w \in 0 .. w - 1
OBVIOUS

(* What is below the divisor stays.                                        *)
LEMMA SmallMod ==
  ASSUME NEW a \in Nat, NEW w \in Nat \ {0}, a < w
  PROVE  a % w = a
OBVIOUS

(* A number is put together again from quotient and remainder.             *)
LEMMA DivMod ==
  ASSUME NEW a \in Int, NEW w \in Nat \ {0}
  PROVE  a \div w \in Int /\ a = (a \div w) * w + (a % w)
OBVIOUS

(* The two bytes of a word.                                                *)
LEMMA SplitWord ==
  ASSUME NEW n \in Word
  PROVE  /\ n % ByteSize \in Byte /\ n \div ByteSize \in Byte
         /\ (n \div ByteSize) * ByteSize + (n % ByteSize) = n
<1> DEFINE b == ByteSize   q == n \div b   r == n % b
<1>1. b \in Nat \ {0} /\ n \in Nat /\ n < b * b
  BY Sizes DEF Word, WordSize
<1>2. q \in Int /\ r \in 0 .. b - 1 /\ n = q * b + r
  BY <1>1, DivMod, ModRange
<1> HIDE DEF b, q, r
<1>3. q >= 0
  <2>1. ASSUME q <= -1 PROVE FALSE
    <3>1. q * b <= -b /\ q * b \in Int
      BY <1>1, <1>2, <2>1
    <3> QED
      BY <1>1, <1>2, <3>1
  <2> QED
    BY <1>2, <2>1
<1>4. q < b
  <2>1. ASSUME q >= b PROVE FALSE
    <3>1. q * b >= b * b /\ q * b \in Int /\ b * b \in Int
      BY <1>1, <1>2, <2>1
    <3> QED
      BY <1>1, <1>2, <3>1
  <2> QED
    BY <1>1, <1>2, <2>1
<1>5. r \in 0 .. b - 1 /\ q \in 0 .. b - 1 /\ q * b + r = n
  BY <1>1, <1>2, <1>3, <1>4
<1> QED
  BY <1>5 DEF q, r, b, Byte

(* The word of two bytes, in either order of adding, or by bit_or.         *)
LEMMA JoinWord ==
  ASSUME NEW low \in Byte, NEW high \in Byte
  PROVE  /\ high * ByteSize + low \in Word /\ low + ByteSize * high \in Word /\ high * ByteSize \in Word
         /\ BitOp("bit_or", high * ByteSize, low) = high * ByteSize + low
<1> DEFINE b == ByteSize
<1>1. b \in Nat /\ low \in 0 .. b - 1 /\ high \in 0 .. b - 1 /\ b >= 2
  BY Sizes DEF Byte
<1>2. BitOp("bit_or", high * ByteSize, low) = high * ByteSize + low
  BY SizeAssumption DEF Byte
<1>3. WordSize = b * b
  BY DEF WordSize
<1> HIDE DEF b
<1>4. high * b <= (b - 1) * b /\ high * b \in Nat /\ (b - 1) * b = b * b - b /\ b * b \in Nat /\ b * high = high * b
  BY <1>1
<1>5. high * b + low \in 0 .. b * b - 1 /\ low + b * high \in 0 .. b * b - 1 /\ high * b \in 0 .. b * b - 1
  BY <1>1, <1>4
<1> QED
  BY <1>2, <1>3, <1>5 DEF b, Word

(* A byte is a word.                                                       *)
LEMMA ByteIsWord == Byte \subseteq Word
  BY Sizes DEF Byte, Word

(* The operations stay inside words.                                       *)
LEMMA OperationIsWord ==
  ASSUME NEW op, NEW a \in Word, NEW b \in Word
  PROVE  compute_operation(op, a, b) \in Word
<1>1. a \in Int /\ b \in Int /\ a + b \in Int /\ a - b \in Int
  BY DEF Word
<1>2. (a + b) % WordSize \in Word /\ (a - b) % WordSize \in Word /\ 0 \in Word
  BY <1>1, ModRange, Sizes DEF Word
<1>3. op \in {"bit_and", "bit_or", "bit_xor"} => BitOp(op, a, b) \in Word
  BY SizeAssumption DEF Word
<1> QED
  BY <1>2, <1>3 DEF compute_operation

(* The places of the registers.                                            *)
LEMMA Order ==
  /\ AllRegisters = {"al", "bl", "ah", "bh", "ax", "bx", "sp", "flags"}
  /\ DOMAIN RegisterOrder = 1 .. 8
  /\ \A i \in 1 .. 8 : RegisterOrder[i] \in AllRegisters /\ entry_state[RegisterOrder[i]] = i
  /\ \A r \in AllRegisters : entry_state[r] \in 1 .. 8 /\ RegisterOrder[entry_state[r]] = r
<1>1. DOMAIN RegisterOrder = 1 .. 8
  BY DEF RegisterOrder
<1>2. \A i, j \in 1 .. 8 : RegisterOrder[i] = RegisterOrder[j] => i = j
  BY DEF RegisterOrder
<1>3. AllRegisters = {"al", "bl", "ah", "bh", "ax", "bx", "sp", "flags"}
  BY DEF AllRegisters, RegisterOrder
<1>4. \A r \in AllRegisters : \E i \in 1 .. 8 : RegisterOrder[i] = r
  BY <1>1 DEF AllRegisters
<1>5. ASSUME NEW r \in AllRegisters
      PROVE  entry_state[r] \in 1 .. 8 /\ RegisterOrder[entry_state[r]] = r
  <2>1. entry_state[r] = CHOOSE i \in DOMAIN RegisterOrder : RegisterOrder[i] = r
    BY DEF entry_state
  <2> QED
    BY <1>1, <1>4, <2>1
<1>6. \A i \in 1 .. 8 : RegisterOrder[i] \in AllRegisters
  BY <1>1 DEF AllRegisters
<1>7. \A i \in 1 .. 8 : entry_state[RegisterOrder[i]] = i
  BY <1>2, <1>5, <1>6
<1> QED
  BY <1>1, <1>3, <1>5, <1>6, <1>7

----------------------------------------------------------------------------
(* A non-empty set of natural numbers has a smallest member.               *)
LEMMA LeastNat ==
  ASSUME NEW S \in SUBSET Nat, S # {}
  PROVE  \E n \in S : \A m \in S : n <= m
<1> DEFINE R == OpToRel(<, Nat)
<1>1. PICK n \in S : \A m \in S : ~ (<<m, n>> \in R)
  <2>1. IsWellFoundedOn(R, Nat)
    BY NatLessThanWellFounded
  <2> HIDE DEF R
  <2> QED
    BY <2>1, WFMin
<1>2. ASSUME NEW m \in S PROVE n <= m
  <2>1. ~(<<m, n>> \in {ss \in Nat \X Nat : ss[1] < ss[2]})
    BY <1>1 DEF OpToRel
  <2>2. <<m, n>>[1] = m /\ <<m, n>>[2] = n /\ <<m, n>> \in Nat \X Nat
    OBVIOUS
  <2> QED
    BY <2>1, <2>2
<1> QED
  BY <1>2

----------------------------------------------------------------------------
(* The tables the builder makes: values refer to earlier ones, an          *)
(* operation has two inputs and a phi one for each arm.                    *)
AllOperations == {"add", "subtract", "bit_and", "bit_or", "bit_xor", "compare", "test"}
ValueRecords ==
  [reg : AllRegisters \cup {"count"}, kind : {"entry", "definition", "operation", "phi"},
   inputs : Seq(Nat), constant : SUBSET Word, operation : SUBSET AllOperations]
WellMade(v, i) ==
  /\ v \in ValueRecords
  /\ \A k \in DOMAIN v.inputs : v.inputs[k] \in 1 .. i - 1
  /\ v.constant = {} \/ \E n \in Word : v.constant = {n}
  /\ v.kind = "operation" => Len(v.inputs) = 2 /\ \E op \in AllOperations : v.operation = {op}
  /\ v.kind = "phi" => Len(v.inputs) = 2
  /\ v.kind \in {"operation", "phi"} \/ v.inputs # <<>> => v.constant = {}
Table(vs) == vs \in Seq(ValueRecords) /\ \A i \in DOMAIN vs : WellMade(vs[i], i)

(* What one value says, from what the earlier ones do, and analyze for any *)
(* table.                                                                  *)
FactOf(f, v) ==
  CASE v.kind = "operation" ->
         { compute_operation(op, a, b) : op \in { o \in v.operation : Folds(o) },
             a \in f[v.inputs[1]], b \in f[v.inputs[2]] }
    [] v.kind = "phi" -> SameOnAllArms([k \in DOMAIN v.inputs |-> f[v.inputs[k]]])
    [] OTHER -> v.constant
FactsOf(vs) == LET facts[i \in DOMAIN vs] == FactOf(facts, vs[i]) IN facts

(* analyze is this function of the builder's table.                        *)
LEMMA AnalyzeIs == analyze = FactsOf(values)
BY DEF analyze, FactsOf, FactOf

(* What a value says depends on the earlier values alone.                  *)
LEMMA FactOfDepends ==
  ASSUME NEW i \in Nat, NEW v, WellMade(v, i), NEW f, NEW g, \A j \in 1 .. i - 1 : f[j] = g[j]
  PROVE  FactOf(f, v) = FactOf(g, v)
<1>1. \A k \in DOMAIN v.inputs : f[v.inputs[k]] = g[v.inputs[k]]
  BY DEF WellMade
<1>2. CASE v.kind = "operation"
  <2>1. DOMAIN v.inputs = 1 .. 2
    BY <1>2 DEF WellMade, ValueRecords
  <2>2. f[v.inputs[1]] = g[v.inputs[1]] /\ f[v.inputs[2]] = g[v.inputs[2]]
    BY <1>1, <2>1
  <2> QED
    BY <1>2, <2>2 DEF FactOf
<1>3. CASE v.kind = "phi"
  <2>1. [k \in DOMAIN v.inputs |-> f[v.inputs[k]]] = [k \in DOMAIN v.inputs |-> g[v.inputs[k]]]
    BY <1>1
  <2>2. v.kind # "operation"
    BY <1>3
  <2> QED
    BY <1>3, <2>1, <2>2 DEF FactOf
<1>4. CASE v.kind \notin {"operation", "phi"}
  BY <1>4 DEF FactOf
<1> QED
  BY <1>2, <1>3, <1>4

(* The recursion defines a function: a shortest beginning of the table for *)
(* which it does not would be one value longer than one for which it does. *)
LEMMA FactsOfIs ==
  ASSUME NEW vs, Table(vs)
  PROVE  /\ FactsOf(vs) = [i \in DOMAIN vs |-> FactOf(FactsOf(vs), vs[i])]
         /\ \A i \in DOMAIN vs : FactsOf(vs)[i] = FactOf(FactsOf(vs), vs[i])
<1> DEFINE L == Len(vs)
           Is(f, m) == f = [i \in 1 .. m |-> FactOf(f, vs[i])]
           Bad == { m \in 0 .. L : ~ \E f : Is(f, m) }
<1>1. L \in Nat /\ DOMAIN vs = 1 .. L
  BY DEF Table
<1>2. \A i \in 1 .. L : WellMade(vs[i], i)
  BY <1>1 DEF Table
<1> HIDE DEF L
<1>3. Bad = {}
  <2> SUFFICES ASSUME Bad # {} PROVE FALSE
    OBVIOUS
  <2>1. Bad \in SUBSET Nat
    BY <1>1
  <2>2. PICK m \in Bad : \A l \in Bad : m <= l
    <3> HIDE DEF Bad
    <3> QED
      BY <2>1, LeastNat
  <2>3. m \in 0 .. L /\ ~ \E f : Is(f, m)
    OBVIOUS
  <2>4. CASE m = 0
    <3> DEFINE f == [k \in 1 .. 0 |-> 0]
    <3>1. Is(f, 0)
      OBVIOUS
    <3> QED
      BY <2>3, <2>4, <3>1
  <2>5. CASE m # 0
    <3>1. m \in Nat /\ m - 1 \in 0 .. L /\ ~(m <= m - 1) /\ m \in 1 .. L
      BY <1>1, <2>3, <2>5
    <3>2. m - 1 \notin Bad
      BY <2>2, <3>1
    <3>3. PICK f : Is(f, m - 1)
      BY <3>1, <3>2
    <3> DEFINE g == [k \in 1 .. m |-> IF k = m THEN FactOf(f, vs[m]) ELSE f[k]]
    <3>4. /\ g = [k \in 1 .. m |-> g[k]] /\ g[m] = FactOf(f, vs[m])
          /\ \A k \in 1 .. m - 1 : g[k] = f[k]
      BY <3>1
    <3> HIDE DEF g
    <3>5. ASSUME NEW k \in 1 .. m PROVE g[k] = FactOf(g, vs[k])
      <4>1. \A j \in 1 .. k - 1 : f[j] = g[j]
        <5>1. \A j \in 1 .. k - 1 : j \in 1 .. m - 1
          BY <3>1
        <5> QED
          BY <3>4, <5>1
      <4>2. k \in Nat /\ WellMade(vs[k], k)
        <5>1. k \in 1 .. L
          BY <1>1, <3>1
        <5> QED
          BY <1>2, <5>1
      <4>3. FactOf(f, vs[k]) = FactOf(g, vs[k])
        BY <4>1, <4>2, FactOfDepends
      <4>4. CASE k = m
        BY <3>4, <4>3, <4>4
      <4>5. CASE k # m
        <5>1. k \in 1 .. m - 1
          BY <3>1, <4>5
        <5>2. f[k] = FactOf(f, vs[k])
          BY <3>3, <5>1
        <5> QED
          BY <3>4, <4>3, <5>1, <5>2
      <4> QED
        BY <4>4, <4>5
    <3>6. Is(g, m)
      BY <3>4, <3>5
    <3> QED
      BY <2>3, <3>6
  <2> QED
    BY <2>4, <2>5
<1>4. L \notin Bad
  BY <1>3
<1>5. \E f : f = [i \in DOMAIN vs |-> FactOf(f, vs[i])]
  BY <1>1, <1>4
<1>6. FactsOf(vs) = CHOOSE f : f = [i \in DOMAIN vs |-> FactOf(f, vs[i])]
  BY DEF FactsOf
<1>7. FactsOf(vs) = [i \in DOMAIN vs |-> FactOf(FactsOf(vs), vs[i])]
  BY <1>5, <1>6
<1> QED
  BY <1>7

(* A longer table says the same of the values it shares.                   *)
LEMMA FactsLonger ==
  ASSUME NEW vs, Table(vs), NEW ws, Table(ws), Len(vs) <= Len(ws), \A i \in 1 .. Len(vs) : ws[i] = vs[i],
         NEW i \in 1 .. Len(vs)
  PROVE  FactsOf(ws)[i] = FactsOf(vs)[i]
<1> DEFINE F == FactsOf(vs)   G == FactsOf(ws)
           Bad == { k \in 1 .. Len(vs) : G[k] # F[k] }
<1>1. /\ Len(vs) \in Nat /\ DOMAIN vs = 1 .. Len(vs) /\ Len(ws) \in Nat /\ DOMAIN ws = 1 .. Len(ws)
      /\ \A k \in 1 .. Len(vs) : WellMade(vs[k], k)
  BY DEF Table
<1>2. \A k \in 1 .. Len(vs) : F[k] = FactOf(F, vs[k])
  BY <1>1, FactsOfIs
<1>3. \A k \in 1 .. Len(ws) : G[k] = FactOf(G, ws[k])
  BY <1>1, FactsOfIs
<1> HIDE DEF F, G
<1>4. Bad = {}
  <2> SUFFICES ASSUME Bad # {} PROVE FALSE
    OBVIOUS
  <2>1. Bad \in SUBSET Nat
    BY <1>1
  <2>2. PICK m \in Bad : \A l \in Bad : m <= l
    <3> HIDE DEF Bad
    <3> QED
      BY <2>1, LeastNat
  <2>3. m \in 1 .. Len(vs) /\ G[m] # F[m] /\ m \in Nat /\ m \in 1 .. Len(ws)
    BY <1>1
  <2>4. ASSUME NEW j \in 1 .. m - 1 PROVE G[j] = F[j]
    <3>1. j \in 1 .. Len(vs) /\ ~(m <= j)
      BY <1>1, <2>3
    <3> QED
      BY <2>2, <3>1
  <2>5. FactOf(G, vs[m]) = FactOf(F, vs[m])
    BY <1>1, <2>3, <2>4, FactOfDepends
  <2> QED
    BY <1>2, <1>3, <2>3, <2>5
<1> QED
  BY <1>4 DEF F, G

----------------------------------------------------------------------------
Named == AllRegisters \ {"flags"}
WordRegisters == {"ax", "bx"}

(* The machine's registers, and what a word register of them holds.        *)
RealOk(re) == re \in [Bytes \cup {"sp"} -> Word] /\ \A b \in Bytes : re[b] \in Byte
RealIn(re, r) == IF r \in Bytes \cup {"sp"} THEN re[r] ELSE re[High(r)] * ByteSize + re[Low(r)]
Stored(re, r, n) ==
  IF r \in Bytes THEN [re EXCEPT ![r] = n % ByteSize]
  ELSE IF r = "sp" THEN [re EXCEPT !["sp"] = n]
  ELSE [re EXCEPT ![High(r)] = n \div ByteSize, ![Low(r)] = n % ByteSize]

ConcreteOk(c) == c \in [Named -> Word] /\ c["ah"] \in Byte /\ c["bh"] \in Byte
StoredConcrete(c, r, n) ==
  IF r \in Bytes
  THEN LET stored == [c EXCEPT ![r] = n % ByteSize]
           w == WordOf(r)
       IN  [stored EXCEPT ![w] = BitOp("bit_or", stored[High(w)] * ByteSize, stored[Low(w)])]
  ELSE [c EXCEPT ![r] = n]
Memories == [Addresses -> Byte]

(* A store keeps the registers bytes and words, and fills the one it is    *)
(* for.                                                                    *)
LEMMA StoredIs ==
  ASSUME NEW re, RealOk(re), NEW r \in Named, NEW n \in Word
  PROVE  /\ RealOk(Stored(re, r, n))
         /\ r \notin Bytes => RealIn(Stored(re, r, n), r) = n
         /\ r \notin Bytes => \A q \in WordRegisters : q # r => RealIn(Stored(re, r, n), q) = RealIn(re, q)
         /\ r # "sp" => Stored(re, r, n)["sp"] = re["sp"]
<1>1. /\ n % ByteSize \in Byte /\ n \div ByteSize \in Byte
      /\ (n \div ByteSize) * ByteSize + (n % ByteSize) = n
  BY SplitWord
<1>2. n % ByteSize \in Word /\ n \div ByteSize \in Word
  BY <1>1, ByteIsWord
<1>3. r \in {"al", "bl", "ah", "bh", "ax", "bx", "sp"}
  BY Order DEF Named
<1>4. CASE r \in Bytes
  BY <1>1, <1>2, <1>4 DEF Stored, RealOk, Bytes
<1>5. CASE r = "sp"
  BY <1>5 DEF Stored, RealOk, Bytes, RealIn, WordRegisters, High, Low
<1>6. CASE r = "ax"
  BY <1>1, <1>2, <1>6 DEF Stored, RealOk, Bytes, RealIn, WordRegisters, High, Low
<1>7. CASE r = "bx"
  BY <1>1, <1>2, <1>7 DEF Stored, RealOk, Bytes, RealIn, WordRegisters, High, Low
<1> QED
  BY <1>3, <1>4, <1>5, <1>6, <1>7 DEF Bytes

(* A register holds a word, or a byte.                                     *)
LEMMA RealIsWord ==
  ASSUME NEW re, RealOk(re), NEW r \in Named
  PROVE  /\ RealIn(re, r) \in Word
         /\ r \in Bytes => RealIn(re, r) \in Byte
<1>1. r \in {"al", "bl", "ah", "bh", "ax", "bx", "sp"}
  BY Order DEF Named
<1>2. CASE r \in Bytes \cup {"sp"}
  BY <1>2 DEF RealIn, RealOk, Bytes
<1>3. CASE r \in {"ax", "bx"}
  <2>1. re[High(r)] \in Byte /\ re[Low(r)] \in Byte
    BY <1>3 DEF RealOk, Bytes, High, Low
  <2>2. RealIn(re, r) = re[High(r)] * ByteSize + re[Low(r)] /\ r \notin Bytes
    BY <1>3 DEF RealIn, Bytes
  <2> QED
    BY <2>1, <2>2, JoinWord
<1> QED
  BY <1>1, <1>2, <1>3 DEF Bytes

(* The same of store_concrete; a low byte need not be a byte here.         *)
LEMMA StoredConcreteIs ==
  ASSUME NEW c, ConcreteOk(c), NEW r \in Named, NEW n \in Word
  PROVE  /\ ConcreteOk(StoredConcrete(c, r, n))
         /\ r \notin Bytes => StoredConcrete(c, r, n)[r] = n
         /\ r \notin Bytes => \A q \in Named : q # r => StoredConcrete(c, r, n)[q] = c[q]
         /\ r # "sp" => StoredConcrete(c, r, n)["sp"] = c["sp"]
<1>1. n % ByteSize \in Byte /\ n % ByteSize \in Word
  BY SplitWord, ByteIsWord
<1>2. r \in {"al", "bl", "ah", "bh", "ax", "bx", "sp"} /\ Named = {"al", "bl", "ah", "bh", "ax", "bx", "sp"}
  BY Order DEF Named
<1>3. CASE r \in Bytes
  <2> DEFINE stored == [c EXCEPT ![r] = n % ByteSize]
             w == WordOf(r)
             m == BitOp("bit_or", stored[High(w)] * ByteSize, stored[Low(w)])
  <2>1. w \in {"ax", "bx"} /\ High(w) \in {"ah", "bh"} /\ Low(w) \in {"al", "bl"}
    BY DEF WordOf, High, Low
  <2>2. stored \in [Named -> Word] /\ stored["ah"] \in Byte /\ stored["bh"] \in Byte /\ stored["sp"] = c["sp"]
    BY <1>1, <1>2, <1>3 DEF ConcreteOk, Bytes
  <2>3. stored[High(w)] \in Byte /\ stored[Low(w)] \in Word
    BY <1>2, <2>1, <2>2
  <2>4. 0 \in Byte
    BY Sizes DEF Byte
  <2>5. stored[High(w)] * ByteSize \in Word
    BY <2>3, <2>4, JoinWord
  <2>6. m \in Word
    BY <2>3, <2>5, SizeAssumption DEF Word
  <2>7. StoredConcrete(c, r, n) = [stored EXCEPT ![w] = m]
    BY <1>3 DEF StoredConcrete
  <2> HIDE DEF stored, m, w
  <2>8. ConcreteOk([stored EXCEPT ![w] = m]) /\ [stored EXCEPT ![w] = m]["sp"] = stored["sp"]
    BY <1>2, <2>1, <2>2, <2>6 DEF ConcreteOk
  <2> QED
    BY <1>3, <2>2, <2>7, <2>8
<1>4. CASE r \notin Bytes
  BY <1>2, <1>4 DEF StoredConcrete, ConcreteOk, Bytes
<1> QED
  BY <1>3, <1>4

(* The memories: what is held of a register's width, and what is written.  *)
LEMMA HeldIsWord ==
  ASSUME NEW r, NEW m \in Memories, NEW a \in Addresses, NEW b \in Addresses
  PROVE  Held(r, m, a, b) \in Word
<1>1. m[a] \in Byte /\ m[b] \in Byte
  BY DEF Memories
<1> QED
  BY <1>1, JoinWord, ByteIsWord DEF Held

(* Writing to a memory gives one.                                          *)
LEMMA WithIsMemory ==
  ASSUME NEW r, NEW m \in Memories, NEW a, NEW b, NEW n \in Word
  PROVE  With(r, m, a, b, n) \in Memories
<1>1. n % ByteSize \in Byte /\ n \div ByteSize \in Byte
  BY SplitWord
<1> QED
  BY <1>1 DEF With, Memories

(* Addresses.                                                              *)
LEMMA AddressIs ==
  ASSUME NEW a \in Word
  PROVE  a \in Addresses /\ a + 1 \in Addresses /\ (a + 1) % WordSize \in Addresses
         /\ (a # WordSize - 1 => (a + 1) % WordSize = a + 1)
<1>1. a \in Nat /\ a < WordSize /\ WordSize \in Nat \ {0}
  BY Sizes DEF Word
<1>2. (a + 1) % WordSize \in 0 .. WordSize - 1
  BY <1>1, ModRange
<1>3. a # WordSize - 1 => (a + 1) % WordSize = a + 1
  BY <1>1, SmallMod
<1> QED
  BY <1>1, <1>2, <1>3 DEF Addresses

(* SP moves inside words.                                                  *)
LEMMA PointersAreWords ==
  ASSUME NEW sp \in Word, NEW size \in Nat
  PROVE  Below(sp) \in Word /\ Above(sp, size) \in Word
<1>1. sp - 2 + WordSize \in Int /\ sp + size \in Int
  BY Sizes DEF Word
<1> QED
  BY <1>1, ModRange, Sizes DEF Below, Above, Word

----------------------------------------------------------------------------
(* A state of the builder names, for each register, a value of it.         *)
StateOk(vs, st) ==
  /\ st \in [AllRegisters -> Nat]
  /\ \A r \in AllRegisters : st[r] \in DOMAIN vs /\ vs[st[r]].reg = r
Longer(vs, ws) ==
  Table(vs) /\ Table(ws) /\ Len(vs) <= Len(ws) /\ \A i \in 1 .. Len(vs) : ws[i] = vs[i]

(* What a table is made of.                                                *)
LEMMA TableFacts ==
  ASSUME NEW vs, Table(vs)
  PROVE  /\ vs \in Seq(ValueRecords) /\ Len(vs) \in Nat /\ DOMAIN vs = 1 .. Len(vs)
         /\ \A i \in DOMAIN vs : /\ WellMade(vs[i], i) /\ vs[i] \in ValueRecords
                                 /\ vs[i].constant \subseteq Word
                                 /\ vs[i].constant = {} \/ \E n \in Word : vs[i].constant = {n}
<1>1. vs \in Seq(ValueRecords) /\ Len(vs) \in Nat /\ DOMAIN vs = 1 .. Len(vs)
  BY DEF Table
<1>2. ASSUME NEW i \in DOMAIN vs
      PROVE  /\ WellMade(vs[i], i) /\ vs[i] \in ValueRecords
             /\ vs[i].constant \subseteq Word
             /\ vs[i].constant = {} \/ \E n \in Word : vs[i].constant = {n}
  BY DEF Table, WellMade
<1> QED
  BY <1>1, <1>2

(* Appending a value well made for its place.                              *)
LEMMA AppendIs ==
  ASSUME NEW vs, Table(vs), NEW v, WellMade(v, Len(vs) + 1), NEW ws, ws = Append(vs, v)
  PROVE  /\ Longer(vs, ws) /\ Table(ws) /\ Len(ws) = Len(vs) + 1 /\ ws[Len(vs) + 1] = v
         /\ Len(vs) \in Nat /\ Len(vs) + 1 \in DOMAIN ws
<1>1. vs \in Seq(ValueRecords) /\ Len(vs) \in Nat /\ DOMAIN vs = 1 .. Len(vs)
  BY TableFacts
<1>2. v \in ValueRecords
  BY DEF WellMade
<1>3. /\ ws \in Seq(ValueRecords) /\ Len(ws) = Len(vs) + 1 /\ ws[Len(vs) + 1] = v
      /\ \A i \in 1 .. Len(vs) : ws[i] = vs[i]
  BY <1>1, <1>2
<1>4. DOMAIN ws = 1 .. Len(vs) + 1
  BY <1>3
<1>5. ASSUME NEW i \in DOMAIN ws PROVE WellMade(ws[i], i)
  <2>1. CASE i \in 1 .. Len(vs)
    BY <1>1, <1>3, <2>1 DEF Table
  <2>2. CASE i = Len(vs) + 1
    BY <1>3, <2>2
  <2> QED
    BY <1>1, <1>4, <2>1, <2>2
<1> QED
  BY <1>1, <1>3, <1>4, <1>5 DEF Table, Longer

(* Longer tables of longer tables.                                         *)
LEMMA LongerTwice ==
  ASSUME NEW vs, NEW ws, NEW xs, Longer(vs, ws), Longer(ws, xs)
  PROVE  Longer(vs, xs)
<1>1. Len(vs) \in Nat /\ Len(ws) \in Nat /\ Len(xs) \in Nat
  BY TableFacts DEF Longer
<1>2. \A i \in 1 .. Len(vs) : i \in 1 .. Len(ws)
  BY <1>1 DEF Longer
<1> QED
  BY <1>1, <1>2 DEF Longer

(* A state of a table is one of a longer table.                            *)
LEMMA StateLonger ==
  ASSUME NEW vs, NEW ws, Longer(vs, ws), NEW st, StateOk(vs, st)
  PROVE  StateOk(ws, st)
<1>1. DOMAIN vs = 1 .. Len(vs) /\ DOMAIN ws = 1 .. Len(ws) /\ Len(vs) \in Nat /\ Len(ws) \in Nat
  BY TableFacts DEF Longer
<1>2. \A i \in DOMAIN vs : i \in DOMAIN ws /\ ws[i] = vs[i]
  BY <1>1 DEF Longer
<1> QED
  BY <1>2 DEF StateOk

(* Defining a register.                                                    *)
LEMMA StateDefines ==
  ASSUME NEW vs, NEW ws, Longer(vs, ws), NEW st, StateOk(vs, st),
         NEW r \in AllRegisters, NEW id \in DOMAIN ws, ws[id].reg = r
  PROVE  StateOk(ws, [st EXCEPT ![r] = id])
<1>1. StateOk(ws, st)
  BY StateLonger
<1>2. id \in Nat
  BY TableFacts DEF Longer
<1> QED
  BY <1>1, <1>2 DEF StateOk

----------------------------------------------------------------------------
(* The types: of the builder's table and states, ...                       *)
BuilderInv ==
  Table(values) /\ StateOk(values, state) /\ StateOk(values, fork.state) /\ StateOk(values, other.state)

(* ... and of both machines.                                               *)
MachineInv ==
  /\ RealOk(real) /\ RealOk(fork.real) /\ RealOk(other.real) /\ ConcreteOk(concrete)
  /\ memory \in Memories /\ ram \in Memories /\ exact \in BOOLEAN
  /\ path \in {"straight", "first", "second", "joined"}

TypesInv == BuilderInv /\ MachineInv

(* The operators of the model, of the present registers.                   *)
LEMMA RealIs ==
  /\ \A r \in Named : RealValue(r) = RealIn(real, r)
  /\ \A r, n : RealStore(r, n) <=> real' = Stored(real, r, n)
  /\ \A r, n : store_concrete(r, n) = StoredConcrete(concrete, r, n)
  /\ \A r \in Named : RealValue(r)' = RealIn(real', r)
BY DEF RealValue, RealIn, RealStore, Stored, store_concrete, StoredConcrete

(* The types hold in the beginning.                                        *)
LEMMA StartingTypes == Init => TypesInv
<1> SUFFICES ASSUME Init PROVE TypesInv
  OBVIOUS
<1>1. /\ values = EntryValues /\ state = entry_state
      /\ \E b \in [Bytes -> EntryBytes] : real = EntryRegisters(b)
      /\ concrete \in {Unknown, [r \in Named |-> RealValue(r)]}
      /\ memory = [a \in Addresses |-> 0] /\ ram = memory /\ exact = TRUE
      /\ path = "straight"
      /\ fork = [state |-> state, real |-> real] /\ other = fork
  BY DEF Init, Named
<1>2. fork.state = state /\ other.state = state /\ fork.real = real /\ other.real = real
  BY <1>1
<1>3. Table(values) /\ Len(values) = 8 /\ \A i \in 1 .. 8 : values[i].reg = RegisterOrder[i]
  <2>1. values = [i \in 1 .. 8 |-> Value(RegisterOrder[i], "entry", <<>>, {}, {})]
    BY <1>1, Order DEF EntryValues
  <2>2. \A i \in 1 .. 8 : WellMade(Value(RegisterOrder[i], "entry", <<>>, {}, {}), i)
    BY Order DEF WellMade, Value, ValueRecords
  <2>3. values \in Seq(ValueRecords) /\ Len(values) = 8
    <3>1. \A i \in 1 .. 8 : Value(RegisterOrder[i], "entry", <<>>, {}, {}) \in ValueRecords
      BY <2>2 DEF WellMade
    <3>2. 8 \in Nat
      OBVIOUS
    <3> QED
      BY <2>1, <3>1, <3>2
  <2>4. DOMAIN values = 1 .. 8
    BY <2>1
  <2>5. \A i \in 1 .. 8 : values[i].reg = RegisterOrder[i]
    BY <2>1 DEF Value
  <2> QED
    BY <2>1, <2>2, <2>3, <2>4, <2>5 DEF Table
<1>4. StateOk(values, state)
  <2>1. DOMAIN values = 1 .. 8
    BY <1>3, TableFacts
  <2>2. state \in [AllRegisters -> Nat]
    <3>1. entry_state = [r \in AllRegisters |-> entry_state[r]]
      BY DEF entry_state
    <3>2. \A r \in AllRegisters : entry_state[r] \in Nat
      BY Order
    <3> QED
      BY <1>1, <3>1, <3>2
  <2> QED
    BY <1>1, <1>3, <2>1, <2>2, Order DEF StateOk
<1>5. RealOk(real)
  <2>1. PICK b \in [Bytes -> EntryBytes] : real = EntryRegisters(b)
    BY <1>1
  <2>2. \A c \in Bytes : b[c] \in Byte /\ b[c] \in Word
    BY OperandsAssumption, ByteIsWord DEF Byte
  <2>3. EntrySP \in Word
    BY Sizes DEF EntrySP, Word
  <2> QED
    BY <2>1, <2>2, <2>3 DEF EntryRegisters, RealOk, Bytes
<1>6. ConcreteOk(concrete)
  <2>1. EntrySP \in Word /\ 0 \in Word /\ 0 \in Byte
    BY Sizes DEF EntrySP, Word, Byte
  <2>2. {"ah", "bh"} \subseteq Named /\ {"ah", "bh"} \subseteq Bytes
    BY Order DEF Named, Bytes
  <2>3. CASE concrete = Unknown
    BY <2>1, <2>2, <2>3 DEF Unknown, ConcreteOk, Named
  <2>4. CASE concrete = [r \in Named |-> RealValue(r)]
    <3>1. concrete = [r \in Named |-> RealIn(real, r)]
      BY <2>4, RealIs
    <3>2. \A r \in Named : RealIn(real, r) \in Word /\ (r \in Bytes => RealIn(real, r) \in Byte)
      BY <1>5, RealIsWord
    <3> QED
      BY <2>2, <3>1, <3>2 DEF ConcreteOk
  <2> QED
    BY <1>1, <2>3, <2>4
<1>7. memory \in Memories /\ ram \in Memories
  <2>1. 0 \in Byte
    BY Sizes DEF Byte
  <2> QED
    BY <1>1, <2>1 DEF Memories
<1> QED
  BY <1>1, <1>2, <1>3, <1>4, <1>5, <1>6, <1>7 DEF TypesInv, BuilderInv, MachineInv

(* What the typing invariant says, for the steps.                          *)
LEMMA TypesFacts ==
  ASSUME TypesInv
  PROVE  /\ Table(values) /\ Len(values) \in Nat /\ DOMAIN values = 1 .. Len(values)
         /\ Longer(values, values)
         /\ \A r \in AllRegisters : state[r] \in 1 .. Len(values)
         /\ \A r \in Named : concrete[r] \in Word /\ RealValue(r) \in Word
         /\ \A r \in AllRegisters : values[state[r]].constant \subseteq Word
         /\ Registers \subseteq Named /\ Immediates \subseteq Word /\ "sp" \in Named
         /\ Registers \subseteq AllRegisters
         /\ \A r \in AllRegisters : Immediate(r) \subseteq Word
<1>1. Table(values) /\ StateOk(values, state) /\ RealOk(real) /\ ConcreteOk(concrete)
  BY DEF TypesInv, BuilderInv, MachineInv
<1>2. Len(values) \in Nat /\ DOMAIN values = 1 .. Len(values)
  BY <1>1, TableFacts
<1>3. \A r \in AllRegisters : state[r] \in DOMAIN values
  BY <1>1 DEF StateOk
<1>4. \A r \in AllRegisters : values[state[r]].constant \subseteq Word
  BY <1>1, <1>3, TableFacts
<1>5. \A r \in Named : RealValue(r) \in Word
  BY <1>1, RealIs, RealIsWord
<1>6. Registers \subseteq Named /\ Immediates \subseteq Word /\ "sp" \in Named /\ Registers \subseteq AllRegisters
  BY OperandsAssumption, Order DEF Named, Word
<1>7. Longer(values, values)
  BY <1>1, <1>2 DEF Longer
<1>8. \A r \in Named : concrete[r] \in Word
  BY <1>1 DEF ConcreteOk
<1>9. \A r \in AllRegisters : Immediate(r) \subseteq Word
  BY <1>6 DEF Immediate
<1> QED
  BY <1>1, <1>2, <1>3, <1>4, <1>5, <1>6, <1>7, <1>8, <1>9

(* A definition after a longer table than the present one.                 *)
Defines(vs, r, v) ==
  /\ Longer(values, vs) /\ WellMade(v, Len(vs) + 1) /\ v.reg = r /\ r \in AllRegisters
  /\ values' = Append(vs, v) /\ state' = [state EXCEPT ![r] = Len(vs) + 1]

(* A definition keeps the builder's types.                                 *)
LEMMA DefinesBuilder ==
  ASSUME TypesInv, NEW vs, NEW r, NEW v, Defines(vs, r, v), UNCHANGED <<fork, other>>
  PROVE  BuilderInv' /\ Longer(values, values')
<1>1. Table(vs) /\ Longer(values, vs)
  BY DEF Defines, Longer
<1>2. /\ Longer(vs, values') /\ Table(values') /\ values'[Len(vs) + 1] = v
      /\ Len(vs) + 1 \in DOMAIN values'
  BY <1>1, AppendIs DEF Defines
<1>3. Longer(values, values')
  BY <1>1, <1>2, LongerTwice
<1>4. StateOk(values', state')
  BY <1>2, <1>3, StateDefines DEF Defines, TypesInv, BuilderInv
<1>5. StateOk(values', fork.state) /\ StateOk(values', other.state)
  BY <1>3, StateLonger DEF TypesInv, BuilderInv
<1> QED
  BY <1>2, <1>3, <1>4, <1>5 DEF BuilderInv

(* The values made.                                                        *)
LEMMA Constant ==
  ASSUME NEW i \in Nat, NEW r \in AllRegisters, NEW n \in Word
  PROVE  WellMade(Value(r, "definition", <<>>, {n}, {}), i) /\ Value(r, "definition", <<>>, {n}, {}).reg = r
BY DEF WellMade, Value, ValueRecords

(* A copy, ...                                                             *)
LEMMA Copy ==
  ASSUME NEW i \in Nat, NEW r \in AllRegisters, NEW id \in 1 .. i - 1
  PROVE  WellMade(Value(r, "definition", <<id>>, {}, {}), i) /\ Value(r, "definition", <<id>>, {}, {}).reg = r
BY DEF WellMade, Value, ValueRecords

(* ... an operation ...                                                    *)
LEMMA Operation ==
  ASSUME NEW i \in Nat, NEW r \in AllRegisters, NEW a \in 1 .. i - 1, NEW b \in 1 .. i - 1, NEW op \in AllOperations
  PROVE  WellMade(Value(r, "operation", <<a, b>>, {}, {op}), i) /\ Value(r, "operation", <<a, b>>, {}, {op}).reg = r
BY DEF WellMade, Value, ValueRecords

(* ... and a phi.                                                          *)
LEMMA Phi ==
  ASSUME NEW i \in Nat, NEW r \in AllRegisters, NEW a \in 1 .. i - 1, NEW b \in 1 .. i - 1
  PROVE  WellMade(Value(r, "phi", <<a, b>>, {}, {}), i) /\ Value(r, "phi", <<a, b>>, {}, {}).reg = r
BY DEF WellMade, Value, ValueRecords

(* What is known of a result is one value or none.                         *)
LEMMA KnownIs ==
  ASSUME NEW op \in AllOperations, NEW vs, Table(vs), NEW a \in DOMAIN vs, NEW b \in DOMAIN vs
  PROVE  /\ KnownResult(op, vs, a, b) \subseteq Word
         /\ \A n, m \in KnownResult(op, vs, a, b) : n = m
<1>1. /\ vs[a].constant \subseteq Word /\ vs[b].constant \subseteq Word
      /\ vs[a].constant = {} \/ \E n \in Word : vs[a].constant = {n}
      /\ vs[b].constant = {} \/ \E n \in Word : vs[b].constant = {n}
  BY TableFacts
<1> QED
  BY <1>1, OperationIsWord DEF KnownResult

----------------------------------------------------------------------------
(* An instruction on registers: it defines one of them, or the flags.      *)
Computes(vs, r, v, known, n) ==
  /\ Defines(vs, r, v)
  /\ IF r = "flags" THEN UNCHANGED <<concrete, real>>
     ELSE /\ r \in Registers /\ n \in Word /\ known \subseteq Word
          /\ StoreConcrete(r, known) /\ real' = Stored(real, r, n)
  /\ UNCHANGED <<memories, path, fork, other>>
RegisterInstruction ==
  \E vs, r, v, known, n : Computes(vs, r, v, known, n)

(* Each of the four instructions on registers is one of these.             *)
LEMMA MoveImmediateIs ==
  ASSUME TypesInv, MoveImmediate
  PROVE  \E r \in Registers : \E n \in Word :
           Computes(values, r, Value(r, "definition", <<>>, {n}, {}), {n}, n)
<1>1. PICK r \in Registers : \E n \in Immediate(r) :
       /\ Define(r, Value(r, "definition", <<>>, {n}, {}))
       /\ StoreConcrete(r, {n})
       /\ RealStore(r, n)
  BY DEF MoveImmediate
<1>2. PICK n \in Immediate(r) :
       /\ Define(r, Value(r, "definition", <<>>, {n}, {}))
       /\ StoreConcrete(r, {n})
       /\ RealStore(r, n)
  BY <1>1
<1>3. n \in Word /\ r \in AllRegisters /\ r # "flags"
  BY TypesFacts DEF Named
<1>4. Defines(values, r, Value(r, "definition", <<>>, {n}, {}))
  BY <1>2, <1>3, TypesFacts, Constant DEF Define, NextId, Defines
<1>5. UNCHANGED <<memories, path, fork, other>>
  BY DEF MoveImmediate, OnRegisters, Translating
<1>6. real' = Stored(real, r, n) /\ {n} \subseteq Word
  BY <1>2, <1>3, RealIs
<1> QED
  BY <1>2, <1>3, <1>4, <1>5, <1>6 DEF Computes

(* MOV of a register copies the value.                                     *)
LEMMA MoveRegisterIs ==
  ASSUME TypesInv, MoveRegister
  PROVE  \E r \in Registers : \E s \in Registers :
           /\ SameWidth(r, s)
           /\ Computes(values, r, Value(r, "definition", <<state[s]>>, {}, {}),
                       values[state[s]].constant, RealValue(s))
<1>1. PICK r \in Registers : \E s \in Registers :
       /\ SameWidth(r, s)
       /\ Define(r, Value(r, "definition", <<state[s]>>, {}, {}))
       /\ StoreConcrete(r, values[state[s]].constant)
       /\ RealStore(r, RealValue(s))
  BY DEF MoveRegister
<1>2. PICK s \in Registers :
       /\ SameWidth(r, s)
       /\ Define(r, Value(r, "definition", <<state[s]>>, {}, {}))
       /\ StoreConcrete(r, values[state[s]].constant)
       /\ RealStore(r, RealValue(s))
  BY <1>1
<1>3. /\ r \in AllRegisters /\ r # "flags" /\ s \in AllRegisters /\ RealValue(s) \in Word
      /\ values[state[s]].constant \subseteq Word /\ state[s] \in 1 .. Len(values)
      /\ Len(values) + 1 - 1 = Len(values) /\ Len(values) + 1 \in Nat
  BY TypesFacts DEF Named
<1>4. Defines(values, r, Value(r, "definition", <<state[s]>>, {}, {}))
  <2>1. /\ WellMade(Value(r, "definition", <<state[s]>>, {}, {}), Len(values) + 1)
        /\ Value(r, "definition", <<state[s]>>, {}, {}).reg = r
    BY <1>3, Copy
  <2> QED
    BY <1>2, <1>3, <2>1, TypesFacts DEF Define, NextId, Defines
<1>5. UNCHANGED <<memories, path, fork, other>>
  BY DEF MoveRegister, OnRegisters, Translating
<1>6. real' = Stored(real, r, RealValue(s))
  BY <1>2, <1>3, RealIs
<1> QED
  BY <1>2, <1>3, <1>4, <1>5, <1>6 DEF Computes

(* An operation, whatever table it is appended to.                         *)
LEMMA OperateIs ==
  ASSUME TypesInv, UNCHANGED <<memories, path, fork, other>>, NEW r \in Registers, NEW op \in Operations, NEW vs, Longer(values, vs),
         NEW a \in DOMAIN vs, NEW b \in DOMAIN vs, NEW n \in Word, Operate(r, op, vs, a, b, n)
  PROVE  Computes(vs, ResultRegister(r, op), Value(ResultRegister(r, op), "operation", <<a, b>>, {}, {op}),
                  KnownResult(op, vs, a, b), compute_operation(op, RealValue(r), n))
<1>1. op \in AllOperations /\ r \in Named /\ r \in AllRegisters /\ RealValue(r) \in Word
  BY OperandsAssumption, TypesFacts DEF AllOperations
<1>2. Table(vs) /\ Len(vs) \in Nat /\ DOMAIN vs = 1 .. Len(vs) /\ Len(vs) + 1 - 1 = Len(vs) /\ Len(vs) + 1 \in Nat
  BY TableFacts DEF Longer
<1>3. ResultRegister(r, op) \in AllRegisters
  BY <1>1, Order DEF ResultRegister
<1>4. compute_operation(op, RealValue(r), n) \in Word
  BY <1>1, OperationIsWord
<1>5. KnownResult(op, vs, a, b) \subseteq Word
  BY <1>1, <1>2, KnownIs
<1>6. Defines(vs, ResultRegister(r, op), Value(ResultRegister(r, op), "operation", <<a, b>>, {}, {op}))
  <2> DEFINE v == Value(ResultRegister(r, op), "operation", <<a, b>>, {}, {op})
  <2>1. WellMade(v, Len(vs) + 1) /\ v.reg = ResultRegister(r, op)
    BY <1>1, <1>2, <1>3, Operation
  <2> QED
    BY <1>3, <2>1 DEF Operate, Defines
<1>7. ResultRegister(r, op) = "flags" <=> ~Folds(op)
  BY <1>1 DEF ResultRegister, Named
<1>8. Folds(op) => ResultRegister(r, op) = r
  BY DEF ResultRegister
<1>9. IF ResultRegister(r, op) = "flags" THEN UNCHANGED <<concrete, real>>
      ELSE /\ StoreConcrete(ResultRegister(r, op), KnownResult(op, vs, a, b))
           /\ real' = Stored(real, r, compute_operation(op, RealValue(r), n))
  BY <1>1, <1>7, RealIs DEF Operate
<1> QED
  BY <1>1, <1>4, <1>5, <1>6, <1>7, <1>8, <1>9 DEF Computes

(* The immediate is a value of its own, the last before the operation.     *)
LEMMA ArithmeticImmediateIs ==
  ASSUME TypesInv, ArithmeticImmediate
  PROVE  \E r \in Registers : \E op \in Operations : \E n \in Word : \E vs :
           /\ Longer(values, vs) /\ vs[Len(values) + 1] = Value(r, "definition", <<>>, {n}, {})
           /\ Len(values) + 1 \in DOMAIN vs
           /\ Computes(vs, ResultRegister(r, op),
                       Value(ResultRegister(r, op), "operation", <<state[r], Len(values) + 1>>, {}, {op}),
                       KnownResult(op, vs, state[r], Len(values) + 1), compute_operation(op, RealValue(r), n))
<1>1. PICK r \in Registers, op \in Operations : \E n \in Immediate(r) :
        Operate(r, op, Append(values, Value(r, "definition", <<>>, {n}, {})), state[r], NextId, n)
  BY DEF ArithmeticImmediate
<1>2. PICK n \in Immediate(r) :
        Operate(r, op, Append(values, Value(r, "definition", <<>>, {n}, {})), state[r], NextId, n)
  BY <1>1
<1> DEFINE vs == Append(values, Value(r, "definition", <<>>, {n}, {}))
<1>3. r \in AllRegisters /\ n \in Word /\ Table(values) /\ Len(values) \in Nat /\ state[r] \in 1 .. Len(values)
  BY TypesFacts
<1>4. WellMade(Value(r, "definition", <<>>, {n}, {}), Len(values) + 1)
  BY <1>3, Constant
<1>5. /\ Longer(values, vs) /\ Table(vs) /\ Len(vs) = Len(values) + 1
      /\ vs[Len(values) + 1] = Value(r, "definition", <<>>, {n}, {}) /\ Len(values) + 1 \in DOMAIN vs
  BY <1>3, <1>4, AppendIs
<1>6. Operate(r, op, vs, state[r], Len(values) + 1, n)
  BY <1>2 DEF NextId
<1> HIDE DEF vs
<1>7. state[r] \in DOMAIN vs
  BY <1>3, <1>5, TableFacts
<1>8. UNCHANGED <<memories, path, fork, other>>
  BY DEF ArithmeticImmediate, OnRegisters, Translating
<1>9. Computes(vs, ResultRegister(r, op),
                       Value(ResultRegister(r, op), "operation", <<state[r], Len(values) + 1>>, {}, {op}),
                       KnownResult(op, vs, state[r], Len(values) + 1), compute_operation(op, RealValue(r), n))
  BY <1>3, <1>5, <1>6, <1>7, <1>8, OperateIs
<1> QED
  BY <1>3, <1>5, <1>9

(* An operation on two registers.                                          *)
LEMMA ArithmeticRegisterIs ==
  ASSUME TypesInv, ArithmeticRegister
  PROVE  \E r \in Registers : \E s \in Registers : \E op \in Operations :
           Computes(values, ResultRegister(r, op),
                    Value(ResultRegister(r, op), "operation", <<state[r], state[s]>>, {}, {op}),
                    KnownResult(op, values, state[r], state[s]),
                    compute_operation(op, RealValue(r), RealValue(s)))
<1>1. PICK r \in Registers, s \in Registers, op \in Operations :
        Operate(r, op, values, state[r], state[s], RealValue(s))
  BY DEF ArithmeticRegister
<1>2. state[r] \in DOMAIN values /\ state[s] \in DOMAIN values /\ Longer(values, values) /\ RealValue(s) \in Word
  BY TypesFacts
<1>3. UNCHANGED <<memories, path, fork, other>>
  BY DEF ArithmeticRegister, OnRegisters, Translating
<1>4. Computes(values, ResultRegister(r, op),
                    Value(ResultRegister(r, op), "operation", <<state[r], state[s]>>, {}, {op}),
                    KnownResult(op, values, state[r], state[s]),
                    compute_operation(op, RealValue(r), RealValue(s)))
  BY <1>1, <1>2, <1>3, OperateIs
<1> QED
  BY <1>4

(* All four.                                                               *)
LEMMA RegisterInstructionIs ==
  ASSUME TypesInv, MoveImmediate \/ MoveRegister \/ ArithmeticImmediate \/ ArithmeticRegister
  PROVE  RegisterInstruction
<1>1. CASE MoveImmediate
  BY <1>1, MoveImmediateIs DEF RegisterInstruction
<1>2. CASE MoveRegister
  BY <1>2, MoveRegisterIs DEF RegisterInstruction
<1>3. CASE ArithmeticImmediate
  BY <1>3, ArithmeticImmediateIs DEF RegisterInstruction
<1>4. CASE ArithmeticRegister
  BY <1>4, ArithmeticRegisterIs DEF RegisterInstruction
<1> QED
  BY <1>1, <1>2, <1>3, <1>4

(* What the concrete registers and those of the machine may become.        *)
LEMMA ComputesStores ==
  ASSUME TypesInv, NEW vs, NEW r, NEW v, NEW known, NEW n, Computes(vs, r, v, known, n), r # "flags"
  PROVE  /\ r \in Registers /\ r \in Named /\ n \in Word /\ real' = Stored(real, r, n)
         /\ \/ concrete' = concrete /\ (path # "straight" \/ known = {})
            \/ \E m \in known : m \in Word /\ concrete' = StoredConcrete(concrete, r, m)
<1>1. /\ r \in Registers /\ n \in Word /\ known \subseteq Word
      /\ StoreConcrete(r, known) /\ real' = Stored(real, r, n)
  BY DEF Computes
<1>2. r \in Named
  BY <1>1, TypesFacts
<1>3. CASE path = "straight" /\ known # {}
  <2>1. (CHOOSE n_1 \in known : TRUE) \in known
    BY <1>3
  <2> QED
    BY <1>1, <1>2, <1>3, <2>1, RealIs DEF StoreConcrete
<1>4. CASE ~(path = "straight" /\ known # {})
  BY <1>1, <1>2, <1>4 DEF StoreConcrete
<1> QED
  BY <1>3, <1>4

(* They keep the types, and leave SP alone unless they name it.            *)
LEMMA ComputesTypes ==
  ASSUME TypesInv, RegisterInstruction
  PROVE  TypesInv' /\ ("sp" \notin Registers => concrete'["sp"] = concrete["sp"] /\ real'["sp"] = real["sp"])
<1>1. PICK vs, r, v, known, n : Computes(vs, r, v, known, n)
  BY DEF RegisterInstruction
<1>2. BuilderInv'
  BY <1>1, DefinesBuilder DEF Computes
<1>3. UNCHANGED <<memory, ram, exact, path, fork, other>>
  BY <1>1 DEF Computes, memories
<1>4. RealOk(real) /\ ConcreteOk(concrete)
  BY DEF TypesInv, MachineInv
<1>5. /\ RealOk(real') /\ ConcreteOk(concrete')
      /\ "sp" \notin Registers => concrete'["sp"] = concrete["sp"] /\ real'["sp"] = real["sp"]
  <2>1. CASE r = "flags"
    BY <1>1, <1>4, <2>1 DEF Computes
  <2>2. CASE r # "flags"
    <3>1. /\ r \in Registers /\ r \in Named /\ n \in Word /\ real' = Stored(real, r, n)
          /\ concrete' = concrete \/ \E m \in Word : concrete' = StoredConcrete(concrete, r, m)
      BY <1>1, <2>2, ComputesStores
    <3>2. RealOk(Stored(real, r, n)) /\ (r # "sp" => Stored(real, r, n)["sp"] = real["sp"])
      BY <1>4, <3>1, StoredIs
    <3>3. \A m \in Word : /\ ConcreteOk(StoredConcrete(concrete, r, m))
                          /\ r # "sp" => StoredConcrete(concrete, r, m)["sp"] = concrete["sp"]
      BY <1>4, <3>1, StoredConcreteIs
    <3> QED
      BY <1>4, <3>1, <3>2, <3>3
  <2> QED
    BY <2>1, <2>2
<1> QED
  BY <1>2, <1>3, <1>5 DEF TypesInv, MachineInv

----------------------------------------------------------------------------
(* Effective addresses are words, and agree where BX does.                 *)
LEMMA AddressesAre ==
  ASSUME TypesInv, NEW names \in SUBSET {"bx"}, NEW disp \in Immediates
  PROVE  /\ effective_address(names, disp) \in Word /\ RealAddress(names, disp) \in Word
         /\ Agree(names) => RealAddress(names, disp) = effective_address(names, disp)
<1>1. disp \in Int /\ concrete["bx"] \in Int /\ RealValue("bx") \in Int
  <2>1. "bx" \in Named
    BY Order DEF Named
  <2> QED
    BY <2>1, TypesFacts DEF Word
<1>2. Agree(names) => ("bx" \in names => concrete["bx"] = RealValue("bx"))
  BY DEF Agree
<1> DEFINE c == IF "bx" \in names THEN concrete["bx"] ELSE 0
           m == IF "bx" \in names THEN RealValue("bx") ELSE 0
<1>3. effective_address(names, disp) = (disp + c) % WordSize /\ RealAddress(names, disp) = (disp + m) % WordSize
  BY DEF effective_address, RealAddress
<1>4. disp + c \in Int /\ disp + m \in Int /\ (Agree(names) => c = m)
  BY <1>1, <1>2
<1> HIDE DEF c, m
<1>5. (disp + c) % WordSize \in Word /\ (disp + m) % WordSize \in Word
  BY <1>4, ModRange, Sizes DEF Word
<1> QED
  BY <1>3, <1>4, <1>5

(* A word that does not lie across the end of the segment is where both    *)
(* machines take it to be.                                                 *)
LEMMA SameAccess ==
  ASSUME NEW r, NEW m, NEW a \in Word, r \in Bytes \/ a # WordSize - 1
  PROVE  /\ \A n : With(r, m, a, (a + 1) % WordSize, n) = With(r, m, a, a + 1, n)
         /\ Held(r, m, a, (a + 1) % WordSize) = Held(r, m, a, a + 1)
BY AddressIs DEF With, Held

(* An instruction that fills a register, and SP, from the memories.        *)
LEMMA LoadIs ==
  ASSUME TypesInv, LoadFromMemory
  PROVE  \E r \in Registers : \E n, m \in Word :
           /\ concrete' = StoredConcrete(concrete, r, n) /\ real' = Stored(real, r, m)
           /\ Defines(values, r, Value(r, "definition", <<>>, {n}, {}))
           /\ exact' => exact /\ (memory = ram => n = m)
           /\ exact' \in BOOLEAN
           /\ UNCHANGED <<memory, ram, path, fork, other>>
<1>1. PICK r \in Registers, names \in SUBSET {"bx"}, disp \in Immediates :
       LET a == effective_address(names, disp)
           n == Read(r, a)
       IN  /\ concrete' = store_concrete(r, n)
           /\ Define(r, Value(r, "definition", <<>>, {n}, {}))
           /\ Takes(names, r, a)
           /\ RealStore(r, RealRead(r, RealAddress(names, disp)))
  BY DEF LoadFromMemory
<1> DEFINE a == effective_address(names, disp)
           b == RealAddress(names, disp)
           n == Read(r, a)
           m == RealRead(r, b)
<1>2. a \in Word /\ b \in Word /\ (Agree(names) => b = a)
  BY AddressesAre
<1>3. memory \in Memories /\ ram \in Memories /\ exact \in BOOLEAN
  BY DEF TypesInv, MachineInv
<1> HIDE DEF a, b
<1>4. n \in Word /\ m \in Word
  BY <1>2, <1>3, AddressIs, HeldIsWord DEF Read, RealRead
<1>5. exact' => exact /\ Agree(names) /\ (r \in Bytes \/ a # WordSize - 1)
  BY <1>1 DEF Takes, a
<1>6. exact' => (memory = ram => n = m)
  BY <1>2, <1>5, SameAccess DEF Read, RealRead
<1>7. concrete' = store_concrete(r, n) /\ Define(r, Value(r, "definition", <<>>, {n}, {})) /\ RealStore(r, m)
  BY <1>1 DEF a, b
<1> HIDE DEF n, m
<1>8. concrete' = StoredConcrete(concrete, r, n) /\ real' = Stored(real, r, m)
  BY <1>7, RealIs
<1>9. Defines(values, r, Value(r, "definition", <<>>, {n}, {}))
  BY <1>4, <1>7, TypesFacts, Constant DEF Define, NextId, Defines
<1>10. UNCHANGED <<memory, ram, path, fork, other>>
  BY DEF LoadFromMemory, OnMemory, Translating
<1>11. exact' \in BOOLEAN
  BY <1>1 DEF Takes
<1> QED
  BY <1>4, <1>5, <1>6, <1>8, <1>9, <1>10, <1>11

(* A store changes the memories, and the concrete state behind the array.  *)
LEMMA StoreIs ==
  ASSUME TypesInv, StoreToMemory
  PROVE  /\ values' = Append(values, Value("count", "definition", <<>>, {}, {}))
         /\ concrete' \in {concrete, Overrun} /\ UNCHANGED <<state, real, path, fork, other>>
         /\ memory' \in Memories /\ ram' \in Memories
         /\ exact' => exact /\ (memory = ram => memory' = ram')
         /\ exact' \in BOOLEAN /\ path = "straight"
<1>1. PICK r \in Registers, names \in SUBSET {"bx"}, disp \in Immediates :
       LET a == effective_address(names, disp)
       IN  \/ Store(r, names, disp, concrete[r], RealValue(r)) /\ Takes(names \cup {r}, r, a)
           \/ (\E n \in Immediate(r) : Store(r, names, disp, n, n)) /\ Takes(names, r, a)
  BY DEF StoreToMemory
<1> DEFINE a == effective_address(names, disp)
           b == RealAddress(names, disp)
<1>2. a \in Word /\ b \in Word /\ (Agree(names) => b = a)
  BY AddressesAre
<1>3. memory \in Memories /\ ram \in Memories /\ exact \in BOOLEAN
  BY DEF TypesInv, MachineInv
<1>4. concrete[r] \in Word /\ RealValue(r) \in Word /\ r \in Named
  BY TypesFacts
<1>5. Agree(names \cup {r}) => Agree(names) /\ concrete[r] = RealValue(r)
  BY DEF Agree
<1>6. \E n, m \in Word :
        /\ Store(r, names, disp, n, m)
        /\ exact' => exact /\ Agree(names) /\ n = m /\ (r \in Bytes \/ a # WordSize - 1)
        /\ exact' \in BOOLEAN
  <2>1. CASE Store(r, names, disp, concrete[r], RealValue(r)) /\ Takes(names \cup {r}, r, a)
    BY <1>4, <1>5, <2>1 DEF Takes
  <2>2. CASE (\E n \in Immediate(r) : Store(r, names, disp, n, n)) /\ Takes(names, r, a)
    <3>1. PICK n \in Immediate(r) : Store(r, names, disp, n, n)
      BY <2>2
    <3>2. n \in Word
      BY TypesFacts
    <3> QED
      BY <2>2, <3>1, <3>2 DEF Takes
  <2> QED
    BY <1>1, <2>1, <2>2
<1>7. PICK n \in Word, m \in Word :
        /\ Store(r, names, disp, n, m)
        /\ exact' => exact /\ Agree(names) /\ n = m /\ (r \in Bytes \/ a # WordSize - 1)
        /\ exact' \in BOOLEAN
  BY <1>6
<1>8. memory' = With(r, memory, a, a + 1, n) /\ ram' = With(r, ram, b, (b + 1) % WordSize, m)
  BY <1>7 DEF Store, Write, RealWrite
<1> HIDE DEF a, b
<1>9. memory' \in Memories /\ ram' \in Memories
  BY <1>3, <1>8, WithIsMemory
<1>10. exact' => (memory = ram => memory' = ram')
  BY <1>2, <1>7, <1>8, SameAccess
<1> QED
  BY <1>7, <1>9, <1>10 DEF StoreToMemory, OnMemory, Translating

(* PUSH, CALL and RET move SP, and the first two store a word below it.    *)
MovesPointer ==
  \E n, m \in Word :
    /\ concrete' = StoredConcrete(concrete, "sp", n) /\ real' = Stored(real, "sp", m)
    /\ Defines(values, "sp", Value("sp", "definition", <<>>, {n}, {}))
    /\ memory' \in Memories /\ ram' \in Memories
    /\ exact' => exact /\ n = m /\ ("sp" \notin Registers /\ memory = ram => memory' = ram')
    /\ exact' \in BOOLEAN /\ path = "straight"
    /\ UNCHANGED <<path, fork, other>>

(* What is stored below SP.                                                *)
LEMMA PutBelowIs ==
  ASSUME TypesInv, NEW n \in Word, NEW m \in Word, PutBelow(n, m), NEW names, "sp" \in names,
         Takes(names, "sp", Below(SP)), OnMemory,
         "sp" \notin Registers /\ Agree(names) => n = m
  PROVE  MovesPointer
<1>1. SP \in Word /\ "sp" \in Named /\ "sp" \in AllRegisters /\ RealValue("sp") = real["sp"] /\ real["sp"] \in Word
  BY TypesFacts, Order DEF SP, RealValue
<1>2. Below(SP) \in Word /\ Below(real["sp"]) \in Word
  BY <1>1, PointersAreWords
<1>3. memory \in Memories /\ ram \in Memories /\ exact \in BOOLEAN
  BY DEF TypesInv, MachineInv
<1> DEFINE a == Below(SP)   b == Below(real["sp"])
<1>4. exact' => exact /\ Agree(names) /\ a = b /\ a # WordSize - 1
  BY <1>1 DEF Takes, Agree, SP, Bytes
<1>5. memory' = With("sp", memory, a, a + 1, n) /\ ram' = With("sp", ram, b, (b + 1) % WordSize, m)
  BY DEF PutBelow, Write, RealWrite
<1>6. concrete' = StoredConcrete(concrete, "sp", a) /\ real' = Stored(real, "sp", b)
  BY RealIs DEF PutBelow
<1>7. Defines(values, "sp", Value("sp", "definition", <<>>, {a}, {}))
  BY <1>1, <1>2, TypesFacts, Constant DEF Define, NextId, Defines, PutBelow
<1> HIDE DEF a, b
<1>8. a \in Word /\ b \in Word
  BY <1>2 DEF a, b
<1>9. memory' \in Memories /\ ram' \in Memories
  BY <1>3, <1>5, WithIsMemory
<1>10. exact' => ("sp" \notin Registers /\ memory = ram => memory' = ram')
  <2> SUFFICES ASSUME exact', "sp" \notin Registers, memory = ram PROVE memory' = ram'
    OBVIOUS
  <2>1. n = m /\ a = b /\ a # WordSize - 1
    BY <1>4
  <2>2. With("sp", ram, a, (a + 1) % WordSize, n) = With("sp", ram, a, a + 1, n)
    BY <1>8, <2>1, SameAccess
  <2> QED
    BY <1>5, <2>1, <2>2
<1>11. path = "straight" /\ UNCHANGED <<path, fork, other>> /\ exact' \in BOOLEAN
  BY DEF OnMemory, Translating, Takes
<1> QED
  BY <1>4, <1>6, <1>7, <1>8, <1>9, <1>10, <1>11 DEF MovesPointer

(* PUSH, ...                                                               *)
LEMMA PushMoves == TypesInv /\ Push => MovesPointer
<1> SUFFICES ASSUME TypesInv, Push PROVE MovesPointer
  OBVIOUS
<1>1. PICK r \in Registers \ Bytes :
       /\ PutBelow(concrete[r], IF r = "sp" THEN Below(real["sp"]) ELSE RealValue(r))
       /\ Takes({r, "sp"}, "sp", Below(SP))
  BY DEF Push
<1> DEFINE n == concrete[r]   m == IF r = "sp" THEN Below(real["sp"]) ELSE RealValue(r)
<1>2. n \in Word /\ m \in Word
  <2>1. r \in Named /\ RealValue(r) \in Word /\ n \in Word /\ real["sp"] \in Word
    BY TypesFacts DEF RealValue
  <2> QED
    BY <2>1, PointersAreWords
<1>3. "sp" \notin Registers /\ Agree({r, "sp"}) => n = m
  BY DEF Agree
<1>4. PutBelow(n, m)
  BY <1>1
<1>5. OnMemory
  BY DEF Push
<1> HIDE DEF n, m
<1> QED
  BY <1>1, <1>2, <1>3, <1>4, <1>5, PutBelowIs

(* ... CALL ...                                                            *)
LEMMA CallMoves == TypesInv /\ Call => MovesPointer
<1> SUFFICES ASSUME TypesInv, Call PROVE MovesPointer
  OBVIOUS
<1>1. PICK n \in Immediates : PutBelow(n, n)
  BY DEF Call
<1>2. n \in Word
  BY TypesFacts
<1>3. OnMemory /\ Takes({"sp"}, "sp", Below(SP))
  BY DEF Call
<1> QED
  BY <1>1, <1>2, <1>3, PutBelowIs

(* ... and RET are such steps.                                             *)
LEMMA ReturnMoves == TypesInv /\ Return => MovesPointer
<1> SUFFICES ASSUME TypesInv, Return PROVE MovesPointer
  OBVIOUS
<1>1. PICK raw \in {0} \cup Immediates :
       /\ concrete' = store_concrete("sp", Above(SP, Released(raw)))
       /\ RealStore("sp", Above(real["sp"], 2 + raw))
       /\ Define("sp", Value("sp", "definition", <<>>, {Above(SP, Released(raw))}, {}))
  BY DEF Return
<1>2. SP \in Word /\ "sp" \in Named /\ "sp" \in AllRegisters /\ RealValue("sp") = real["sp"] /\ real["sp"] \in Word
  BY TypesFacts, Order DEF SP, RealValue
<1>3. Released(raw) \in Nat /\ Released(raw) = 2 + raw
  BY OperandsAssumption DEF Released
<1> DEFINE n == Above(SP, Released(raw))   m == Above(real["sp"], 2 + raw)
<1>4. n \in Word /\ m \in Word
  BY <1>2, <1>3, PointersAreWords
<1>5. exact' => exact /\ SP = real["sp"]
  BY <1>2 DEF Return, Takes, Agree, SP
<1>6. exact' => n = m
  BY <1>3, <1>5
<1>7. concrete' = StoredConcrete(concrete, "sp", n) /\ real' = Stored(real, "sp", m)
  BY <1>1, RealIs
<1>8. Define("sp", Value("sp", "definition", <<>>, {n}, {}))
  BY <1>1
<1> HIDE DEF n, m
<1>9. Defines(values, "sp", Value("sp", "definition", <<>>, {n}, {}))
  BY <1>2, <1>4, <1>8, TypesFacts, Constant DEF Define, NextId, Defines
<1>10. memory' = memory /\ ram' = ram /\ path = "straight" /\ UNCHANGED <<path, fork, other>> /\ exact' \in BOOLEAN
  BY DEF Return, OnMemory, Translating, Takes
<1>11. memory \in Memories /\ ram \in Memories
  BY DEF TypesInv, MachineInv
<1> QED
  BY <1>4, <1>5, <1>6, <1>7, <1>9, <1>10, <1>11 DEF MovesPointer

(* POP fills a register and moves SP.                                      *)
LEMMA PopIs ==
  ASSUME TypesInv, Pop
  PROVE  \E r \in Registers : \E n, m \in Word : \E p, q \in Word :
           /\ r \notin Bytes
           /\ concrete' = [StoredConcrete(concrete, r, n) EXCEPT !["sp"] = p]
           /\ real' = IF r = "sp" THEN Stored(real, r, m) ELSE Stored(Stored(real, "sp", q), r, m)
           /\ Defines(values, r, Value(r, "definition", <<>>, {n}, {}))
           /\ exact' => exact /\ p = q /\ (memory = ram => n = m)
           /\ exact' \in BOOLEAN /\ path = "straight"
           /\ UNCHANGED <<memory, ram, path, fork, other>>
<1>1. PICK r \in Registers \ Bytes :
       LET n == Read("sp", SP)
           m == RealRead("sp", real["sp"])
       IN  /\ concrete' = SPLast(r, n)
           /\ Define(r, Value(r, "definition", <<>>, {n}, {}))
           /\ real' = IF r = "sp" THEN [real EXCEPT !["sp"] = m]
                      ELSE [real EXCEPT !["sp"] = Above(real["sp"], 2),
                              ![High(r)] = m \div ByteSize, ![Low(r)] = m % ByteSize]
  BY DEF Pop
<1> DEFINE n == Read("sp", SP)   m == RealRead("sp", real["sp"])
           p == Above(SP, 2)   q == Above(real["sp"], 2)
<1>2. SP \in Word /\ "sp" \in Named /\ "sp" \in AllRegisters /\ RealValue("sp") = real["sp"] /\ real["sp"] \in Word
  BY TypesFacts, Order DEF SP, RealValue
<1>3. memory \in Memories /\ ram \in Memories /\ exact \in BOOLEAN
  BY DEF TypesInv, MachineInv
<1>4. n \in Word /\ m \in Word
  BY <1>2, <1>3, AddressIs, HeldIsWord DEF Read, RealRead
<1>5. p \in Word /\ q \in Word
  BY <1>2, PointersAreWords
<1>6. exact' => exact /\ SP = real["sp"] /\ SP # WordSize - 1
  BY <1>2 DEF Pop, Takes, Agree, SP, Bytes
<1>7. exact' => (memory = ram => n = m)
  BY <1>2, <1>6, SameAccess DEF Read, RealRead
<1>8. exact' => p = q
  BY <1>6
<1>9. concrete' = [store_concrete(r, n) EXCEPT !["sp"] = p] /\ Define(r, Value(r, "definition", <<>>, {n}, {}))
  BY <1>1 DEF SPLast
<1>10. real' = IF r = "sp" THEN [real EXCEPT !["sp"] = m]
               ELSE [real EXCEPT !["sp"] = q, ![High(r)] = m \div ByteSize, ![Low(r)] = m % ByteSize]
  BY <1>1
<1> HIDE DEF n, m, p, q
<1>11. r \in Named /\ r \in AllRegisters
  BY TypesFacts
<1>12. real' = IF r = "sp" THEN Stored(real, r, m) ELSE Stored(Stored(real, "sp", q), r, m)
  <2>1. CASE r = "sp"
    BY <1>10, <2>1 DEF Stored, Bytes
  <2>2. CASE r # "sp"
    BY <1>10, <2>2 DEF Stored, Bytes
  <2> QED
    BY <2>1, <2>2
<1>13. concrete' = [StoredConcrete(concrete, r, n) EXCEPT !["sp"] = p]
  BY <1>9, RealIs
<1>14. Defines(values, r, Value(r, "definition", <<>>, {n}, {}))
  BY <1>4, <1>9, <1>11, TypesFacts, Constant DEF Define, NextId, Defines
<1>15. UNCHANGED <<memory, ram, path, fork, other>> /\ path = "straight" /\ exact' \in BOOLEAN
  BY DEF Pop, OnMemory, Translating, Takes
<1> QED
  BY <1>4, <1>5, <1>6, <1>7, <1>8, <1>12, <1>13, <1>14, <1>15

----------------------------------------------------------------------------
(* The count is a number, starts at 0 and grows by one at each position.   *)
LEMMA PhiNumberIs ==
  ASSUME NEW set, \A x \in set : x \in Nat /\ x > 0, NEW n \in Nat
  PROVE  /\ IsFiniteSet({ i \in set : i <= n }) /\ PhiNumber(set, n) \in Nat
         /\ PhiNumber(set, 0) = 0
         /\ PhiNumber(set, n + 1) = IF n + 1 \in set THEN PhiNumber(set, n) + 1 ELSE PhiNumber(set, n)
<1>1. IsFiniteSet({ i \in set : i <= n })
  <2>1. IsFiniteSet(0 .. n)
    BY FS_Interval
  <2>2. { i \in set : i <= n } \in SUBSET (0 .. n)
    OBVIOUS
  <2> QED
    BY <2>1, <2>2, FS_Subset
<1>2. PhiNumber(set, n) \in Nat
  BY <1>1, FS_CardinalityType DEF PhiNumber
<1>3. PhiNumber(set, 0) = 0
  <2>1. { i \in set : i <= 0 } = {}
    OBVIOUS
  <2> QED
    BY <2>1, FS_EmptySet DEF PhiNumber
<1>4. CASE n + 1 \in set
  <2>1. { i \in set : i <= n + 1 } = { i \in set : i <= n } \cup {n + 1}
    BY <1>4
  <2>2. n + 1 \notin { i \in set : i <= n }
    OBVIOUS
  <2>3. Cardinality({ i \in set : i <= n } \cup {n + 1}) = Cardinality({ i \in set : i <= n }) + 1
    BY <1>1, <2>2, FS_AddElement
  <2> QED
    BY <1>1, <1>2, <1>3, <1>4, <2>1, <2>3 DEF PhiNumber
<1>5. CASE n + 1 \notin set
  <2>1. { i \in set : i <= n + 1 } = { i \in set : i <= n }
    BY <1>5
  <2> QED
    BY <1>1, <1>2, <1>3, <1>5, <2>1 DEF PhiNumber
<1> QED
  BY <1>4, <1>5

(* Later positions have larger numbers.                                    *)
LEMMA PhiNumberStrict ==
  ASSUME NEW set, \A x \in set : x \in Nat /\ x > 0, NEW i \in set, NEW j \in Nat, j < i
  PROVE  PhiNumber(set, j) < PhiNumber(set, i)
<1> DEFINE To(k) == { x \in set : x <= k }
<1>1. i \in Nat /\ j \in Nat /\ j < i
  OBVIOUS
<1>2. \A x \in To(j) : x \in To(i)
  BY <1>1
<1>3. To(j) \in SUBSET To(i)
  BY <1>2
<1>4. i \in To(i) /\ i \notin To(j)
  BY <1>1
<1>5. IsFiniteSet(To(i)) /\ PhiNumber(set, i) = Cardinality(To(i)) /\ PhiNumber(set, j) = Cardinality(To(j))
      /\ PhiNumber(set, i) \in Nat /\ PhiNumber(set, j) \in Nat
  BY <1>1, PhiNumberIs DEF PhiNumber
<1> HIDE DEF To
<1>6. PhiNumber(set, j) <= PhiNumber(set, i) /\ (PhiNumber(set, i) = PhiNumber(set, j) => To(i) = To(j))
  BY <1>3, <1>5, FS_Subset
<1> QED
  BY <1>4, <1>5, <1>6

(* Positions up to n are numbered from 1 to how many there are.            *)
LEMMA PhiNumberGrows ==
  ASSUME NEW set, \A x \in set : x \in Nat /\ x > 0, NEW i \in set, NEW n \in Nat, i <= n
  PROVE  PhiNumber(set, i) \in 1 .. PhiNumber(set, n)
<1>1. i \in Nat /\ 0 < i /\ 0 \in Nat
  OBVIOUS
<1>2. PhiNumber(set, 0) = 0 /\ PhiNumber(set, i) \in Nat /\ PhiNumber(set, n) \in Nat
  BY <1>1, PhiNumberIs
<1>3. PhiNumber(set, 0) < PhiNumber(set, i)
  BY <1>1, PhiNumberStrict
<1>4. PhiNumber(set, i) <= PhiNumber(set, n)
  <2> DEFINE To(k) == { x \in set : x <= k }
  <2>1. \A x \in To(i) : x \in To(n)
    BY <1>1
  <2>2. To(i) \in SUBSET To(n)
    BY <2>1
  <2>3. IsFiniteSet(To(n)) /\ PhiNumber(set, n) = Cardinality(To(n)) /\ PhiNumber(set, i) = Cardinality(To(i))
    BY PhiNumberIs DEF PhiNumber
  <2> HIDE DEF To
  <2> QED
    BY <2>2, <2>3, FS_Subset
<1> QED
  BY <1>2, <1>3, <1>4

(* Two positions never have the same number.                               *)
LEMMA PhiNumberInjective ==
  ASSUME NEW set, \A x \in set : x \in Nat /\ x > 0, NEW i \in set, NEW j \in set, PhiNumber(set, i) = PhiNumber(set, j)
  PROVE  i = j
<1>1. i \in Nat /\ j \in Nat /\ PhiNumber(set, i) \in Nat
  BY PhiNumberIs
<1>2. ~(i < j)
  <2> SUFFICES ASSUME i < j PROVE FALSE
    OBVIOUS
  <2>1. PhiNumber(set, i) < PhiNumber(set, j)
    BY <1>1, PhiNumberStrict
  <2> QED
    BY <1>1, <2>1
<1>3. ~(j < i)
  <2> SUFFICES ASSUME j < i PROVE FALSE
    OBVIOUS
  <2>1. PhiNumber(set, j) < PhiNumber(set, i)
    BY <1>1, PhiNumberStrict
  <2> QED
    BY <1>1, <2>1
<1> QED
  BY <1>1, <1>2, <1>3

(* Every number up to the largest is the number of a position.             *)
LEMMA PhiNumberReaches ==
  ASSUME NEW set, \A x \in set : x \in Nat /\ x > 0, NEW n \in Nat, NEW k \in 1 .. PhiNumber(set, n)
  PROVE  \E i \in set : i <= n /\ PhiNumber(set, i) = k
<1> DEFINE At == { m \in Nat : k <= PhiNumber(set, m) }
<1>1. At \in SUBSET Nat /\ n \in At
  OBVIOUS
<1>2. PICK m \in At : \A x \in At : m <= x
  <2> HIDE DEF At
  <2> QED
    BY <1>1, LeastNat
<1>3. k \in Nat /\ k > 0 /\ PhiNumber(set, 0) = 0 /\ PhiNumber(set, n) \in Nat
  <2>1. PhiNumber(set, n) \in Nat /\ PhiNumber(set, 0) = 0
    BY PhiNumberIs
  <2> QED
    BY <2>1
<1>4. m # 0 /\ m \in Nat /\ m <= n
  BY <1>1, <1>2, <1>3
<1>5. m - 1 \in Nat /\ m - 1 \notin At
  BY <1>2, <1>4
<1>6. /\ PhiNumber(set, m - 1) \in Nat
      /\ PhiNumber(set, (m - 1) + 1) = IF (m - 1) + 1 \in set THEN PhiNumber(set, m - 1) + 1 ELSE PhiNumber(set, m - 1)
  BY <1>5, PhiNumberIs
<1>7. (m - 1) + 1 = m
  BY <1>4
<1>8. PhiNumber(set, m) = IF m \in set THEN PhiNumber(set, m - 1) + 1 ELSE PhiNumber(set, m - 1)
  BY <1>6, <1>7
<1>9. ~(k <= PhiNumber(set, m - 1)) /\ k <= PhiNumber(set, m)
  BY <1>2, <1>5
<1>10. m \in set /\ PhiNumber(set, m) = k
  BY <1>3, <1>6, <1>8, <1>9
<1> QED
  BY <1>4, <1>10

(* The join of two states: the table grows by a phi for each register they *)
(* differ on, and the state names it.                                      *)
Merged(vs, f, s) ==
  vs \o [n \in 1 .. Cardinality(Differing(f, s)) |->
           PhiOf(f, s, CHOOSE i \in Differing(f, s) : PhiNumber(Differing(f, s), i) = n)]
MergedState(vs, f, s) ==
  [r \in AllRegisters |-> IF f[r] = s[r] THEN f[r] ELSE Len(vs) + PhiNumber(Differing(f, s), entry_state[r])]

(* The joined table is one, and every register both states hold keeps its  *)
(* value or gets its phi.                                                  *)
LEMMA MergeIs ==
  ASSUME NEW vs, Table(vs), NEW f, NEW s, StateOk(vs, f), StateOk(vs, s)
  PROVE  /\ Longer(vs, Merged(vs, f, s)) /\ StateOk(Merged(vs, f, s), MergedState(vs, f, s))
         /\ \A r \in AllRegisters :
              IF f[r] = s[r] THEN MergedState(vs, f, s)[r] = f[r]
              ELSE /\ Merged(vs, f, s)[MergedState(vs, f, s)[r]] = Value(r, "phi", <<f[r], s[r]>>, {}, {})
                   /\ MergedState(vs, f, s)[r] \in DOMAIN Merged(vs, f, s)
<1> DEFINE d == Differing(f, s)
           N == Cardinality(d)
           L == Len(vs)
           phis == [n \in 1 .. N |-> PhiOf(f, s, CHOOSE i \in d : PhiNumber(d, i) = n)]
           ws == Merged(vs, f, s)
           st == MergedState(vs, f, s)
<1>1. ws = vs \o phis /\ st = [r \in AllRegisters |-> IF f[r] = s[r] THEN f[r] ELSE L + PhiNumber(d, entry_state[r])]
  BY DEF Merged, MergedState
<1>2. vs \in Seq(ValueRecords) /\ L \in Nat /\ DOMAIN vs = 1 .. L /\ \A i \in 1 .. L : WellMade(vs[i], i)
  BY TableFacts
<1>3. /\ \A i \in d : i \in 1 .. 8 /\ RegisterOrder[i] \in AllRegisters /\ f[RegisterOrder[i]] # s[RegisterOrder[i]]
      /\ \A i \in d : i \in Nat /\ i > 0 /\ i <= 8
      /\ \A r \in AllRegisters : f[r] # s[r] => entry_state[r] \in d /\ RegisterOrder[entry_state[r]] = r
  BY Order DEF Differing
<1>4. \A r \in AllRegisters : f[r] \in 1 .. L /\ s[r] \in 1 .. L
  BY <1>2 DEF StateOk
<1> HIDE DEF d
<1>5. N = PhiNumber(d, 8) /\ N \in Nat
  <2>1. { j \in d : j <= 8 } = d
    BY <1>3
  <2>2. N = PhiNumber(d, 8)
    BY <2>1 DEF PhiNumber
  <2>3. 8 \in Nat
    OBVIOUS
  <2>4. \A x \in d : x \in Nat /\ x > 0
    BY <1>3
  <2>5. PhiNumber(d, 8) \in Nat
    BY <2>3, <2>4, PhiNumberIs, Zenon
  <2> QED
    BY <2>2, <2>5
<1> HIDE DEF N
<1>6. ASSUME NEW i \in d PROVE PhiNumber(d, i) \in 1 .. N
  <2>1. 8 \in Nat /\ i <= 8
    BY <1>3
  <2> QED
    BY <1>3, <1>5, <2>1, PhiNumberGrows
<1>7. ASSUME NEW n \in 1 .. N PROVE \E i \in d : PhiNumber(d, i) = n
  <2>1. 8 \in Nat /\ n \in 1 .. PhiNumber(d, 8)
    BY <1>5
  <2> QED
    BY <1>3, <2>1, PhiNumberReaches
<1>8. ASSUME NEW i \in d PROVE phis[PhiNumber(d, i)] = PhiOf(f, s, i)
  <2> DEFINE c == CHOOSE j \in d : PhiNumber(d, j) = PhiNumber(d, i)
  <2>1. c \in d /\ PhiNumber(d, c) = PhiNumber(d, i)
    OBVIOUS
  <2> HIDE DEF c
  <2>2. c = i
    BY <1>3, <2>1, PhiNumberInjective
  <2>3. phis[PhiNumber(d, i)] = PhiOf(f, s, c)
    BY <1>6 DEF c
  <2> QED
    BY <2>2, <2>3
<1>9. ASSUME NEW n \in 1 .. N, NEW k \in Nat, L < k PROVE WellMade(phis[n], k)
  <2> DEFINE i == CHOOSE j \in d : PhiNumber(d, j) = n
  <2>1. i \in d
    BY <1>7
  <2>2. phis[n] = PhiOf(f, s, i)
    OBVIOUS
  <2> HIDE DEF i
  <2>3. RegisterOrder[i] \in AllRegisters
    BY <1>3, <2>1
  <2>4. f[RegisterOrder[i]] \in 1 .. L /\ s[RegisterOrder[i]] \in 1 .. L
    BY <1>4, <2>3
  <2>5. \A x \in 1 .. L : x \in 1 .. k - 1
    <3>1. L \in Nat /\ k \in Nat /\ L < k
      BY <1>2, <1>9
    <3> HIDE DEF L
    <3> QED
      BY <3>1
  <2>6. f[RegisterOrder[i]] \in 1 .. k - 1 /\ s[RegisterOrder[i]] \in 1 .. k - 1
    BY <2>4, <2>5
  <2> QED
    BY <2>2, <2>3, <2>6, Phi DEF PhiOf
<1>10. phis \in Seq(ValueRecords) /\ Len(phis) = N
  <2>1. \A n \in 1 .. N : phis[n] \in ValueRecords
    <3>1. L + 1 \in Nat /\ L < L + 1
      BY <1>2
    <3> HIDE DEF phis, L
    <3> QED
      BY <3>1, <1>9 DEF WellMade
  <2>2. DOMAIN phis = 1 .. N /\ phis = [n \in 1 .. N |-> phis[n]]
    OBVIOUS
  <2> HIDE DEF phis
  <2> QED
    BY <1>5, <2>1, <2>2
<1> HIDE DEF phis, ws, st, L
<1>11. /\ ws \in Seq(ValueRecords) /\ Len(ws) = L + N /\ DOMAIN ws = 1 .. L + N
       /\ \A i \in 1 .. L : ws[i] = vs[i]
       /\ \A n \in 1 .. N : ws[L + n] = phis[n]
  <2>1. ws = vs \o phis /\ vs \in Seq(ValueRecords) /\ phis \in Seq(ValueRecords) /\ Len(vs) = L /\ Len(phis) = N
    BY <1>1, <1>2, <1>10 DEF L
  <2>2. L \in Nat /\ N \in Nat
    BY <1>2, <1>5 DEF L
  <2>3. ws \in Seq(ValueRecords) /\ Len(ws) = L + N
    BY <2>1, ConcatProperties
  <2>4. DOMAIN ws = 1 .. L + N
    BY <2>3
  <2>5. \A i \in 1 .. L : ws[i] = vs[i]
    BY <2>1, <2>2
  <2>6. \A n \in 1 .. N : ws[L + n] = phis[n]
    <3> SUFFICES ASSUME NEW n \in 1 .. N PROVE ws[L + n] = phis[n]
      OBVIOUS
    <3>1. L + n \in 1 .. L + N /\ ~(L + n <= L) /\ (L + n) - L = n
      BY <2>2
    <3> QED
      BY <2>1, <2>2, <3>1
  <2> QED
    BY <2>3, <2>4, <2>5, <2>6
<1>12. ASSUME NEW i \in DOMAIN ws PROVE WellMade(ws[i], i)
  <2>1. CASE i \in 1 .. L
    BY <1>2, <1>11, <2>1
  <2>2. CASE i \notin 1 .. L
    <3>1. i \in Nat /\ L < i /\ i - L \in 1 .. N /\ L + (i - L) = i
      BY <1>2, <1>5, <1>11, <2>2
    <3>2. ws[i] = phis[i - L]
      BY <1>11, <3>1
    <3> QED
      BY <1>9, <3>1, <3>2
  <2> QED
    BY <2>1, <2>2
<1>13. Longer(vs, ws)
  BY <1>2, <1>5, <1>11, <1>12 DEF Longer, Table, L
<1>14. ASSUME NEW r \in AllRegisters
       PROVE  IF f[r] = s[r] THEN st[r] = f[r]
              ELSE ws[st[r]] = Value(r, "phi", <<f[r], s[r]>>, {}, {}) /\ st[r] \in DOMAIN ws
  <2>1. CASE f[r] = s[r]
    BY <1>1, <2>1
  <2>2. CASE f[r] # s[r]
    <3> DEFINE i == entry_state[r]
    <3>1. i \in d /\ RegisterOrder[i] = r
      BY <1>3, <2>2
    <3>2. st[r] = L + PhiNumber(d, i)
      BY <1>1, <2>2
    <3> HIDE DEF i
    <3>3. PhiNumber(d, i) \in 1 .. N
      BY <1>6, <3>1
    <3>4. ws[st[r]] = PhiOf(f, s, i)
      BY <1>8, <1>11, <3>1, <3>2, <3>3
    <3>5. st[r] \in DOMAIN ws
      BY <1>2, <1>5, <1>11, <3>2, <3>3
    <3> QED
      BY <2>2, <3>1, <3>4, <3>5 DEF PhiOf
  <2> QED
    BY <2>1, <2>2
<1>15. StateOk(ws, st)
  <2>1. ASSUME NEW r \in AllRegisters PROVE st[r] \in DOMAIN ws /\ ws[st[r]].reg = r /\ st[r] \in Nat
    <3>1. CASE f[r] = s[r]
      <4>1. st[r] = f[r] /\ f[r] \in 1 .. L /\ vs[f[r]].reg = r
        BY <1>4, <1>14, <3>1 DEF StateOk
      <4> QED
        BY <1>2, <1>5, <1>11, <4>1
    <3>2. CASE f[r] # s[r]
      <4>1. Value(r, "phi", <<f[r], s[r]>>, {}, {}).reg = r
        BY DEF Value
      <4>2. ws[st[r]] = Value(r, "phi", <<f[r], s[r]>>, {}, {}) /\ st[r] \in DOMAIN ws
        BY <1>14, <3>2
      <4> QED
        BY <1>2, <1>5, <1>11, <4>1, <4>2
    <3> QED
      BY <3>1, <3>2
  <2>2. st = [r \in AllRegisters |-> st[r]]
    BY <1>1
  <2> QED
    BY <2>1, <2>2 DEF StateOk
<1> QED
  BY <1>13, <1>14, <1>15 DEF ws, st

----------------------------------------------------------------------------
(* The two SPs and memories agree, and so do the SPs of the machine at the *)
(* ends of the arms.                                                       *)
StackInv ==
  exact /\ "sp" \notin Registers =>
    /\ SP = real["sp"] /\ memory = ram
    /\ path # "straight" => fork.real["sp"] = SP
    /\ path \in {"second", "joined"} => other.real["sp"] = SP

(* What the typing invariant says of the machines and the states.          *)
LEMMA MachineIs ==
  ASSUME TypesInv
  PROVE  /\ RealOk(real) /\ RealOk(fork.real) /\ RealOk(other.real) /\ ConcreteOk(concrete)
         /\ memory \in Memories /\ ram \in Memories /\ exact \in BOOLEAN
         /\ path \in {"straight", "first", "second", "joined"}
         /\ Table(values) /\ StateOk(values, state) /\ StateOk(values, fork.state) /\ StateOk(values, other.state)
BY DEF TypesInv, BuilderInv, MachineInv

(* Instructions on registers touch neither SP nor memory.                  *)
LEMMA RegistersStep ==
  ASSUME TypesInv, StackInv, RegisterInstruction
  PROVE  TypesInv' /\ StackInv'
<1>1. TypesInv' /\ ("sp" \notin Registers => concrete'["sp"] = concrete["sp"] /\ real'["sp"] = real["sp"])
  BY ComputesTypes
<1>2. UNCHANGED <<memory, ram, exact, path, fork, other>>
  BY DEF RegisterInstruction, Computes, memories
<1>3. StackInv'
  BY <1>1, <1>2 DEF StackInv, SP
<1> QED
  BY <1>1, <1>3

(* A load fills a register other than SP.                                  *)
LEMMA LoadStep ==
  ASSUME TypesInv, StackInv, LoadFromMemory
  PROVE  TypesInv' /\ StackInv'
<1>1. PICK r \in Registers : \E n, m \in Word :
           /\ concrete' = StoredConcrete(concrete, r, n) /\ real' = Stored(real, r, m)
           /\ Defines(values, r, Value(r, "definition", <<>>, {n}, {}))
           /\ exact' => exact /\ (memory = ram => n = m)
           /\ exact' \in BOOLEAN
           /\ UNCHANGED <<memory, ram, path, fork, other>>
  BY LoadIs
<1>2. PICK n \in Word, m \in Word :
           /\ concrete' = StoredConcrete(concrete, r, n) /\ real' = Stored(real, r, m)
           /\ Defines(values, r, Value(r, "definition", <<>>, {n}, {}))
           /\ exact' => exact /\ (memory = ram => n = m)
           /\ exact' \in BOOLEAN
           /\ UNCHANGED <<memory, ram, path, fork, other>>
  BY <1>1
<1>3. r \in Named
  BY TypesFacts
<1>4. BuilderInv'
  BY <1>2, DefinesBuilder
<1>5. /\ RealOk(real') /\ ConcreteOk(concrete')
      /\ r # "sp" => concrete'["sp"] = concrete["sp"] /\ real'["sp"] = real["sp"]
  BY <1>2, <1>3, MachineIs, StoredIs, StoredConcreteIs
<1>6. TypesInv'
  BY <1>2, <1>4, <1>5, MachineIs DEF TypesInv, MachineInv
<1>7. StackInv'
  BY <1>2, <1>5 DEF StackInv, SP
<1> QED
  BY <1>6, <1>7

(* A store writes the same word to the same place of both memories.        *)
LEMMA StoreStep ==
  ASSUME TypesInv, StackInv, StoreToMemory
  PROVE  TypesInv' /\ StackInv' /\ Longer(values, values')
<1>1. /\ values' = Append(values, Value("count", "definition", <<>>, {}, {}))
      /\ concrete' \in {concrete, Overrun} /\ UNCHANGED <<state, real, path, fork, other>>
      /\ memory' \in Memories /\ ram' \in Memories
      /\ exact' => exact /\ (memory = ram => memory' = ram')
      /\ exact' \in BOOLEAN /\ path = "straight"
  BY StoreIs
<1>2. Table(values) /\ Len(values) \in Nat
  BY TypesFacts
<1>3. WellMade(Value("count", "definition", <<>>, {}, {}), Len(values) + 1)
  BY <1>2 DEF WellMade, Value, ValueRecords
<1>4. Longer(values, values') /\ Table(values')
  BY <1>1, <1>2, <1>3, AppendIs
<1>5. BuilderInv'
  <2>1. StateOk(values', state) /\ StateOk(values', fork.state) /\ StateOk(values', other.state)
    BY <1>4, MachineIs, StateLonger
  <2> QED
    BY <1>1, <1>4, <2>1 DEF BuilderInv
<1>6. ConcreteOk(concrete') /\ concrete'["sp"] = concrete["sp"]
  <2>1. Len(values) % WordSize \in Word /\ 0 \in Word
    BY <1>2, ModRange, Sizes DEF Word
  <2>2. ConcreteOk(Overrun) /\ Overrun["sp"] = concrete["sp"]
    BY <2>1, MachineIs, Order DEF Overrun, ConcreteOk, Named
  <2> QED
    BY <1>1, <2>2, MachineIs
<1>7. TypesInv'
  BY <1>1, <1>5, <1>6, MachineIs DEF TypesInv, MachineInv
<1>8. StackInv'
  BY <1>1, <1>6 DEF StackInv, SP
<1> QED
  BY <1>4, <1>7, <1>8

(* PUSH, CALL and RET move both SPs alike.                                 *)
LEMMA PointerStep ==
  ASSUME TypesInv, StackInv, MovesPointer
  PROVE  TypesInv' /\ StackInv'
<1>1. PICK n \in Word, m \in Word :
    /\ concrete' = StoredConcrete(concrete, "sp", n) /\ real' = Stored(real, "sp", m)
    /\ Defines(values, "sp", Value("sp", "definition", <<>>, {n}, {}))
    /\ memory' \in Memories /\ ram' \in Memories
    /\ exact' => exact /\ n = m /\ ("sp" \notin Registers /\ memory = ram => memory' = ram')
    /\ exact' \in BOOLEAN /\ path = "straight"
    /\ UNCHANGED <<path, fork, other>>
  BY DEF MovesPointer
<1>2. "sp" \in Named /\ "sp" \notin Bytes
  BY Order DEF Named, Bytes
<1>3. BuilderInv'
  BY <1>1, DefinesBuilder
<1>4. RealOk(real') /\ ConcreteOk(concrete') /\ concrete'["sp"] = n /\ RealIn(real', "sp") = m
  BY <1>1, <1>2, MachineIs, StoredIs, StoredConcreteIs
<1>5. TypesInv'
  BY <1>1, <1>3, <1>4, MachineIs DEF TypesInv, MachineInv
<1>6. StackInv'
  BY <1>1, <1>4 DEF StackInv, SP, RealIn
<1> QED
  BY <1>5, <1>6

(* So does POP.                                                            *)
LEMMA PopStep ==
  ASSUME TypesInv, StackInv, Pop
  PROVE  TypesInv' /\ StackInv'
<1>1. PICK r \in Registers : \E n, m \in Word : \E p, q \in Word :
           /\ r \notin Bytes
           /\ concrete' = [StoredConcrete(concrete, r, n) EXCEPT !["sp"] = p]
           /\ real' = IF r = "sp" THEN Stored(real, r, m) ELSE Stored(Stored(real, "sp", q), r, m)
           /\ Defines(values, r, Value(r, "definition", <<>>, {n}, {}))
           /\ exact' => exact /\ p = q /\ (memory = ram => n = m)
           /\ exact' \in BOOLEAN /\ path = "straight"
           /\ UNCHANGED <<memory, ram, path, fork, other>>
  BY PopIs
<1>2. PICK n \in Word, m \in Word, p \in Word, q \in Word :
           /\ r \notin Bytes
           /\ concrete' = [StoredConcrete(concrete, r, n) EXCEPT !["sp"] = p]
           /\ real' = IF r = "sp" THEN Stored(real, r, m) ELSE Stored(Stored(real, "sp", q), r, m)
           /\ Defines(values, r, Value(r, "definition", <<>>, {n}, {}))
           /\ exact' => exact /\ p = q /\ (memory = ram => n = m)
           /\ exact' \in BOOLEAN /\ path = "straight"
           /\ UNCHANGED <<memory, ram, path, fork, other>>
  BY <1>1
<1>3. r \in Named /\ "sp" \in Named /\ "sp" \notin Bytes
  BY TypesFacts, Order DEF Bytes
<1>4. BuilderInv'
  BY <1>2, DefinesBuilder
<1>5. ConcreteOk(concrete') /\ concrete'["sp"] = p
  <2>1. ConcreteOk(StoredConcrete(concrete, r, n))
    BY <1>3, MachineIs, StoredConcreteIs
  <2>2. \A c : ConcreteOk(c) => ConcreteOk([c EXCEPT !["sp"] = p]) /\ [c EXCEPT !["sp"] = p]["sp"] = p
    BY <1>3 DEF ConcreteOk
  <2> QED
    BY <1>2, <2>1, <2>2
<1>6. RealOk(real') /\ (r # "sp" => real'["sp"] = q)
  <2>1. RealOk(Stored(real, r, m))
    BY <1>3, MachineIs, StoredIs
  <2>2. RealOk(Stored(real, "sp", q)) /\ RealIn(Stored(real, "sp", q), "sp") = q
    BY <1>3, MachineIs, StoredIs
  <2>3. RealOk(Stored(Stored(real, "sp", q), r, m))
    BY <1>3, <2>2, StoredIs
  <2>4. r # "sp" => Stored(Stored(real, "sp", q), r, m)["sp"] = Stored(real, "sp", q)["sp"]
    BY <1>3, <2>2, StoredIs
  <2> QED
    BY <1>2, <2>1, <2>2, <2>3, <2>4 DEF RealIn
<1>7. TypesInv'
  BY <1>2, <1>4, <1>5, <1>6, MachineIs DEF TypesInv, MachineInv
<1>8. StackInv'
  BY <1>2, <1>5, <1>6 DEF StackInv, SP
<1> QED
  BY <1>7, <1>8

(* The machine at the fork ...                                             *)
LEMMA ForkStep ==
  ASSUME TypesInv, StackInv, Fork
  PROVE  TypesInv' /\ StackInv'
<1>1. /\ path = "straight" /\ path' = "first"
      /\ fork' = [state |-> state, real |-> real]
      /\ UNCHANGED <<values, state, concrete, real, memory, ram, exact, other>>
  BY DEF Fork, memories
<1>2. fork'.state = state /\ fork'.real = real
  BY <1>1
<1>3. TypesInv'
  BY <1>1, <1>2, MachineIs DEF TypesInv, BuilderInv, MachineInv
<1>4. StackInv'
  BY <1>1, <1>2 DEF StackInv, SP
<1> QED
  BY <1>3, <1>4

(* ... and at the end of the first arm has the SP the translator has.      *)
LEMMA SecondArmStep ==
  ASSUME TypesInv, StackInv, SecondArm
  PROVE  TypesInv' /\ StackInv'
<1>1. /\ path = "first" /\ path' = "second"
      /\ other' = [state |-> state, real |-> real]
      /\ state' = fork.state /\ real' = fork.real
      /\ UNCHANGED <<values, concrete, memory, ram, exact, fork>>
  BY DEF SecondArm, memories
<1>2. other'.state = state /\ other'.real = real
  BY <1>1
<1>3. TypesInv'
  BY <1>1, <1>2, MachineIs DEF TypesInv, BuilderInv, MachineInv
<1>4. StackInv'
  BY <1>1, <1>2 DEF StackInv, SP
<1> QED
  BY <1>3, <1>4

(* The join in the terms of MergeIs.                                       *)
LEMMA JoinIs ==
  ASSUME TypesInv, Join
  PROVE  /\ path = "second" /\ path' = "joined"
         /\ values' = Merged(values, other.state, state) /\ state' = MergedState(values, other.state, state)
         /\ real' \in {real, other.real}
         /\ UNCHANGED <<concrete, memory, ram, exact, fork, other>>
BY DEF Join, merge, Merged, MergedState, memories

(* Whichever arm was taken, SP is the same.                                *)
LEMMA JoinStep ==
  ASSUME TypesInv, StackInv, Join
  PROVE  TypesInv' /\ StackInv'
<1>1. Longer(values, values') /\ StateOk(values', state')
  BY JoinIs, MachineIs, MergeIs
<1>2. StateOk(values', fork.state) /\ StateOk(values', other.state)
  BY <1>1, MachineIs, StateLonger
<1>3. TypesInv'
  BY <1>1, <1>2, JoinIs, MachineIs DEF TypesInv, BuilderInv, MachineInv, Longer
<1>4. StackInv'
  BY JoinIs DEF StackInv, SP
<1> QED
  BY <1>3, <1>4

(* Every step keeps the types and the agreement of the stacks.             *)
LEMMA StackStep == TypesInv /\ StackInv /\ [Next]_vars => TypesInv' /\ StackInv'
<1> SUFFICES ASSUME TypesInv, StackInv, [Next]_vars PROVE TypesInv' /\ StackInv'
  OBVIOUS
<1>1. CASE MoveImmediate \/ MoveRegister \/ ArithmeticImmediate \/ ArithmeticRegister
  BY <1>1, RegisterInstructionIs, RegistersStep
<1>2. CASE LoadFromMemory
  BY <1>2, LoadStep
<1>3. CASE StoreToMemory
  BY <1>3, StoreStep
<1>4. CASE Push \/ Call \/ Return
  BY <1>4, PushMoves, CallMoves, ReturnMoves, PointerStep
<1>5. CASE Pop
  BY <1>5, PopStep
<1>6. CASE Fork
  BY <1>6, ForkStep
<1>7. CASE SecondArm
  BY <1>7, SecondArmStep
<1>8. CASE Join
  BY <1>8, JoinStep
<1>9. CASE UNCHANGED vars
  <2>1. UNCHANGED <<values, state, concrete, real, memory, ram, exact, path, fork, other>>
    BY <1>9 DEF vars, memories
  <2> QED
    BY <2>1 DEF TypesInv, BuilderInv, MachineInv, StackInv, SP
<1> QED
  BY <1>1, <1>2, <1>3, <1>4, <1>5, <1>6, <1>7, <1>8, <1>9 DEF Next, Translated

(* Both hold in the beginning.                                             *)
LEMMA StackStarts == Init => TypesInv /\ StackInv
<1> SUFFICES ASSUME Init PROVE TypesInv /\ StackInv
  OBVIOUS
<1>1. TypesInv
  BY StartingTypes
<1>2. SP = real["sp"]
  <2>1. PICK b \in [Bytes -> EntryBytes] : real = EntryRegisters(b)
    BY DEF Init
  <2>2. real["sp"] = EntrySP
    BY <2>1 DEF EntryRegisters
  <2>3. "sp" \in Named
    BY Order DEF Named
  <2>4. CASE concrete = Unknown
    BY <2>2, <2>3, <2>4 DEF Unknown, SP, Named
  <2>5. CASE concrete = [r \in Named |-> RealValue(r)]
    BY <2>2, <2>3, <2>5 DEF SP, RealValue
  <2> QED
    BY <2>4, <2>5 DEF Init, Named
<1>3. StackInv
  BY <1>2 DEF StackInv, Init
<1> QED
  BY <1>1, <1>3

(* For every width of a byte, set of registers without SP, immediates and  *)
(* operations: the SP and the memory of the translator are those of the    *)
(* machine, whatever is pushed, popped, called, returned from, loaded and  *)
(* stored, as long as memory instructions were given what the machine      *)
(* holds.                                                                  *)
THEOREM StackExactCorrect == Spec => []StackExact
<1>1. TypesInv /\ StackInv => StackExact
  BY DEF StackInv, StackExact
<1> QED
  BY StackStarts, StackStep, <1>1, PTL DEF Spec

----------------------------------------------------------------------------
(* What is known of a state's registers is what a machine holds in them.   *)
Sound(vs, st, re) ==
  /\ \A b \in Bytes : FactsOf(vs)[st[b]] = {}
  /\ \A r \in WordRegisters : \A n \in FactsOf(vs)[st[r]] : RealIn(re, r) = n
FactsInv ==
  exact =>
    /\ Sound(values, state, real) /\ Sound(values, fork.state, fork.real)
    /\ Sound(values, other.state, other.real)

(* Which registers are bytes and which words.                              *)
LEMMA WordsAre ==
  /\ Bytes \subseteq AllRegisters /\ WordRegisters \subseteq AllRegisters
  /\ Bytes \subseteq Named /\ WordRegisters \subseteq Named
  /\ \A r \in WordRegisters : r \notin Bytes /\ r # "sp" /\ r # "flags"
  /\ "sp" \notin Bytes /\ "flags" \notin Bytes /\ "sp" \in Named
BY Order DEF Bytes, WordRegisters, Named

(* A longer table is as sound.                                             *)
LEMMA SoundLonger ==
  ASSUME NEW vs, NEW ws, Longer(vs, ws), NEW st, StateOk(vs, st), NEW re, Sound(vs, st, re)
  PROVE  Sound(ws, st, re)
<1>1. Table(vs) /\ Table(ws) /\ Len(vs) <= Len(ws) /\ (\A i \in 1 .. Len(vs) : ws[i] = vs[i])
  BY DEF Longer
<1>2. \A r \in AllRegisters : st[r] \in 1 .. Len(vs)
  BY <1>1, TableFacts DEF StateOk
<1>3. \A i \in 1 .. Len(vs) : FactsOf(ws)[i] = FactsOf(vs)[i]
  BY <1>1, FactsLonger
<1>4. \A r \in AllRegisters : FactsOf(ws)[st[r]] = FactsOf(vs)[st[r]]
  BY <1>2, <1>3
<1> QED
  BY <1>4, WordsAre DEF Sound

(* What analyze says of one value, ...                                     *)
LEMMA FactsAt ==
  ASSUME NEW vs, Table(vs), NEW i \in DOMAIN vs
  PROVE  FactsOf(vs)[i] = FactOf(FactsOf(vs), vs[i])
BY FactsOfIs

(* ... and of the last.                                                    *)
LEMMA FactOfAppended ==
  ASSUME NEW vs, Table(vs), NEW v, WellMade(v, Len(vs) + 1)
  PROVE  FactsOf(Append(vs, v))[Len(vs) + 1] = FactOf(FactsOf(vs), v)
<1> DEFINE ws == Append(vs, v)   k == Len(vs) + 1
<1>1. Longer(vs, ws) /\ Table(ws) /\ Len(ws) = k /\ ws[k] = v /\ k \in DOMAIN ws /\ Len(vs) \in Nat
  BY AppendIs
<1> HIDE DEF ws
<1>2. FactsOf(ws)[k] = FactOf(FactsOf(ws), v)
  BY <1>1, FactsAt
<1>3. \A j \in 1 .. k - 1 : FactsOf(ws)[j] = FactsOf(vs)[j]
  <2>1. Len(vs) <= Len(ws) /\ (\A i \in 1 .. Len(vs) : ws[i] = vs[i])
    BY <1>1 DEF Longer
  <2>2. \A j \in 1 .. Len(vs) : FactsOf(ws)[j] = FactsOf(vs)[j]
    BY <1>1, <2>1, FactsLonger
  <2>3. k - 1 = Len(vs)
    BY <1>1
  <2> QED
    BY <2>2, <2>3
<1>4. FactOf(FactsOf(ws), v) = FactOf(FactsOf(vs), v)
  <2>1. k \in Nat
    BY <1>1
  <2> QED
    BY <1>3, <2>1, FactOfDepends
<1> QED
  BY <1>2, <1>4 DEF ws

(* A definition keeps a state sound if what it says is what the machine    *)
(* gets.                                                                   *)
LEMMA SoundDefine ==
  ASSUME NEW vs, NEW us, Longer(vs, us), NEW v, WellMade(v, Len(us) + 1),
         NEW st, StateOk(vs, st), NEW re, Sound(vs, st, re), NEW r \in AllRegisters \ Bytes, NEW re2,
         \A q \in WordRegisters : q # r => RealIn(re2, q) = RealIn(re, q),
         r \in WordRegisters => \A n \in FactOf(FactsOf(us), v) : RealIn(re2, r) = n
  PROVE  Sound(Append(us, v), [st EXCEPT ![r] = Len(us) + 1], re2)
<1> DEFINE ws == Append(us, v)   t == [st EXCEPT ![r] = Len(us) + 1]
<1>1. Table(us) /\ Longer(us, ws)
  <2>1. Table(us)
    BY DEF Longer
  <2> QED
    BY <2>1, AppendIs
<1>2. Longer(vs, ws)
  BY <1>1, LongerTwice
<1>3. Sound(ws, st, re)
  BY <1>2, SoundLonger
<1>4. FactsOf(ws)[Len(us) + 1] = FactOf(FactsOf(us), v)
  BY <1>1, FactOfAppended
<1>5. t[r] = Len(us) + 1 /\ \A q \in AllRegisters : q # r => t[q] = st[q]
  BY DEF StateOk
<1> HIDE DEF ws, t
<1>6. \A b \in Bytes : FactsOf(ws)[t[b]] = {}
  BY <1>3, <1>5, WordsAre DEF Sound
<1>7. ASSUME NEW q \in WordRegisters, NEW n \in FactsOf(ws)[t[q]] PROVE RealIn(re2, q) = n
  <2>1. CASE q = r
    BY <1>4, <1>5, <1>7, <2>1
  <2>2. CASE q # r
    BY <1>3, <1>5, <1>7, <2>2, WordsAre DEF Sound
  <2> QED
    BY <2>1, <2>2
<1> QED
  BY <1>6, <1>7 DEF Sound, ws, t

(* What the values made say.                                               *)
LEMMA FactOfCopy ==
  ASSUME NEW f, NEW r, NEW id
  PROVE  FactOf(f, Value(r, "definition", <<id>>, {}, {})) = {}
BY DEF FactOf, Value

(* An operation that folds, on what is known of its inputs.                *)
LEMMA FactOfOperation ==
  ASSUME NEW f, NEW r, NEW a, NEW b, NEW ops
  PROVE  \A n \in FactOf(f, Value(r, "operation", <<a, b>>, {}, ops)) :
           \E op \in ops : \E x \in f[a], y \in f[b] : Folds(op) /\ n = compute_operation(op, x, y)
<1> DEFINE v == Value(r, "operation", <<a, b>>, {}, ops)
<1>1. v.kind = "operation" /\ v.inputs = <<a, b>> /\ v.operation = ops
  BY DEF Value
<1> HIDE DEF v
<1>2. FactOf(f, v) = { compute_operation(op, x, y) : op \in { op \in ops : Folds(op) }, x \in f[a], y \in f[b] }
  BY <1>1 DEF FactOf
<1> QED
  BY <1>2 DEF v

(* A phi of two arms.                                                      *)
LEMMA FactOfPhi ==
  ASSUME NEW f, NEW r, NEW a, NEW b
  PROVE  FactOf(f, Value(r, "phi", <<a, b>>, {}, {})) = IF f[a] = f[b] THEN f[a] ELSE {}
<1> DEFINE v == Value(r, "phi", <<a, b>>, {}, {})
           known == [k \in DOMAIN v.inputs |-> f[v.inputs[k]]]
<1>1. v.kind = "phi" /\ v.inputs = <<a, b>>
  BY DEF Value
<1>2. DOMAIN v.inputs = {1, 2} /\ v.inputs[1] = a /\ v.inputs[2] = b
  BY <1>1
<1> HIDE DEF v
<1>3. DOMAIN known = {1, 2} /\ known[1] = f[a] /\ known[2] = f[b]
  BY <1>2
<1>4. FactOf(f, v) = SameOnAllArms(known)
  BY <1>1 DEF FactOf
<1> HIDE DEF known
<1>5. SameOnAllArms(known) = IF f[a] = f[b] THEN f[a] ELSE {}
  BY <1>3 DEF SameOnAllArms
<1> QED
  BY <1>4, <1>5 DEF v

(* The arms are sound, so is the join, for the machine that took either.   *)
LEMMA SoundMerge ==
  ASSUME NEW vs, Table(vs), NEW f, NEW s, StateOk(vs, f), StateOk(vs, s),
         NEW re1, NEW re2, Sound(vs, f, re1), Sound(vs, s, re2), NEW re \in {re1, re2}
  PROVE  Sound(Merged(vs, f, s), MergedState(vs, f, s), re)
<1> DEFINE ws == Merged(vs, f, s)   st == MergedState(vs, f, s)
<1>1. /\ Longer(vs, ws) /\ Table(ws) /\ Sound(ws, f, re1) /\ Sound(ws, s, re2)
      /\ \A r \in AllRegisters :
           IF f[r] = s[r] THEN st[r] = f[r]
           ELSE ws[st[r]] = Value(r, "phi", <<f[r], s[r]>>, {}, {}) /\ st[r] \in DOMAIN ws
  <2>1. /\ Longer(vs, ws)
        /\ \A r \in AllRegisters :
             IF f[r] = s[r] THEN st[r] = f[r]
             ELSE ws[st[r]] = Value(r, "phi", <<f[r], s[r]>>, {}, {}) /\ st[r] \in DOMAIN ws
    BY MergeIs
  <2> HIDE DEF ws, st
  <2>2. Sound(ws, f, re1) /\ Sound(ws, s, re2)
    BY <2>1, SoundLonger
  <2>3. Table(ws)
    BY <2>1 DEF Longer
  <2> QED
    BY <2>1, <2>2, <2>3
<1> HIDE DEF ws, st
<1>2. ASSUME NEW r \in AllRegisters
      PROVE  FactsOf(ws)[st[r]] = IF FactsOf(ws)[f[r]] = FactsOf(ws)[s[r]] THEN FactsOf(ws)[f[r]] ELSE {}
  <2>1. CASE f[r] = s[r]
    BY <1>1, <2>1
  <2>2. CASE f[r] # s[r]
    <3>1. FactsOf(ws)[st[r]] = FactOf(FactsOf(ws), Value(r, "phi", <<f[r], s[r]>>, {}, {}))
      BY <1>1, <2>2, FactsAt
    <3> QED
      BY <3>1, FactOfPhi
  <2> QED
    BY <2>1, <2>2
<1>3. \A b \in Bytes : FactsOf(ws)[st[b]] = {}
  BY <1>1, <1>2, WordsAre DEF Sound
<1>4. ASSUME NEW r \in WordRegisters, NEW n \in FactsOf(ws)[st[r]] PROVE RealIn(re, r) = n
  <2>1. n \in FactsOf(ws)[f[r]] /\ n \in FactsOf(ws)[s[r]]
    BY <1>2, <1>4, WordsAre
  <2>2. RealIn(re1, r) = n /\ RealIn(re2, r) = n
    BY <1>1, <2>1 DEF Sound
  <2> QED
    BY <2>2
<1> QED
  BY <1>3, <1>4 DEF Sound, ws, st

(* Programs that name AX and BX and no other register: the bytes of a word *)
(* register alias it on the machine and not in the translator, and a PUSH  *)
(* of SP stores another word there.                                        *)
OnlyWords == Registers \subseteq WordRegisters

(* A definition keeps all three states sound, ...                          *)
LEMMA DefineSound ==
  ASSUME TypesInv, exact => Sound(values, state, real), exact' => exact,
         exact => Sound(values, fork.state, fork.real) /\ Sound(values, other.state, other.real),
         UNCHANGED <<fork, other>>,
         NEW vs, NEW r \in AllRegisters \ Bytes, NEW v, Defines(vs, r, v),
         exact' => \A q \in WordRegisters : q # r => RealIn(real', q) = RealIn(real, q),
         exact' => (r \in WordRegisters => \A n \in FactOf(FactsOf(vs), v) : RealIn(real', r) = n)
  PROVE  FactsInv'
<1> SUFFICES ASSUME exact'
             PROVE  Sound(values', state', real') /\ Sound(values', fork'.state, fork'.real)
                    /\ Sound(values', other'.state, other'.real)
  BY DEF FactsInv
<1>1. exact /\ Longer(values, values')
  BY DefinesBuilder
<1>2. StateOk(values, state) /\ StateOk(values, fork.state) /\ StateOk(values, other.state)
  BY MachineIs
<1>3. Sound(values', fork.state, fork.real) /\ Sound(values', other.state, other.real)
  BY <1>1, <1>2, SoundLonger
<1>4. Longer(values, vs) /\ WellMade(v, Len(vs) + 1) /\ values' = Append(vs, v)
      /\ state' = [state EXCEPT ![r] = Len(vs) + 1]
  BY DEF Defines
<1>5. Sound(Append(vs, v), [state EXCEPT ![r] = Len(vs) + 1], real')
  BY <1>1, <1>2, <1>4, SoundDefine
<1> QED
  BY <1>3, <1>4, <1>5

(* ... and so does an instruction on registers that computes what is       *)
(* known.                                                                  *)
LEMMA ComputesSound ==
  ASSUME TypesInv, FactsInv, OnlyWords, NEW vs, NEW r, NEW v, NEW known, NEW n, Computes(vs, r, v, known, n),
         exact /\ r \in WordRegisters => \A x \in FactOf(FactsOf(vs), v) : x = n
  PROVE  FactsInv'
<1>1. Defines(vs, r, v) /\ UNCHANGED <<exact, path, fork, other>> /\ r \in AllRegisters
  BY DEF Computes, memories, Defines
<1>2. r = "flags" => real' = real
  BY DEF Computes
<1>3. r # "flags" => /\ r \in WordRegisters /\ RealIn(real', r) = n
                     /\ \A q \in WordRegisters : q # r => RealIn(real', q) = RealIn(real, q)
  <2> SUFFICES ASSUME r # "flags"
               PROVE  /\ r \in WordRegisters /\ RealIn(real', r) = n
                      /\ \A q \in WordRegisters : q # r => RealIn(real', q) = RealIn(real, q)
    OBVIOUS
  <2>1. r \in WordRegisters /\ r \in Named /\ n \in Word /\ real' = Stored(real, r, n)
    BY ComputesStores DEF OnlyWords
  <2>2. r \notin Bytes
    BY <2>1, WordsAre
  <2> QED
    BY <2>1, <2>2, MachineIs, StoredIs
<1>4. r \in AllRegisters \ Bytes
  BY <1>1, <1>3, WordsAre
<1>5. exact => Sound(values, state, real) /\ Sound(values, fork.state, fork.real) /\ Sound(values, other.state, other.real)
  BY DEF FactsInv
<1>6. \A q \in WordRegisters : q # r => RealIn(real', q) = RealIn(real, q)
  BY <1>2, <1>3
<1>7. exact' => (r \in WordRegisters => \A x \in FactOf(FactsOf(vs), v) : RealIn(real', r) = x)
  BY <1>1, <1>3, WordsAre
<1>8. UNCHANGED <<fork, other>> /\ (exact' => exact)
  BY <1>1
<1> QED
  BY <1>1, <1>4, <1>5, <1>6, <1>7, <1>8, DefineSound

(* An operation on what is known gives what the machine computes.          *)
LEMMA OperationSound ==
  ASSUME TypesInv, FactsInv, OnlyWords, exact, NEW vs, Longer(values, vs), NEW r \in Registers, NEW op, NEW b, NEW n,
         \A y \in FactsOf(vs)[b] : y = n,
         NEW x \in FactOf(FactsOf(vs), Value(ResultRegister(r, op), "operation", <<state[r], b>>, {}, {op}))
  PROVE  x = compute_operation(op, RealValue(r), n)
<1>1. Sound(vs, state, real)
  BY MachineIs, SoundLonger DEF FactsInv
<1>2. PICK y \in FactsOf(vs)[state[r]], z \in FactsOf(vs)[b] : x = compute_operation(op, y, z)
  <2> DEFINE ops == {op}
  <2>1. x \in FactOf(FactsOf(vs), Value(ResultRegister(r, op), "operation", <<state[r], b>>, {}, ops))
    OBVIOUS
  <2>2. \A o \in ops : o = op
    OBVIOUS
  <2> HIDE DEF ops
  <2>3. \E o \in ops : \E u \in FactsOf(vs)[state[r]], z \in FactsOf(vs)[b] :
          Folds(o) /\ x = compute_operation(o, u, z)
    BY <2>1, FactOfOperation
  <2> QED
    BY <2>2, <2>3
<1>3. r \in WordRegisters /\ r \in Named
  BY WordsAre DEF OnlyWords
<1>4. RealValue(r) = y
  BY <1>1, <1>2, <1>3, RealIs DEF Sound
<1> QED
  BY <1>2, <1>4

(* Each of the four does.                                                  *)
LEMMA RegistersSound ==
  ASSUME TypesInv, FactsInv, OnlyWords,
         MoveImmediate \/ MoveRegister \/ ArithmeticImmediate \/ ArithmeticRegister
  PROVE  FactsInv'
<1>1. CASE MoveImmediate
  <2>1. PICK r \in Registers, n \in Word :
           Computes(values, r, Value(r, "definition", <<>>, {n}, {}), {n}, n)
    BY <1>1, MoveImmediateIs
  <2>2. \A x \in FactOf(FactsOf(values), Value(r, "definition", <<>>, {n}, {})) : x = n
    <3>1. FactOf(FactsOf(values), Value(r, "definition", <<>>, {n}, {})) = {n}
      BY DEF FactOf, Value
    <3> QED
      BY <3>1
  <2> QED
    BY <2>1, <2>2, ComputesSound
<1>2. CASE MoveRegister
  <2>1. PICK r \in Registers, s \in Registers :
           Computes(values, r, Value(r, "definition", <<state[s]>>, {}, {}),
                       values[state[s]].constant, RealValue(s))
    BY <1>2, MoveRegisterIs
  <2>2. \A x \in FactOf(FactsOf(values), Value(r, "definition", <<state[s]>>, {}, {})) : x = RealValue(s)
    BY FactOfCopy
  <2> QED
    BY <2>1, <2>2, ComputesSound
<1>3. CASE ArithmeticImmediate
  <2>1. PICK r \in Registers, op \in Operations, n \in Word : \E vs :
           /\ Longer(values, vs) /\ vs[Len(values) + 1] = Value(r, "definition", <<>>, {n}, {})
           /\ Len(values) + 1 \in DOMAIN vs
           /\ Computes(vs, ResultRegister(r, op),
                       Value(ResultRegister(r, op), "operation", <<state[r], Len(values) + 1>>, {}, {op}),
                       KnownResult(op, vs, state[r], Len(values) + 1), compute_operation(op, RealValue(r), n))
    BY <1>3, ArithmeticImmediateIs
  <2>2. PICK vs :
           /\ Longer(values, vs) /\ vs[Len(values) + 1] = Value(r, "definition", <<>>, {n}, {})
           /\ Len(values) + 1 \in DOMAIN vs
           /\ Computes(vs, ResultRegister(r, op),
                       Value(ResultRegister(r, op), "operation", <<state[r], Len(values) + 1>>, {}, {op}),
                       KnownResult(op, vs, state[r], Len(values) + 1), compute_operation(op, RealValue(r), n))
    BY <2>1
  <2>3. \A y \in FactsOf(vs)[Len(values) + 1] : y = n
    <3>1. Table(vs)
      BY <2>2 DEF Longer
    <3>2. FactsOf(vs)[Len(values) + 1] = FactOf(FactsOf(vs), Value(r, "definition", <<>>, {n}, {}))
      BY <2>2, <3>1, FactsAt
    <3>3. FactOf(FactsOf(vs), Value(r, "definition", <<>>, {n}, {})) = {n}
      BY DEF FactOf, Value
    <3> QED
      BY <3>2, <3>3
  <2>4. exact => \A x \in FactOf(FactsOf(vs), Value(ResultRegister(r, op), "operation", <<state[r], Len(values) + 1>>, {}, {op})) :
                   x = compute_operation(op, RealValue(r), n)
    BY <2>2, <2>3, OperationSound
  <2> QED
    BY <2>2, <2>4, ComputesSound
<1>4. CASE ArithmeticRegister
  <2>1. PICK r \in Registers, s \in Registers, op \in Operations :
           Computes(values, ResultRegister(r, op),
                    Value(ResultRegister(r, op), "operation", <<state[r], state[s]>>, {}, {op}),
                    KnownResult(op, values, state[r], state[s]),
                    compute_operation(op, RealValue(r), RealValue(s)))
    BY <1>4, ArithmeticRegisterIs
  <2>2. exact => \A y \in FactsOf(values)[state[s]] : y = RealValue(s)
    <3>1. s \in WordRegisters /\ s \in Named
      BY WordsAre DEF OnlyWords
    <3> QED
      BY <3>1, RealIs DEF FactsInv, Sound
  <2>3. Longer(values, values)
    BY TypesFacts
  <2>4. exact => \A x \in FactOf(FactsOf(values), Value(ResultRegister(r, op), "operation", <<state[r], state[s]>>, {}, {op})) :
                   x = compute_operation(op, RealValue(r), RealValue(s))
    BY <2>2, <2>3, OperationSound
  <2> QED
    BY <2>1, <2>4, ComputesSound
<1> QED
  BY <1>1, <1>2, <1>3, <1>4

(* What the stack invariant says when only words are named.                *)
LEMMA MemoryAgrees ==
  ASSUME StackInv, OnlyWords, exact
  PROVE  SP = real["sp"] /\ memory = ram /\ "sp" \notin Registers
BY WordsAre DEF StackInv, OnlyWords

(* A constant that is what the machine gets.                               *)
LEMMA DefinesConstantSound ==
  ASSUME TypesInv, FactsInv, exact' => exact, UNCHANGED <<fork, other>>,
         NEW r \in AllRegisters \ Bytes, NEW n, Defines(values, r, Value(r, "definition", <<>>, {n}, {})),
         exact' => \A q \in WordRegisters : q # r => RealIn(real', q) = RealIn(real, q),
         exact' => (r \in WordRegisters => RealIn(real', r) = n)
  PROVE  FactsInv'
<1>1. exact' => (r \in WordRegisters =>
        \A x \in FactOf(FactsOf(values), Value(r, "definition", <<>>, {n}, {})) : RealIn(real', r) = x)
  <2>1. FactOf(FactsOf(values), Value(r, "definition", <<>>, {n}, {})) = {n}
    BY DEF FactOf, Value
  <2> QED
    BY <2>1
<1> DEFINE v == Value(r, "definition", <<>>, {n}, {})
<1>2. Defines(values, r, v) /\ (exact' => (r \in WordRegisters => \A x \in FactOf(FactsOf(values), v) : RealIn(real', r) = x))
  BY <1>1
<1> HIDE DEF v
<1>3. exact => Sound(values, state, real) /\ Sound(values, fork.state, fork.real) /\ Sound(values, other.state, other.real)
  BY DEF FactsInv
<1> QED
  BY <1>2, <1>3, DefineSound

(* A load.                                                                 *)
LEMMA LoadSound ==
  ASSUME TypesInv, StackInv, FactsInv, OnlyWords, LoadFromMemory
  PROVE  FactsInv'
<1>1. PICK r \in Registers, n \in Word, m \in Word :
           /\ concrete' = StoredConcrete(concrete, r, n) /\ real' = Stored(real, r, m)
           /\ Defines(values, r, Value(r, "definition", <<>>, {n}, {}))
           /\ exact' => exact /\ (memory = ram => n = m)
           /\ exact' \in BOOLEAN
           /\ UNCHANGED <<memory, ram, path, fork, other>>
  BY LoadIs
<1>2. r \in WordRegisters /\ r \in Named /\ r \notin Bytes /\ r \in AllRegisters \ Bytes
  BY WordsAre DEF OnlyWords
<1>3. RealIn(real', r) = m /\ \A q \in WordRegisters : q # r => RealIn(real', q) = RealIn(real, q)
  BY <1>1, <1>2, MachineIs, StoredIs
<1>4. exact' => exact /\ n = m
  BY <1>1, MemoryAgrees
<1>5. UNCHANGED <<fork, other>> /\ Defines(values, r, Value(r, "definition", <<>>, {n}, {}))
  BY <1>1
<1> QED
  BY <1>2, <1>3, <1>4, <1>5, DefinesConstantSound

(* POP.                                                                    *)
LEMMA PopSound ==
  ASSUME TypesInv, StackInv, FactsInv, OnlyWords, Pop
  PROVE  FactsInv'
<1>1. PICK r \in Registers : \E n, m \in Word : \E p, q \in Word :
           /\ r \notin Bytes
           /\ concrete' = [StoredConcrete(concrete, r, n) EXCEPT !["sp"] = p]
           /\ real' = IF r = "sp" THEN Stored(real, r, m) ELSE Stored(Stored(real, "sp", q), r, m)
           /\ Defines(values, r, Value(r, "definition", <<>>, {n}, {}))
           /\ exact' => exact /\ p = q /\ (memory = ram => n = m)
           /\ exact' \in BOOLEAN /\ path = "straight"
           /\ UNCHANGED <<memory, ram, path, fork, other>>
  BY PopIs
<1>2. PICK n \in Word, m \in Word, p \in Word, q \in Word :
           /\ real' = IF r = "sp" THEN Stored(real, r, m) ELSE Stored(Stored(real, "sp", q), r, m)
           /\ Defines(values, r, Value(r, "definition", <<>>, {n}, {}))
           /\ exact' => exact /\ (memory = ram => n = m)
           /\ UNCHANGED <<fork, other>>
  BY <1>1
<1>3. r \in WordRegisters /\ r \in Named /\ r \notin Bytes /\ r \in AllRegisters \ Bytes /\ r # "sp"
  BY WordsAre DEF OnlyWords
<1>4. RealIn(real', r) = m /\ \A x \in WordRegisters : x # r => RealIn(real', x) = RealIn(real, x)
  <2> DEFINE re == Stored(real, "sp", q)
  <2>1. RealOk(re) /\ \A x \in WordRegisters : RealIn(re, x) = RealIn(real, x)
    BY MachineIs, StoredIs, WordsAre
  <2>2. real' = Stored(re, r, m)
    BY <1>2, <1>3
  <2> HIDE DEF re
  <2> QED
    BY <1>3, <2>1, <2>2, StoredIs
<1>5. exact' => exact /\ n = m
  BY <1>2, MemoryAgrees
<1> QED
  BY <1>2, <1>3, <1>4, <1>5, DefinesConstantSound

(* PUSH, CALL and RET define SP, of which nothing is claimed.              *)
LEMMA PointerSound ==
  ASSUME TypesInv, FactsInv, MovesPointer
  PROVE  FactsInv'
<1>1. PICK n \in Word, m \in Word :
    /\ real' = Stored(real, "sp", m)
    /\ Defines(values, "sp", Value("sp", "definition", <<>>, {n}, {}))
    /\ exact' => exact
    /\ UNCHANGED <<fork, other>>
  BY DEF MovesPointer
<1>2. \A q \in WordRegisters : RealIn(real', q) = RealIn(real, q)
  BY <1>1, MachineIs, StoredIs, WordsAre
<1>3. "sp" \in AllRegisters \ Bytes /\ "sp" \notin WordRegisters
  BY WordsAre, Order DEF WordRegisters
<1> QED
  BY <1>1, <1>2, <1>3, DefinesConstantSound

(* A store defines no register.                                            *)
LEMMA StoreSound ==
  ASSUME TypesInv, StackInv, FactsInv, StoreToMemory
  PROVE  FactsInv'
<1>1. Longer(values, values') /\ UNCHANGED <<state, real, fork, other>> /\ (exact' => exact)
  BY StoreStep, StoreIs
<1>2. StateOk(values, state) /\ StateOk(values, fork.state) /\ StateOk(values, other.state)
  BY MachineIs
<1> QED
  BY <1>1, <1>2, SoundLonger DEF FactsInv

(* The fork, the second arm and the join.                                  *)
LEMMA ArmsSound ==
  ASSUME TypesInv, FactsInv, Fork \/ SecondArm \/ Join
  PROVE  FactsInv'
<1>1. CASE Fork
  <2>1. fork' = [state |-> state, real |-> real] /\ UNCHANGED <<values, state, real, exact, other>>
    BY <1>1 DEF Fork, memories
  <2>2. fork'.state = state /\ fork'.real = real
    BY <2>1
  <2> QED
    BY <2>1, <2>2 DEF FactsInv
<1>2. CASE SecondArm
  <2>1. /\ other' = [state |-> state, real |-> real] /\ state' = fork.state /\ real' = fork.real
        /\ UNCHANGED <<values, exact, fork>>
    BY <1>2 DEF SecondArm, memories
  <2>2. other'.state = state /\ other'.real = real
    BY <2>1
  <2> QED
    BY <2>1, <2>2 DEF FactsInv
<1>3. CASE Join
  <2>1. /\ values' = Merged(values, other.state, state) /\ state' = MergedState(values, other.state, state)
        /\ real' \in {other.real, real} /\ UNCHANGED <<exact, fork, other>>
    BY <1>3, JoinIs
  <2>2. Table(values) /\ StateOk(values, state) /\ StateOk(values, fork.state) /\ StateOk(values, other.state)
    BY MachineIs
  <2>3. Longer(values, values')
    BY <2>1, <2>2, MergeIs
  <2>4. exact => Sound(values', state', real')
    <3> SUFFICES ASSUME exact PROVE Sound(values', state', real')
      OBVIOUS
    <3>1. Sound(values, other.state, other.real) /\ Sound(values, state, real)
      BY DEF FactsInv
    <3>2. Sound(Merged(values, other.state, state), MergedState(values, other.state, state), real')
      BY <2>1, <2>2, <3>1, SoundMerge
    <3> QED
      BY <2>1, <3>2
  <2>5. exact => Sound(values', fork.state, fork.real) /\ Sound(values', other.state, other.real)
    BY <2>2, <2>3, SoundLonger DEF FactsInv
  <2> QED
    BY <2>1, <2>4, <2>5 DEF FactsInv
<1> QED
  BY <1>1, <1>2, <1>3

(* Every step keeps the states sound.                                      *)
LEMMA FactsStep == OnlyWords /\ TypesInv /\ StackInv /\ FactsInv /\ [Next]_vars => FactsInv'
<1> SUFFICES ASSUME OnlyWords, TypesInv, StackInv, FactsInv, [Next]_vars PROVE FactsInv'
  OBVIOUS
<1>1. CASE MoveImmediate \/ MoveRegister \/ ArithmeticImmediate \/ ArithmeticRegister
  BY <1>1, RegistersSound
<1>2. CASE LoadFromMemory
  BY <1>2, LoadSound
<1>3. CASE StoreToMemory
  BY <1>3, StoreSound
<1>4. CASE Push \/ Call \/ Return
  BY <1>4, PushMoves, CallMoves, ReturnMoves, PointerSound
<1>5. CASE Pop
  BY <1>5, PopSound
<1>6. CASE Fork \/ SecondArm \/ Join
  BY <1>6, ArmsSound
<1>7. CASE UNCHANGED vars
  <2>1. UNCHANGED <<values, state, real, exact, fork, other>>
    BY <1>7 DEF vars, memories
  <2> QED
    BY <2>1 DEF FactsInv
<1> QED
  BY <1>1, <1>2, <1>3, <1>4, <1>5, <1>6, <1>7 DEF Next, Translated

(* Of the entry values nothing is known.                                   *)
LEMMA FactsStart == Init => FactsInv
<1> SUFFICES ASSUME Init PROVE FactsInv
  OBVIOUS
<1>1. fork.state = state /\ other.state = state /\ values = EntryValues
  BY DEF Init
<1>2. Table(values) /\ StateOk(values, state)
  BY StartingTypes, MachineIs
<1>3. \A i \in DOMAIN values : values[i].kind = "entry" /\ values[i].constant = {}
  BY <1>1 DEF EntryValues, Value
<1>4. ASSUME NEW r \in AllRegisters PROVE FactsOf(values)[state[r]] = {}
  <2>1. state[r] \in DOMAIN values
    BY <1>2 DEF StateOk
  <2>2. FactsOf(values)[state[r]] = FactOf(FactsOf(values), values[state[r]])
    BY <1>2, <2>1, FactsAt
  <2> QED
    BY <1>3, <2>1, <2>2 DEF FactOf
<1> QED
  BY <1>1, <1>4, WordsAre DEF FactsInv, Sound

(* The typing invariant is stronger than the type invariant of the model.  *)
LEMMA TypesAre == TypesInv => TypeOK
<1> SUFFICES ASSUME TypesInv PROVE TypeOK
  OBVIOUS
<1>1. \A r \in AllRegisters : state[r] \in DOMAIN values /\ values[state[r]].reg = r
  BY MachineIs DEF StateOk
<1>2. ASSUME NEW i \in DOMAIN values
      PROVE  ~Rejects(i) /\ \A k \in DOMAIN values[i].inputs : values[i].inputs[k] < i
  <2>1. WellMade(values[i], i) /\ i \in Nat
    BY MachineIs, TableFacts
  <2>2. \A k \in DOMAIN values[i].inputs : values[i].inputs[k] < i /\ ~(values[i].inputs[k] >= i)
    BY <2>1 DEF WellMade
  <2>3. values[i].kind = "operation" => values[i].operation # {} /\ Len(values[i].inputs) = 2
    BY <2>1 DEF WellMade
  <2> QED
    BY <2>2, <2>3 DEF Rejects
<1>3. /\ \A r \in DOMAIN concrete : concrete[r] \in 0 .. WordSize - 1
      /\ \A b \in Bytes : real[b] \in 0 .. ByteSize - 1
      /\ \A a \in Addresses : {memory[a], ram[a]} \subseteq 0 .. ByteSize - 1
  BY MachineIs DEF ConcreteOk, RealOk, Memories, Word, Byte
<1> QED
  BY <1>1, <1>2, <1>3, MachineIs DEF TypeOK

(* For all registers, immediates and operations: a register names a value  *)
(* of its own, analyze rejects no table the builder makes, and the inputs  *)
(* of every value are earlier ones, so that the chains of resolve_constant *)
(* end.                                                                    *)
THEOREM TypesCorrect == Spec => []TypeOK
<1> QED
  BY StackStarts, StackStep, TypesAre, PTL DEF Spec

(* For programs on AX and BX, every width of a byte and all immediates and *)
(* operations: what constant_propagation knows of a register is what the   *)
(* machine holds in it, behind any diamond, and after any sequence of      *)
(* pushes, pops, loads and stores.                                         *)
THEOREM FactsSoundCorrect ==
  ASSUME Registers \subseteq {"ax", "bx"}
  PROVE  Spec => []FactsSound
<1>1. OnlyWords
  BY DEF OnlyWords, WordRegisters
<1>2. TypesInv /\ FactsInv => FactsSound
  <2> SUFFICES ASSUME TypesInv, FactsInv PROVE FactsSound
    OBVIOUS
  <2>1. TypeOK
    BY TypesAre
  <2>2. AllRegisters \ {"flags", "sp"} = Bytes \cup WordRegisters
    BY Order DEF Bytes, WordRegisters
  <2>3. exact => \A r \in Bytes \cup WordRegisters : \A n \in FactsOf(values)[state[r]] : RealValue(r) = n
    BY RealIs, WordsAre DEF FactsInv, Sound
  <2> QED
    BY <2>1, <2>2, <2>3, AnalyzeIs DEF FactsSound
<1> QED
  BY <1>1, <1>2, StackStarts, FactsStart, StackStep, FactsStep, PTL DEF Spec

----------------------------------------------------------------------------
(* OneStep in any table.                                                   *)
OneStepIn(vs, v) ==
  CASE v.constant # {} -> v.constant
    [] v.kind = "definition" /\ v.inputs # <<>> -> vs[v.inputs[1]].constant
    [] v.kind = "operation" ->
         { compute_operation(op, a, b) : op \in v.operation,
             a \in vs[v.inputs[1]].constant, b \in vs[v.inputs[2]].constant }
    [] OTHER -> {}

(* It is the one of the model.                                             *)
LEMMA OneStepIs == \A v : OneStep(v) = OneStepIn(values, v)
BY DEF OneStep, OneStepIn

(* It depends on the inputs alone, ...                                     *)
LEMMA OneStepLonger ==
  ASSUME NEW vs, NEW ws, Longer(vs, ws), NEW v, WellMade(v, Len(vs) + 1)
  PROVE  OneStepIn(ws, v) = OneStepIn(vs, v)
<1>1. Len(vs) \in Nat /\ (\A i \in 1 .. Len(vs) : ws[i] = vs[i])
  BY TableFacts DEF Longer
<1>2. /\ v.inputs \in Seq(Nat)
      /\ \A k \in DOMAIN v.inputs : v.inputs[k] \in 1 .. Len(vs)
      /\ v.kind = "operation" => Len(v.inputs) = 2
      /\ v.kind = "operation" \/ v.inputs # <<>> => v.constant = {}
  BY <1>1 DEF WellMade, ValueRecords
<1>3. \A k \in DOMAIN v.inputs : ws[v.inputs[k]] = vs[v.inputs[k]]
  BY <1>1, <1>2
<1>4. CASE v.constant # {}
  BY <1>2, <1>4 DEF OneStepIn
<1>5. CASE v.constant = {} /\ v.kind = "definition" /\ v.inputs # <<>>
  <2>1. 1 \in DOMAIN v.inputs
    BY <1>2, <1>5
  <2> QED
    BY <1>3, <1>5, <2>1 DEF OneStepIn
<1>6. CASE v.constant = {} /\ v.kind = "operation"
  <2>1. 1 \in DOMAIN v.inputs /\ 2 \in DOMAIN v.inputs
    BY <1>2, <1>6
  <2>2. ws[v.inputs[1]] = vs[v.inputs[1]] /\ ws[v.inputs[2]] = vs[v.inputs[2]]
    BY <1>3, <2>1
  <2> QED
    BY <1>6, <2>2 DEF OneStepIn
<1>7. CASE v.constant = {} /\ ~(v.kind = "definition" /\ v.inputs # <<>>) /\ v.kind # "operation"
  BY <1>7 DEF OneStepIn
<1> QED
  BY <1>4, <1>5, <1>6, <1>7

(* ... which a longer table has as well.                                   *)
LEMMA OneStepAt ==
  ASSUME NEW vs, NEW ws, Longer(vs, ws), NEW i \in 1 .. Len(vs)
  PROVE  OneStepIn(ws, ws[i]) = OneStepIn(vs, vs[i])
<1>1. Table(vs) /\ Len(vs) \in Nat /\ DOMAIN vs = 1 .. Len(vs) /\ ws[i] = vs[i]
  BY TableFacts DEF Longer
<1>2. WellMade(vs[i], Len(vs) + 1)
  <2>1. WellMade(vs[i], i)
    BY <1>1 DEF Table
  <2>2. \A x \in 1 .. i - 1 : x \in 1 .. (Len(vs) + 1) - 1
    BY <1>1
  <2> QED
    BY <2>1, <2>2 DEF WellMade
<1> QED
  BY <1>1, <1>2, OneStepLonger

(* What one step of resolving a value made by the builder finds.           *)
LEMMA OneStepConstant ==
  ASSUME NEW vs, NEW r, NEW n, NEW x \in OneStepIn(vs, Value(r, "definition", <<>>, {n}, {}))
  PROVE  x = n
BY DEF OneStepIn, Value

(* Of a copy it is the constant copied.                                    *)
LEMMA OneStepCopy ==
  ASSUME NEW vs, NEW r, NEW id
  PROVE  OneStepIn(vs, Value(r, "definition", <<id>>, {}, {})) = vs[id].constant
BY DEF OneStepIn, Value

ConstInv ==
  path = "straight" /\ exact =>
    \A r \in Registers : \A n \in OneStepIn(values, values[state[r]]) : concrete[r] = n /\ RealIn(real, r) = n

(* A register that holds a constant value holds it in both machines.       *)
LEMMA ConstantIsConcrete ==
  ASSUME TypesInv, OnlyWords, ConstInv, path = "straight", exact, NEW r \in Registers, NEW n \in values[state[r]].constant
  PROVE  concrete[r] = n /\ RealValue(r) = n
<1>1. r \in AllRegisters /\ r \in Named /\ state[r] \in DOMAIN values
  BY TypesFacts
<1>2. WellMade(values[state[r]], state[r])
  BY <1>1, TypesFacts, TableFacts
<1>3. OneStepIn(values, values[state[r]]) = values[state[r]].constant
  <2> DEFINE v == values[state[r]]
  <2>1. v.constant # {} /\ ~(v.kind = "operation" \/ v.inputs # <<>>)
    BY <1>2 DEF WellMade
  <2> HIDE DEF v
  <2>2. OneStepIn(values, v) = v.constant
    BY <2>1 DEF OneStepIn
  <2> QED
    BY <2>2 DEF v
<1>4. concrete[r] = n /\ RealIn(real, r) = n
  BY <1>3 DEF ConstInv
<1> QED
  BY <1>1, <1>4, RealIs

(* A definition keeps this if one step of resolving it is what both        *)
(* machines get, ...                                                       *)
LEMMA DefineConst ==
  ASSUME TypesInv, OnlyWords, ConstInv, exact' => exact, path' = path,
         NEW vs, NEW r, NEW v, Defines(vs, r, v),
         exact' /\ path = "straight" =>
           \A q \in Registers : q # r => concrete'[q] = concrete[q] /\ RealIn(real', q) = RealIn(real, q),
         exact' /\ path = "straight" /\ r \in Registers =>
           \A n \in OneStepIn(vs, v) : concrete'[r] = n /\ RealIn(real', r) = n
  PROVE  ConstInv'
<1> SUFFICES ASSUME exact', path = "straight", NEW q \in Registers,
                    NEW n \in OneStepIn(values', values'[state'[q]])
             PROVE  concrete'[q] = n /\ RealIn(real', q) = n
  BY DEF ConstInv
<1>1. /\ Longer(values, vs) /\ WellMade(v, Len(vs) + 1) /\ values' = Append(vs, v)
      /\ state' = [state EXCEPT ![r] = Len(vs) + 1] /\ r \in AllRegisters
  BY DEF Defines
<1>2. Table(vs)
  BY <1>1 DEF Longer
<1>3. Longer(vs, values') /\ values'[Len(vs) + 1] = v
  BY <1>1, <1>2, AppendIs
<1>4. Longer(values, values')
  BY <1>1, <1>3, LongerTwice
<1>5. q \in AllRegisters /\ state[q] \in 1 .. Len(values) /\ DOMAIN state = AllRegisters
  BY TypesFacts, MachineIs DEF StateOk
<1>6. CASE q = r
  <2>1. values'[state'[q]] = v
    BY <1>1, <1>3, <1>5, <1>6
  <2>2. OneStepIn(values', v) = OneStepIn(vs, v)
    BY <1>1, <1>3, OneStepLonger
  <2> QED
    BY <1>6, <2>1, <2>2
<1>7. CASE q # r
  <2>1. state'[q] = state[q]
    BY <1>1, <1>5, <1>7
  <2>2. OneStepIn(values', values'[state[q]]) = OneStepIn(values, values[state[q]])
    BY <1>4, <1>5, OneStepAt
  <2>3. concrete[q] = n /\ RealIn(real, q) = n
    BY <2>1, <2>2 DEF ConstInv
  <2> QED
    BY <1>7, <2>3
<1> QED
  BY <1>6, <1>7

(* ... as instructions on registers do, ...                                *)
LEMMA ComputesConst ==
  ASSUME TypesInv, OnlyWords, ConstInv, NEW vs, NEW r, NEW v, NEW known, NEW n, Computes(vs, r, v, known, n),
         OneStepIn(vs, v) = known,
         exact /\ path = "straight" /\ r \in Registers => \A x \in known : x = n
  PROVE  ConstInv'
<1>1. Defines(vs, r, v) /\ exact' = exact /\ path' = path
  BY DEF Computes, memories
<1>2. CASE r = "flags"
  <2>1. r \notin Registers /\ concrete' = concrete /\ real' = real
    BY <1>2, WordsAre DEF Computes, OnlyWords
  <2> QED
    BY <1>1, <2>1, DefineConst
<1>3. CASE r # "flags"
  <2>1. /\ r \in Registers /\ r \in Named /\ n \in Word /\ real' = Stored(real, r, n)
        /\ \/ concrete' = concrete /\ (path # "straight" \/ known = {})
           \/ \E m \in known : m \in Word /\ concrete' = StoredConcrete(concrete, r, m)
    BY <1>3, ComputesStores
  <2>2. r \in WordRegisters /\ r \notin Bytes /\ \A q \in Registers : q \in WordRegisters /\ q \in Named
    BY <2>1, WordsAre DEF OnlyWords
  <2>3. RealIn(real', r) = n /\ \A q \in Registers : q # r => RealIn(real', q) = RealIn(real, q)
    BY <2>1, <2>2, MachineIs, StoredIs
  <2>4. \A q \in Registers : q # r => concrete'[q] = concrete[q]
    BY <2>1, <2>2, MachineIs, StoredConcreteIs
  <2>5. exact' /\ path = "straight" => \A x \in OneStepIn(vs, v) : concrete'[r] = x /\ RealIn(real', r) = x
    <3> SUFFICES ASSUME exact', path = "straight", NEW x \in known PROVE concrete'[r] = x /\ RealIn(real', r) = x
      OBVIOUS
    <3>1. x = n /\ \A y \in known : y = n
      BY <1>1, <2>1
    <3>2. PICK m \in known : m \in Word /\ concrete' = StoredConcrete(concrete, r, m)
      BY <2>1
    <3>3. concrete'[r] = m
      BY <2>1, <2>2, <3>2, MachineIs, StoredConcreteIs
    <3> QED
      BY <2>3, <3>1, <3>2, <3>3
  <2> QED
    BY <1>1, <2>3, <2>4, <2>5, DefineConst
<1> QED
  BY <1>2, <1>3

(* ... each of the four, ...                                               *)
LEMMA RegistersConst ==
  ASSUME TypesInv, OnlyWords, ConstInv,
         MoveImmediate \/ MoveRegister \/ ArithmeticImmediate \/ ArithmeticRegister
  PROVE  ConstInv'
<1>1. CASE MoveImmediate
  <2>1. PICK r \in Registers, n \in Word :
           Computes(values, r, Value(r, "definition", <<>>, {n}, {}), {n}, n)
    BY <1>1, MoveImmediateIs
  <2>2. OneStepIn(values, Value(r, "definition", <<>>, {n}, {})) = {n}
    BY DEF OneStepIn, Value
  <2>3. \A x \in {n} : x = n
    OBVIOUS
  <2> QED
    BY <2>1, <2>2, <2>3, ComputesConst
<1>2. CASE MoveRegister
  <2>1. PICK r \in Registers, s \in Registers :
           Computes(values, r, Value(r, "definition", <<state[s]>>, {}, {}),
                       values[state[s]].constant, RealValue(s))
    BY <1>2, MoveRegisterIs
  <2>2. OneStepIn(values, Value(r, "definition", <<state[s]>>, {}, {})) = values[state[s]].constant
    BY OneStepCopy
  <2>3. exact /\ path = "straight" => \A x \in values[state[s]].constant : x = RealValue(s)
    BY ConstantIsConcrete
  <2> QED
    BY <2>1, <2>2, <2>3, ComputesConst
<1>3. CASE ArithmeticImmediate
  <2>1. PICK r \in Registers, op \in Operations, n \in Word : \E vs :
           /\ Longer(values, vs) /\ vs[Len(values) + 1] = Value(r, "definition", <<>>, {n}, {})
           /\ Len(values) + 1 \in DOMAIN vs
           /\ Computes(vs, ResultRegister(r, op),
                       Value(ResultRegister(r, op), "operation", <<state[r], Len(values) + 1>>, {}, {op}),
                       KnownResult(op, vs, state[r], Len(values) + 1), compute_operation(op, RealValue(r), n))
    BY <1>3, ArithmeticImmediateIs
  <2>2. PICK vs :
           /\ Longer(values, vs) /\ vs[Len(values) + 1] = Value(r, "definition", <<>>, {n}, {})
           /\ Len(values) + 1 \in DOMAIN vs
           /\ Computes(vs, ResultRegister(r, op),
                       Value(ResultRegister(r, op), "operation", <<state[r], Len(values) + 1>>, {}, {op}),
                       KnownResult(op, vs, state[r], Len(values) + 1), compute_operation(op, RealValue(r), n))
    BY <2>1
  <2>3. \A y \in vs[Len(values) + 1].constant : y = n
    BY <2>2 DEF Value
  <2>4. vs[state[r]] = values[state[r]]
    BY <2>2, TypesFacts DEF Longer
  <2>5. exact /\ path = "straight" => \A y \in vs[state[r]].constant : y = RealValue(r)
    BY <2>4, ConstantIsConcrete
  <2>6. exact /\ path = "straight" => \A x \in KnownResult(op, vs, state[r], Len(values) + 1) :
                   x = compute_operation(op, RealValue(r), n)
    BY <2>3, <2>5 DEF KnownResult
  <2>7. OneStepIn(vs, Value(ResultRegister(r, op), "operation", <<state[r], Len(values) + 1>>, {}, {op}))
        = KnownResult(op, vs, state[r], Len(values) + 1)
    BY DEF OneStepIn, Value, KnownResult
  <2> QED
    BY <2>2, <2>6, <2>7, ComputesConst
<1>4. CASE ArithmeticRegister
  <2>1. PICK r \in Registers, s \in Registers, op \in Operations :
           Computes(values, ResultRegister(r, op),
                    Value(ResultRegister(r, op), "operation", <<state[r], state[s]>>, {}, {op}),
                    KnownResult(op, values, state[r], state[s]),
                    compute_operation(op, RealValue(r), RealValue(s)))
    BY <1>4, ArithmeticRegisterIs
  <2>2. exact /\ path = "straight" => /\ \A y \in values[state[r]].constant : y = RealValue(r)
                                      /\ \A y \in values[state[s]].constant : y = RealValue(s)
    BY ConstantIsConcrete
  <2>3. exact /\ path = "straight" => \A x \in KnownResult(op, values, state[r], state[s]) :
                   x = compute_operation(op, RealValue(r), RealValue(s))
    BY <2>2 DEF KnownResult
  <2>4. OneStepIn(values, Value(ResultRegister(r, op), "operation", <<state[r], state[s]>>, {}, {op}))
        = KnownResult(op, values, state[r], state[s])
    BY DEF OneStepIn, Value, KnownResult
  <2> QED
    BY <2>1, <2>3, <2>4, ComputesConst
<1> QED
  BY <1>1, <1>2, <1>3, <1>4

(* ... a load, ...                                                         *)
LEMMA LoadConst ==
  ASSUME TypesInv, StackInv, OnlyWords, ConstInv, LoadFromMemory
  PROVE  ConstInv'
<1>1. PICK r \in Registers, n \in Word, m \in Word :
           /\ concrete' = StoredConcrete(concrete, r, n) /\ real' = Stored(real, r, m)
           /\ Defines(values, r, Value(r, "definition", <<>>, {n}, {}))
           /\ exact' => exact /\ (memory = ram => n = m)
           /\ exact' \in BOOLEAN
           /\ UNCHANGED <<memory, ram, path, fork, other>>
  BY LoadIs
<1>2. r \in WordRegisters /\ r \in Named /\ r \notin Bytes /\ \A q \in Registers : q \in WordRegisters /\ q \in Named
  BY WordsAre DEF OnlyWords
<1>3. RealIn(real', r) = m /\ \A q \in Registers : q # r => RealIn(real', q) = RealIn(real, q)
  BY <1>1, <1>2, MachineIs, StoredIs
<1>4. concrete'[r] = n /\ \A q \in Registers : q # r => concrete'[q] = concrete[q]
  BY <1>1, <1>2, MachineIs, StoredConcreteIs
<1>5. exact' => exact /\ n = m
  BY <1>1, MemoryAgrees
<1>6. \A x \in OneStepIn(values, Value(r, "definition", <<>>, {n}, {})) : x = n
  BY OneStepConstant
<1> QED
  BY <1>1, <1>3, <1>4, <1>5, <1>6, DefineConst

(* ... POP ...                                                             *)
LEMMA PopConst ==
  ASSUME TypesInv, StackInv, OnlyWords, ConstInv, Pop
  PROVE  ConstInv'
<1>1. PICK r \in Registers : \E n, m \in Word : \E p, q \in Word :
           /\ r \notin Bytes
           /\ concrete' = [StoredConcrete(concrete, r, n) EXCEPT !["sp"] = p]
           /\ real' = IF r = "sp" THEN Stored(real, r, m) ELSE Stored(Stored(real, "sp", q), r, m)
           /\ Defines(values, r, Value(r, "definition", <<>>, {n}, {}))
           /\ exact' => exact /\ p = q /\ (memory = ram => n = m)
           /\ exact' \in BOOLEAN /\ path = "straight"
           /\ UNCHANGED <<memory, ram, path, fork, other>>
  BY PopIs
<1>2. PICK n \in Word, m \in Word, p \in Word, q \in Word :
           /\ concrete' = [StoredConcrete(concrete, r, n) EXCEPT !["sp"] = p]
           /\ real' = IF r = "sp" THEN Stored(real, r, m) ELSE Stored(Stored(real, "sp", q), r, m)
           /\ Defines(values, r, Value(r, "definition", <<>>, {n}, {}))
           /\ exact' => exact /\ (memory = ram => n = m)
           /\ UNCHANGED path
  BY <1>1
<1>3. /\ r \in WordRegisters /\ r \in Named /\ r \notin Bytes /\ r # "sp"
      /\ \A x \in Registers : x \in WordRegisters /\ x \in Named /\ x # "sp"
  BY WordsAre DEF OnlyWords
<1>4. RealIn(real', r) = m /\ \A x \in Registers : x # r => RealIn(real', x) = RealIn(real, x)
  <2> DEFINE re == Stored(real, "sp", q)
  <2>1. RealOk(re) /\ \A x \in WordRegisters : RealIn(re, x) = RealIn(real, x)
    BY MachineIs, StoredIs, WordsAre
  <2>2. real' = Stored(re, r, m)
    BY <1>2, <1>3
  <2> HIDE DEF re
  <2> QED
    BY <1>3, <2>1, <2>2, StoredIs
<1>5. concrete'[r] = n /\ \A x \in Registers : x # r => concrete'[x] = concrete[x]
  <2> DEFINE c == StoredConcrete(concrete, r, n)
  <2>1. c[r] = n /\ (\A x \in Registers : x # r => c[x] = concrete[x]) /\ ConcreteOk(c)
    BY <1>3, MachineIs, StoredConcreteIs
  <2>2. concrete' = [c EXCEPT !["sp"] = p]
    BY <1>2
  <2> HIDE DEF c
  <2> QED
    BY <1>3, <2>1, <2>2 DEF ConcreteOk
<1>6. exact' => exact /\ n = m
  BY <1>2, MemoryAgrees
<1>7. \A x \in OneStepIn(values, Value(r, "definition", <<>>, {n}, {})) : x = n
  BY OneStepConstant
<1> QED
  BY <1>2, <1>4, <1>5, <1>6, <1>7, DefineConst

(* ... and those that define SP.                                           *)
LEMMA PointerConst ==
  ASSUME TypesInv, OnlyWords, ConstInv, MovesPointer
  PROVE  ConstInv'
<1>1. PICK n \in Word, m \in Word :
    /\ concrete' = StoredConcrete(concrete, "sp", n) /\ real' = Stored(real, "sp", m)
    /\ Defines(values, "sp", Value("sp", "definition", <<>>, {n}, {}))
    /\ exact' => exact
    /\ UNCHANGED path
  BY DEF MovesPointer
<1>2. "sp" \notin Registers /\ \A q \in Registers : q \in WordRegisters /\ q \in Named /\ q # "sp"
  BY WordsAre DEF OnlyWords
<1>3. \A q \in Registers : concrete'[q] = concrete[q] /\ RealIn(real', q) = RealIn(real, q)
  BY <1>1, <1>2, MachineIs, StoredIs, StoredConcreteIs, WordsAre
<1> QED
  BY <1>1, <1>2, <1>3, DefineConst

(* A store may overrun the concrete bytes behind the array, and no word.   *)
LEMMA StoreConst ==
  ASSUME TypesInv, StackInv, OnlyWords, ConstInv, StoreToMemory
  PROVE  ConstInv'
<1>1. Longer(values, values') /\ UNCHANGED <<state, real>> /\ (exact' => exact) /\ path = "straight"
      /\ concrete' \in {concrete, Overrun}
  BY StoreStep, StoreIs
<1>2. ASSUME NEW q \in Registers
      PROVE  /\ OneStepIn(values', values'[state'[q]]) = OneStepIn(values, values[state[q]])
             /\ concrete'[q] = concrete[q]
  <2>1. state[q] \in 1 .. Len(values)
    BY TypesFacts
  <2>2. q \notin Bytes /\ q \in Named
    BY WordsAre DEF OnlyWords
  <2>3. Overrun[q] = concrete[q]
    BY <2>2, MachineIs DEF Overrun, ConcreteOk, Bytes
  <2> QED
    BY <1>1, <2>1, <2>3, OneStepAt
<1> QED
  BY <1>1, <1>2 DEF ConstInv

(* Every step keeps constants concrete.                                    *)
LEMMA ConstStep == OnlyWords /\ TypesInv /\ StackInv /\ ConstInv /\ [Next]_vars => ConstInv'
<1> SUFFICES ASSUME OnlyWords, TypesInv, StackInv, ConstInv, [Next]_vars PROVE ConstInv'
  OBVIOUS
<1>1. CASE MoveImmediate \/ MoveRegister \/ ArithmeticImmediate \/ ArithmeticRegister
  BY <1>1, RegistersConst
<1>2. CASE LoadFromMemory
  BY <1>2, LoadConst
<1>3. CASE StoreToMemory
  BY <1>3, StoreConst
<1>4. CASE Push \/ Call \/ Return
  BY <1>4, PushMoves, CallMoves, ReturnMoves, PointerConst
<1>5. CASE Pop
  BY <1>5, PopConst
<1>6. CASE Fork \/ SecondArm \/ Join
  BY <1>6 DEF Fork, SecondArm, Join, ConstInv
<1>7. CASE UNCHANGED vars
  <2>1. UNCHANGED <<values, state, concrete, real, exact, path>>
    BY <1>7 DEF vars, memories
  <2> QED
    BY <2>1 DEF ConstInv
<1> QED
  BY <1>1, <1>2, <1>3, <1>4, <1>5, <1>6, <1>7 DEF Next, Translated

(* Entry values are no constants.                                          *)
LEMMA ConstStarts == Init => ConstInv
<1> SUFFICES ASSUME Init PROVE ConstInv
  OBVIOUS
<1>1. values = EntryValues
  BY DEF Init
<1>2. Table(values) /\ StateOk(values, state)
  BY StartingTypes, MachineIs
<1>3. \A i \in DOMAIN values : values[i].kind = "entry" /\ values[i].constant = {}
  BY <1>1 DEF EntryValues, Value
<1>4. ASSUME NEW r \in Registers PROVE OneStepIn(values, values[state[r]]) = {}
  <2>1. state[r] \in DOMAIN values
    BY <1>2, OperandsAssumption DEF StateOk
  <2> QED
    BY <1>3, <2>1 DEF OneStepIn
<1> QED
  BY <1>4 DEF ConstInv

(* For programs on AX and BX, every width of a byte and all immediates and *)
(* operations: a register last set to a constant, a copy of one or an      *)
(* operation on two holds it in the concrete state and in the machine.     *)
THEOREM ConstantsAreConcreteCorrect ==
  ASSUME Registers \subseteq {"ax", "bx"}
  PROVE  Spec => []ConstantsAreConcrete
<1>1. OnlyWords
  BY DEF OnlyWords, WordRegisters
<1>2. TypesInv /\ ConstInv => ConstantsAreConcrete
  <2>1. \A r \in Registers : RealValue(r) = RealIn(real, r)
    BY RealIs, OperandsAssumption DEF Named
  <2> QED
    BY <2>1, OneStepIs DEF ConstInv, ConstantsAreConcrete
<1> QED
  BY <1>1, <1>2, StackStarts, ConstStarts, StackStep, ConstStep, PTL DEF Spec

----------------------------------------------------------------------------
(* The two operations on the stack, as sets: popping keeps all but the top *)
(* at most, pushing adds what is pushed.                                   *)
LEMMA PoppedElements ==
  ASSUME NEW S, NEW s \in Seq(S), s # <<>>
  PROVE  /\ SubSeq(s, 1, Len(s) - 1) \in Seq(S)
         /\ s[Len(s)] \in S
         /\ Elements(s) = Elements(SubSeq(s, 1, Len(s) - 1)) \cup {s[Len(s)]}
<1> DEFINE t == SubSeq(s, 1, Len(s) - 1)
<1>1. /\ Len(s) \in Nat \ {0} /\ DOMAIN s = 1 .. Len(s) /\ \A i \in 1 .. Len(s) : s[i] \in S
  BY EmptySeq, LenProperties, ElementOfSeq
<1>2. t \in Seq(S) /\ Len(t) = Len(s) - 1 /\ \A i \in 1 .. Len(s) - 1 : t[i] = s[i]
  <2>1. \A i \in 1 .. Len(s) - 1 : s[i] \in S
    BY <1>1
  <2> QED
    BY <1>1, <2>1, SubSeqProperties
<1>3. DOMAIN t = 1 .. Len(s) - 1
  BY <1>2, LenProperties
<1>4. 1 .. Len(s) = (1 .. Len(s) - 1) \cup {Len(s)}
  BY <1>1
<1> HIDE DEF t
<1>5. Elements(s) = Elements(t) \cup {s[Len(s)]}
  BY <1>1, <1>2, <1>3, <1>4 DEF Elements
<1> QED
  BY <1>1, <1>2, <1>5 DEF t

(* Pushing adds what is pushed.                                            *)
LEMMA PushedElements ==
  ASSUME NEW S, NEW s \in Seq(S), NEW t \in Seq(S)
  PROVE  s \o t \in Seq(S) /\ Elements(s \o t) = Elements(s) \cup Elements(t)
<1> DEFINE u == s \o t
<1>1. Len(s) \in Nat /\ DOMAIN s = 1 .. Len(s) /\ Len(t) \in Nat /\ DOMAIN t = 1 .. Len(t)
  BY LenProperties
<1>2. /\ u \in Seq(S) /\ Len(u) = Len(s) + Len(t)
      /\ \A i \in 1 .. Len(s) + Len(t) : u[i] = IF i <= Len(s) THEN s[i] ELSE t[i - Len(s)]
  BY ConcatProperties
<1>3. DOMAIN u = 1 .. Len(s) + Len(t)
  BY <1>2, LenProperties
<1> HIDE DEF u
<1>4. ASSUME NEW x \in Elements(u) PROVE x \in Elements(s) \cup Elements(t)
  <2>1. PICK i \in 1 .. Len(s) + Len(t) : x = u[i]
    BY <1>3, <1>4 DEF Elements
  <2>2. CASE i <= Len(s)
    BY <1>1, <1>2, <2>1, <2>2 DEF Elements
  <2>3. CASE ~(i <= Len(s))
    <3>1. i - Len(s) \in 1 .. Len(t)
      BY <1>1, <2>3
    <3> QED
      BY <1>1, <1>2, <2>1, <2>3, <3>1 DEF Elements
  <2> QED
    BY <2>2, <2>3
<1>5. Elements(s) \subseteq Elements(u)
  <2>1. \A i \in 1 .. Len(s) : i \in 1 .. Len(s) + Len(t) /\ u[i] = s[i]
    BY <1>1, <1>2
  <2> QED
    BY <1>1, <1>3, <2>1 DEF Elements
<1>6. Elements(t) \subseteq Elements(u)
  <2>1. ASSUME NEW i \in 1 .. Len(t)
        PROVE  Len(s) + i \in 1 .. Len(s) + Len(t) /\ u[Len(s) + i] = t[i]
    <3>1. Len(s) + i \in 1 .. Len(s) + Len(t) /\ ~(Len(s) + i <= Len(s)) /\ Len(s) + i - Len(s) = i
      BY <1>1
    <3> QED
      BY <1>2, <3>1
  <2> QED
    BY <1>1, <1>3, <2>1 DEF Elements
<1> QED
  BY <1>2, <1>4, <1>5, <1>6 DEF u

(* What is marked or pending is what the roots need: it contains the roots *)
(* and the inputs of all that is marked, and every set that does both      *)
(* contains it.                                                            *)
Needed == live \cup Elements(pending)
HoldsRoots(set) == Elements(roots) \subseteq set /\ ClosedUnderInputs(set)

LiveInv ==
  /\ table \in Seq(Seq(Nat)) /\ roots \in Seq(Nat) /\ pending \in Seq(Nat)
  /\ live \subseteq Ids /\ liveness \in {"idle", "working", "returned", "error"}
  /\ liveness = "returned" => pending = <<>>
  /\ liveness \in {"working", "returned"} =>
       /\ Elements(roots) \subseteq Needed
       /\ \A v \in live : Elements(table[v]) \subseteq Needed
       /\ \A set \in SUBSET Ids : HoldsRoots(set) => Needed \subseteq set

(* Which sets hold the roots and are closed depends on the call alone.     *)
LEMMA SameNeeds ==
  ASSUME UNCHANGED <<table, roots>>
  PROVE  /\ Elements(roots)' = Elements(roots) /\ Ids' = Ids
         /\ \A v : Elements(table[v])' = Elements(table[v])
         /\ \A set : HoldsRoots(set)' <=> HoldsRoots(set)
<1>1. table' = table /\ roots' = roots
  OBVIOUS
<1>2. Elements(roots)' = Elements(roots) /\ \A v : Elements(table[v])' = Elements(table[v])
  BY <1>1 DEF Elements
<1> QED
  BY <1>1, <1>2 DEF HoldsRoots, ClosedUnderInputs, Ids

(* Before the first call there is nothing marked.                          *)
LEMMA LiveInit == LivenessIdle => LiveInv
  BY EmptySeq DEF LivenessIdle, LiveInv

(* A call starts with its roots pending.                                   *)
LEMMA CallKeepsLiveInv ==
  ASSUME NEW inputs \in Seq(Seq(Nat)), NEW ids \in Seq(Nat), AnalyzeLiveness(inputs, ids)
  PROVE  LiveInv'
  BY DEF AnalyzeLiveness, LiveInv, Needed, HoldsRoots

(* Marking the top of the stack keeps the set needed closed, and takes     *)
(* nothing in that a closed set around the roots could do without.         *)
LEMMA MarkKeepsLiveInv ==
  ASSUME LiveInv, Mark
  PROVE  LiveInv'
<1> USE DEF Mark, Working, Back, Popped, PushedInputs, Ids
<1>1. pending \in Seq(Nat) /\ pending # <<>> /\ table \in Seq(Seq(Nat))
  BY DEF LiveInv
<1>2. /\ Popped \in Seq(Nat) /\ Back \in Nat
      /\ Elements(pending) = Elements(Popped) \cup {Back}
  BY <1>1, PoppedElements
<1>3. table[Back] \in Seq(Nat)
  BY <1>1, LenProperties, ElementOfSeq
<1>4. CASE ~(Elements(table[Back]) \subseteq Ids)
  BY <1>1, <1>2, <1>4 DEF LiveInv
<1>5. CASE Elements(table[Back]) \subseteq Ids
  <2>1. pending' = Popped \o table[Back] /\ liveness' = "working"
    BY <1>5
  <2>2. pending' \in Seq(Nat) /\ Elements(pending)' = Elements(Popped) \cup Elements(table[Back])
    BY <2>1, <1>2, <1>3, PushedElements
  <2>3. Needed' = Needed \cup Elements(table[Back])
    BY <1>2, <2>2 DEF Needed
  <2>4. \A set \in SUBSET Ids : HoldsRoots(set) => Needed' \subseteq set
    <3> SUFFICES ASSUME NEW set \in SUBSET Ids, HoldsRoots(set) PROVE Needed' \subseteq set
      OBVIOUS
    <3>1. Needed \subseteq set
      BY DEF LiveInv
    <3>2. Back \in set
      BY <3>1, <1>2 DEF Needed
    <3> QED
      BY <3>1, <3>2, <2>3 DEF HoldsRoots, ClosedUnderInputs
  <2>5. Elements(roots)' \subseteq Needed' /\ \A v \in live' : Elements(table[v]) \subseteq Needed'
    BY <2>3 DEF LiveInv, Elements
  <2>6. \A set \in SUBSET Ids' : HoldsRoots(set)' => Needed' \subseteq set
    BY <2>4, SameNeeds
  <2> QED
    BY <2>1, <2>2, <2>5, <2>6, <1>2 DEF LiveInv
<1> QED
  BY <1>4, <1>5

(* Every step keeps what is marked or pending what the roots need.         *)
LEMMA LiveStep == LiveInv /\ [LivenessNext]_liveness_vars => LiveInv'
<1> SUFFICES ASSUME LiveInv, [LivenessNext]_liveness_vars PROVE LiveInv'
  OBVIOUS
<1> USE DEF Working, Back, Popped, Ids
<1>1. CASE UNCHANGED liveness_vars
  <2>1. Needed' = Needed
    BY <1>1 DEF liveness_vars, Needed, Elements
  <2> QED
    BY <1>1, <2>1, SameNeeds DEF liveness_vars, LiveInv
<1>2. ASSUME NEW inputs \in Seq(Seq(Nat)), NEW ids \in Seq(Nat), AnalyzeLiveness(inputs, ids)
      PROVE  LiveInv'
  BY <1>2, CallKeepsLiveInv
<1>3. CASE OutsideRoot
  BY <1>3 DEF OutsideRoot, LiveInv
<1>4. CASE SkipLive
  <2>1. /\ Popped \in Seq(Nat) /\ Elements(pending) = Elements(Popped) \cup {Back}
    BY <1>4, PoppedElements DEF SkipLive, LiveInv
  <2>2. pending' = Popped /\ Elements(pending)' = Elements(Popped) /\ UNCHANGED <<table, roots, live, liveness>>
    BY <1>4 DEF SkipLive, Elements
  <2>3. Needed' = Needed
    BY <1>4, <2>1, <2>2 DEF SkipLive, Needed
  <2> QED
    BY <1>4, <2>1, <2>2, <2>3, SameNeeds DEF SkipLive, LiveInv
<1>5. CASE Mark
  BY <1>5, MarkKeepsLiveInv
<1>6. CASE ReturnLive
  <2>1. Needed' = Needed
    BY <1>6 DEF ReturnLive, Needed, Elements
  <2> QED
    BY <1>6, <2>1, SameNeeds DEF ReturnLive, LiveInv
<1> QED
  BY <1>1, <1>2, <1>3, <1>4, <1>5, <1>6 DEF LivenessNext, LivenessStep

(* For every table of values and all roots, what analyze returns is the    *)
(* least set that holds the roots and the inputs of its members.           *)
THEOREM LiveExactCorrect == LivenessSpec => []LiveExact
<1>1. LiveInv => LiveExact
  <2> SUFFICES ASSUME LiveInv, liveness = "returned"
      PROVE  /\ Elements(roots) \subseteq live /\ live \subseteq Ids /\ ClosedUnderInputs(live)
             /\ \A set \in SUBSET live :
                  Elements(roots) \subseteq set /\ ClosedUnderInputs(set) => set = live
    BY DEF LiveExact
  <2>1. Needed = live
    BY EmptySeq DEF LiveInv, Needed, Elements
  <2> QED
    BY <2>1 DEF LiveInv, HoldsRoots, ClosedUnderInputs
<1> QED
  BY <1>1, LiveInit, LiveStep, PTL DEF LivenessSpec
================================================================================
