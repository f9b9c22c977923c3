------------------------- MODULE RegisterTranslation -------------------------
(***************************************************************************)
(* register_ssa_builder, the instruction translator that fills it, and the *)
(* three ways the compiler asks what a register holds: the constants that  *)
(* constant_propagation computes, the chain resolve_constant follows, and  *)
(* the concrete registers and memory the translator keeps at its side.     *)
(* The machine the program runs on has the registers real and the memory   *)
(* ram; one segment is in use, 0, the one translate() is left to assume.   *)
(*                                                                         *)
(* An optional value is a set of at most one element.                      *)
(*                                                                         *)
(* A definition marked "slip" is used nowhere: it is a plausible mistake   *)
(* in the definition after it, which some property must tell apart.        *)
(***************************************************************************)
EXTENDS Integers, Sequences, FiniteSets

CONSTANTS
  Registers,       \* the registers instructions name, of those below
  Immediates,      \* the immediates and loaded values tried
  Operations,      \* the operations tried
  ByteSize,        \* the number of values of a byte
  BitOp(_, _, _),  \* bit_and, bit_or and bit_xor of two words
  EntryBytes,      \* what a byte register may hold when the program begins
  MaxValues        \* bound: instructions are translated while there are fewer values

WordSize == ByteSize * ByteSize
Bytes == {"al", "bl", "ah", "bh"}
Low(w) == IF w = "ax" THEN "al" ELSE "bl"
High(w) == IF w = "ax" THEN "ah" ELSE "bh"
WordOf(b) == IF b \in {"al", "ah"} THEN "ax" ELSE "bx"

(* register_id, in the order of its numbers.                               *)
RegisterOrder == <<"al", "bl", "ah", "bh", "ax", "bx", "sp", "flags">>
AllRegisters == { RegisterOrder[i] : i \in DOMAIN RegisterOrder }
SameWidth(r, s) == (r \in Bytes) = (s \in Bytes)
Immediate(r) == { n \in Immediates : r \in Bytes => n < ByteSize }

ASSUME SizeAssumption ==
  /\ ByteSize \in Nat \ {0, 1} /\ MaxValues \in Nat
  /\ \A op \in {"bit_and", "bit_or", "bit_xor"} :
       \A a, b \in 0 .. WordSize - 1 : BitOp(op, a, b) \in 0 .. WordSize - 1
  /\ \A high, low \in 0 .. ByteSize - 1 : BitOp("bit_or", high * ByteSize, low) = high * ByteSize + low
ASSUME OperandsAssumption ==
  /\ Registers \subseteq AllRegisters \ {"flags"} /\ Immediates \subseteq 0 .. WordSize - 1
  /\ Operations \subseteq {"add", "subtract", "bit_and", "bit_or", "bit_xor", "compare", "test"}
  /\ EntryBytes \subseteq 0 .. ByteSize - 1

VARIABLES
  values,    \* the builder's values; a value's id is its place
  state,     \* register_state: the value each register holds
  concrete,  \* the translator's register_values
  memory,    \* the translator's real_mode_memory, by byte
  real,      \* the machine's byte registers and its SP
  ram,       \* the machine's memory
  exact,     \* auxiliary: memory instructions were given what the machine holds
  path,      \* "straight", the "first" or "second" arm of a diamond, "joined"
  fork,      \* where the diamond begins
  other      \* where its first arm ends

memories == <<memory, ram, exact>>
vars == <<values, state, concrete, real, memories, path, fork, other>>

----------------------------------------------------------------------------
Value(reg, kind, inputs, constant, operation) ==
  [reg |-> reg, kind |-> kind, inputs |-> inputs, constant |-> constant, operation |-> operation]

EntryValues == [i \in DOMAIN RegisterOrder |-> Value(RegisterOrder[i], "entry", <<>>, {}, {})]
entry_state == [r \in AllRegisters |-> CHOOSE i \in DOMAIN RegisterOrder : RegisterOrder[i] = r]

(* The machine.                                                            *)
RealValue(r) == IF r \in Bytes \cup {"sp"} THEN real[r] ELSE real[High(r)] * ByteSize + real[Low(r)]
RealStore(r, n) ==
  real' = IF r \in Bytes THEN [real EXCEPT ![r] = n % ByteSize]
          ELSE IF r = "sp" THEN [real EXCEPT !["sp"] = n]
          ELSE [real EXCEPT ![High(r)] = n \div ByteSize, ![Low(r)] = n % ByteSize]

(* A segment has as many bytes as there are words, and memory goes on      *)
(* behind it.  A program begins with SP at the last word of its segment;   *)
(* what else its registers hold the caller may know or have left at 0.     *)
Addresses == 0 .. WordSize
EntrySP == WordSize - 2
EntryRegisters(b) == [c \in Bytes \cup {"sp"} |-> IF c = "sp" THEN EntrySP ELSE b[c]]
Unknown == [r \in AllRegisters \ {"flags"} |-> IF r = "sp" THEN EntrySP ELSE 0]

Init ==
  /\ values = EntryValues
  /\ state = entry_state
  /\ real \in { EntryRegisters(b) : b \in [Bytes -> EntryBytes] }
  /\ concrete \in {Unknown, [r \in AllRegisters \ {"flags"} |-> RealValue(r)]}
  /\ memory = [a \in Addresses |-> 0] /\ ram = memory /\ exact = TRUE
  /\ path = "straight"
  /\ fork = [state |-> state, real |-> real] /\ other = fork

Folds(op) == op \notin {"compare", "test"}
compute_operation(op, a, b) ==
  CASE op = "add" -> (a + b) % WordSize
    [] op = "subtract" -> (a - b) % WordSize
    [] op \in {"bit_and", "bit_or", "bit_xor"} -> BitOp(op, a, b)
    [] OTHER -> 0

(* store_concrete: a byte is merged into its word, a word into no byte.    *)
(* What is kept of a low byte need not fit in one (see Overrun).           *)
store_concrete(r, n) ==
  IF r \in Bytes
  THEN LET stored == [concrete EXCEPT ![r] = n % ByteSize]
           w == WordOf(r)
       IN  [stored EXCEPT ![w] = BitOp("bit_or", stored[High(w)] * ByteSize, stored[Low(w)])]
  ELSE [concrete EXCEPT ![r] = n]

(* Nothing is stored where a value is not known, and on the arms of a      *)
(* diamond there is no concrete state.                                     *)
StoreConcrete(r, known) ==
  concrete' = IF path = "straight" /\ known # {}
              THEN store_concrete(r, CHOOSE n \in known : TRUE) ELSE concrete

----------------------------------------------------------------------------
(* define and define_constant.                                             *)
NextId == Len(values) + 1
Define(r, value) ==
  /\ values' = Append(values, value)
  /\ state' = [state EXCEPT ![r] = NextId]

Translating == Len(values) < MaxValues /\ UNCHANGED <<path, fork, other>>
OnRegisters == Translating /\ UNCHANGED memories

MoveImmediate ==
  /\ OnRegisters
  /\ \E r \in Registers : \E n \in Immediate(r) :
       /\ Define(r, Value(r, "definition", <<>>, {n}, {}))
       /\ StoreConcrete(r, {n})
       /\ RealStore(r, n)

MoveRegister ==
  /\ OnRegisters
  /\ \E r, s \in Registers :
       /\ SameWidth(r, s)
       /\ Define(r, Value(r, "definition", <<state[s]>>, {}, {}))
       /\ StoreConcrete(r, values[state[s]].constant)
       /\ RealStore(r, RealValue(s))

KnownSwapped(op, table, left, right) ==  \* slip
  { compute_operation(op, b, a) : a \in table[left].constant, b \in table[right].constant }
KnownResult(op, table, left, right) ==
  { compute_operation(op, a, b) : a \in table[left].constant, b \in table[right].constant }

ResultRegister(r, op) == IF Folds(op) THEN r ELSE "flags"

(* The new value is an operation on two earlier ones; the concrete state   *)
(* is updated if both of these are themselves constants.                   *)
Operate(r, op, extended, left, right, n) ==
  LET result == ResultRegister(r, op)
      known == KnownResult(op, extended, left, right)
  IN  /\ values' = Append(extended, Value(result, "operation", <<left, right>>, {}, {op}))
      /\ state' = [state EXCEPT ![result] = Len(extended) + 1]
      /\ IF result = "flags" THEN UNCHANGED concrete ELSE StoreConcrete(result, known)
      /\ IF Folds(op) THEN RealStore(r, compute_operation(op, RealValue(r), n)) ELSE UNCHANGED real

ArithmeticImmediate ==
  /\ OnRegisters
  /\ \E r \in Registers, op \in Operations : \E n \in Immediate(r) :
       Operate(r, op, Append(values, Value(r, "definition", <<>>, {n}, {})), state[r], NextId, n)

ArithmeticRegister ==
  /\ OnRegisters
  /\ \E r, s \in Registers, op \in Operations :
       SameWidth(r, s) /\ Operate(r, op, values, state[r], state[s], RealValue(s))

----------------------------------------------------------------------------
(* Instructions on memory need the concrete state.  They address it by     *)
(* concrete registers; the translator's words do not wrap around the end   *)
(* of the segment, and those of the machine do.                            *)
OnMemory == Translating /\ path = "straight"
Held(r, m, a, b) == IF r \in Bytes THEN m[a] ELSE m[a] + ByteSize * m[b]
With(r, m, a, b, n) ==
  IF r \in Bytes THEN [m EXCEPT ![a] = n % ByteSize]
  ELSE [m EXCEPT ![a] = n % ByteSize, ![b] = n \div ByteSize]

Read(r, a) == Held(r, memory, a, a + 1)
RealRead(r, a) == Held(r, ram, a, (a + 1) % WordSize)
Write(r, a, n) == memory' = With(r, memory, a, a + 1, n)
RealWrite(r, a, n) == ram' = With(r, ram, a, (a + 1) % WordSize, n)

(* What an instruction takes from the concrete state, and the word it      *)
(* accesses lies in the segment.                                           *)
Agree(names) == \A r \in names : concrete[r] = RealValue(r)
Takes(names, r, a) == exact' = (exact /\ Agree(names) /\ (r \in Bytes \/ a # WordSize - 1))

(* effective_address_resolver, for [disp] and [bx + disp].                 *)
effective_address(names, disp) == (disp + (IF "bx" \in names THEN concrete["bx"] ELSE 0)) % WordSize
RealAddress(names, disp) == (disp + (IF "bx" \in names THEN RealValue("bx") ELSE 0)) % WordSize

LoadFromMemory ==
  /\ OnMemory
  /\ \E r \in Registers, names \in SUBSET {"bx"}, disp \in Immediates :
       LET a == effective_address(names, disp)
           n == Read(r, a)
       IN  /\ concrete' = store_concrete(r, n)
           /\ Define(r, Value(r, "definition", <<>>, {n}, {}))
           /\ Takes(names, r, a)
           /\ RealStore(r, RealRead(r, RealAddress(names, disp)))
  /\ UNCHANGED <<memory, ram>>

(* MOV to memory defines a value for the register number count, one past   *)
(* the end of the state's array.  What the store hits is not determined:   *)
(* nothing, or the concrete registers behind the array.                    *)
Overrun == [concrete EXCEPT !["al"] = Len(values) % WordSize, !["bl"] = 0]
Store(r, names, disp, n, m) ==
  /\ Write(r, effective_address(names, disp), n)
  /\ RealWrite(r, RealAddress(names, disp), m)
StoreToMemory ==
  /\ OnMemory
  /\ \E r \in Registers, names \in SUBSET {"bx"}, disp \in Immediates :
       LET a == effective_address(names, disp)
       IN  \/ Store(r, names, disp, concrete[r], RealValue(r)) /\ Takes(names \cup {r}, r, a)
           \/ (\E n \in Immediate(r) : Store(r, names, disp, n, n)) /\ Takes(names, r, a)
  /\ values' = Append(values, Value("count", "definition", <<>>, {}, {}))
  /\ concrete' \in {concrete, Overrun}
  /\ UNCHANGED <<state, real>>

(* The stack.  SP is taken from the concrete state and written back to it; *)
(* the machine's PUSH SP stores the SP it leaves.                          *)
SP == concrete["sp"]
Below(sp) == (sp - 2 + WordSize) % WordSize
Above(sp, size) == (sp + size) % WordSize

PutBelow(n, m) ==
  /\ Write("sp", Below(SP), n) /\ RealWrite("sp", Below(real["sp"]), m)
  /\ concrete' = store_concrete("sp", Below(SP))
  /\ RealStore("sp", Below(real["sp"]))
  /\ Define("sp", Value("sp", "definition", <<>>, {Below(SP)}, {}))

Push ==
  /\ OnMemory
  /\ \E r \in Registers \ Bytes :
       /\ PutBelow(concrete[r], IF r = "sp" THEN Below(real["sp"]) ELSE RealValue(r))
       /\ Takes({r, "sp"}, "sp", Below(SP))

(* POP defines the register it fills, and no value for SP.  It writes SP   *)
(* last, the machine when it pops SP the word it has read.                 *)
SPLast(r, n) == [store_concrete(r, n) EXCEPT !["sp"] = Above(SP, 2)]
Pop ==
  /\ OnMemory
  /\ \E r \in Registers \ Bytes :
       LET n == Read("sp", SP)
           m == RealRead("sp", real["sp"])
       IN  /\ concrete' = SPLast(r, n)
           /\ Define(r, Value(r, "definition", <<>>, {n}, {}))
           /\ real' = IF r = "sp" THEN [real EXCEPT !["sp"] = m]
                      ELSE [real EXCEPT !["sp"] = Above(real["sp"], 2),
                              ![High(r)] = m \div ByteSize, ![Low(r)] = m % ByteSize]
  /\ Takes({"sp"}, "sp", SP)
  /\ UNCHANGED <<memory, ram>>

(* CALL pushes the address behind it; where the program goes from there is *)
(* not the translator's business.                                          *)
Call ==
  /\ OnMemory
  /\ \E n \in Immediates : PutBelow(n, n)
  /\ Takes({"sp"}, "sp", Below(SP))

(* RET, and RET with the bytes it releases.                                *)
ReleasedOnly(raw) == IF raw = 0 THEN 2 ELSE raw  \* slip
Released(raw) == 2 + raw
Return ==
  /\ OnMemory
  /\ \E raw \in {0} \cup Immediates :
       /\ concrete' = store_concrete("sp", Above(SP, Released(raw)))
       /\ RealStore("sp", Above(real["sp"], 2 + raw))
       /\ Define("sp", Value("sp", "definition", <<>>, {Above(SP, Released(raw))}, {}))
  /\ Takes({"sp"}, "sp", SP)
  /\ UNCHANGED <<memory, ram>>

----------------------------------------------------------------------------
(* The control-flow join a caller of the builder makes: two arms are       *)
(* translated one after the other, from the same state, and merged.        *)
Fork ==
  /\ path = "straight" /\ path' = "first"
  /\ fork' = [state |-> state, real |-> real]
  /\ UNCHANGED <<values, state, concrete, real, memories, other>>

SecondArm ==
  /\ path = "first" /\ path' = "second"
  /\ other' = [state |-> state, real |-> real]
  /\ state' = fork.state /\ real' = fork.real
  /\ UNCHANGED <<values, concrete, memories, fork>>

(* The places, in the order of registers, at which two states differ, and  *)
(* the id of the phi made for one of them.                                 *)
Differing(first, second) == { i \in DOMAIN RegisterOrder : first[RegisterOrder[i]] # second[RegisterOrder[i]] }
PhiNumber(differing, i) == Cardinality({ j \in differing : j <= i })
PhiOf(first, second, i) ==
  LET r == RegisterOrder[i] IN Value(r, "phi", <<first[r], second[r]>>, {}, {})

merge(first, second) ==
  LET differing == Differing(first, second)
  IN  /\ values' = values \o [n \in 1 .. Cardinality(differing) |->
                     PhiOf(first, second, CHOOSE i \in differing : PhiNumber(differing, i) = n)]
      /\ state' = [r \in AllRegisters |->
                     IF first[r] = second[r] THEN first[r]
                     ELSE Len(values) + PhiNumber(differing, entry_state[r])]

Join ==
  /\ path = "second" /\ path' = "joined"
  /\ merge(other.state, state)
  /\ real' \in {real, other.real}
  /\ UNCHANGED <<concrete, memories, fork, other>>

Translated == Len(values) >= MaxValues /\ path = "joined" /\ UNCHANGED vars

Next ==
  \/ MoveImmediate \/ MoveRegister \/ ArithmeticImmediate \/ ArithmeticRegister
  \/ LoadFromMemory \/ StoreToMemory \/ Push \/ Pop \/ Call \/ Return
  \/ Fork \/ SecondArm \/ Join \/ Translated

Spec == Init /\ [][Next]_vars

----------------------------------------------------------------------------
(* constant_propagation::analyze, and the tables it rejects.               *)
Rejects(i) ==
  /\ values[i].kind \in {"operation", "phi"}
  /\ \/ \E k \in DOMAIN values[i].inputs : values[i].inputs[k] >= i
     \/ values[i].kind = "operation" /\ (values[i].operation = {} \/ Len(values[i].inputs) # 2)

KnownOnOneArm(known) ==  \* slip
  UNION { known[k] : k \in DOMAIN known }
SameOnAllArms(known) ==
  IF \A k \in DOMAIN known : known[k] = known[1] THEN known[1] ELSE {}

analyze ==
  LET facts[i \in DOMAIN values] ==
        LET v == values[i]
        IN  CASE v.kind = "operation" ->
                   { compute_operation(op, a, b) : op \in { o \in v.operation : Folds(o) },
                       a \in facts[v.inputs[1]], b \in facts[v.inputs[2]] }
              [] v.kind = "phi" -> SameOnAllArms([k \in DOMAIN v.inputs |-> facts[v.inputs[k]]])
              [] OTHER -> v.constant
  IN  facts

(* resolve_constant; resolve_exit_code takes 0 for an unknown value.       *)
resolve_constant(id) ==
  LET resolve[i \in 1 .. id] ==
        LET v == values[i]
        IN  IF v.constant # {} THEN v.constant
            ELSE IF v.operation # {} /\ \A k \in {1, 2} : values[v.inputs[k]].constant # {}
            THEN { compute_operation(op, a, b) : op \in { o \in v.operation : Folds(o) },
                     a \in values[v.inputs[1]].constant, b \in values[v.inputs[2]].constant }
            ELSE IF v.inputs = <<>> THEN {} ELSE resolve[v.inputs[1]]
  IN  resolve[id]

----------------------------------------------------------------------------
(* Types; every register's value is one of that register, and values refer *)
(* only to earlier ones, so that analyze rejects no table and the chains   *)
(* resolve_constant follows end.                                           *)
TypeOK ==
  /\ \A r \in AllRegisters : state[r] \in DOMAIN values /\ values[state[r]].reg = r
  /\ \A i \in DOMAIN values : ~Rejects(i)
  /\ \A i \in DOMAIN values : \A k \in DOMAIN values[i].inputs : values[i].inputs[k] < i
  /\ \A r \in DOMAIN concrete : concrete[r] \in 0 .. WordSize - 1
  /\ \A b \in Bytes : real[b] \in 0 .. ByteSize - 1
  /\ \A a \in Addresses : {memory[a], ram[a]} \subseteq 0 .. ByteSize - 1
  /\ path \in {"straight", "first", "second", "joined"}

(* What constant_propagation knows of a register is what it holds,         *)
(* whichever arm of a diamond the program took: values that have been      *)
(* through memory or the stack as well, if what went in was right.         *)
(* (The value of SP is stale behind a POP, see PointerFollowsPop.)         *)
FactsSound ==
  /\ TypeOK
  /\ exact => \A r \in AllRegisters \ {"flags", "sp"} :
                \A n \in analyze[state[r]] : RealValue(r) = n

(* The translator's SP and memory are the machine's after any sequence of  *)
(* pushes, pops, calls, returns, loads and stores, where SP wraps around   *)
(* the end of the segment too.                                             *)
StackExact ==
  exact /\ "sp" \notin Registers =>
    SP = real["sp"] /\ \A a \in Addresses : memory[a] = ram[a]

(* A register last set to a constant, to a copy of one or to an operation  *)
(* on two holds the same value in the concrete state and in the machine,   *)
(* however its inputs have been redefined since.                           *)
OneStep(v) ==
  CASE v.constant # {} -> v.constant
    [] v.kind = "definition" /\ v.inputs # <<>> -> values[v.inputs[1]].constant
    [] v.kind = "operation" ->
         { compute_operation(op, a, b) : op \in v.operation,
             a \in values[v.inputs[1]].constant, b \in values[v.inputs[2]].constant }
    [] OTHER -> {}
ConstantsAreConcrete ==
  path = "straight" /\ exact =>
    \A r \in Registers : \A n \in OneStep(values[state[r]]) : concrete[r] = n /\ RealValue(r) = n

----------------------------------------------------------------------------
(* The concrete registers, from which exit codes and services are read,    *)
(* hold what arithmetic on known values gives.                             *)
ConcreteFollowsFacts ==
  path = "straight" => \A r \in Registers : \A n \in analyze[state[r]] : concrete[r] = n

(* A chain "that bottoms out in constants" is resolved to its value.       *)
ResolvedIsReal ==
  \A r \in Registers :
    analyze[state[r]] # {} => resolve_constant(state[r]) \subseteq {RealValue(r)}

(* A word register and its halves agree: what is known of AL is the low    *)
(* half of what is known of AX.                                            *)
HalvesAgree ==
  \A r \in Registers \cap Bytes : \A n \in analyze[state[r]], m \in analyze[state[WordOf(r)]] :
    n = IF r = Low(WordOf(r)) THEN m % ByteSize ELSE m \div ByteSize

(* The same of the concrete state.                                         *)
ConcreteHalvesAgree ==
  path = "straight" => \A w \in {"ax", "bx"} :
    concrete[w] = concrete[High(w)] * ByteSize + concrete[Low(w)]

(* The value SP has in the table is the one it has in the concrete state.  *)
PointerFollowsPop ==
  path = "straight" => \A n \in analyze[state["sp"]] : SP = n

(* PUSH and POP of SP itself leave the SP of the machine.                  *)
PointerIsReal == exact => SP = real["sp"]

(* A store to memory changes no register.                                  *)
StoresKeepRegisters == [][StoreToMemory => UNCHANGED concrete]_vars
=============================================================================
