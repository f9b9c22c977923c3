------------------------------ MODULE StringOps ------------------------------
(***************************************************************************)
(* The string instructions of the emitted program: the loop emit_string_op *)
(* writes for MOVS, STOS, LODS, CMPS and SCAS with and without a repeat    *)
(* prefix, on the flag word of BranchConditions.                           *)
(*                                                                         *)
(* Memory and registers before an instruction are whatever the program has *)
(* left in them; only the flags are followed from one to the next.         *)
(*                                                                         *)
(* A definition marked "slip" is used nowhere: it is a plausible mistake   *)
(* in the definition after it, which some property must tell apart.        *)
(***************************************************************************)
EXTENDS BranchConditions

CONSTANTS
  Rams,      \* contents of the first bytes of mem[], one more than a word counts
  Offsets,   \* values of SI and DI
  Counts,    \* values of CX
  Elements,  \* values of AX
  Followed   \* bound of the model: strings follow operands up to this

ASSUME StringsAssumption ==
  /\ 2 * Half = (2 * ByteHalf) * (2 * ByteHalf)
  /\ Rams \subseteq [0 .. 2 * Half -> Bytes]
  /\ Offsets \cup Counts \cup Elements \subseteq Words

VARIABLE string   \* auxiliary: the last string instruction, its operands and outcome

NoString == [op |-> "none"]
Operations == {"movs", "stos", "lods", "cmps", "scas"}
(* What decode_at makes of no prefix, F3 and F2, whatever instruction      *)
(* follows: the rep_prefix repe is not among its results.                  *)
Prefixes == {"none", "rep", "repne"}

Width(word) == IF word THEN 2 ELSE 1
Stores(ram, offset, value, word) ==
  IF word THEN [ram EXCEPT ![offset] = value % (2 * ByteHalf), ![offset + 1] = value \div (2 * ByteHalf)]
  ELSE [ram EXCEPT ![offset] = value % (2 * ByteHalf)]
Loads(ram, offset, word) == ram[offset] + (IF word THEN 2 * ByteHalf * ram[offset + 1] ELSE 0)
LowByte(ax, byte) == (ax - (ax % (2 * ByteHalf))) + byte

----------------------------------------------------------------------------
(* df_step: the flag word as it is when the index steps.                   *)
df_step(flag_word, d) == IF flag_word.direction THEN -d ELSE d
Stepped(index, flag_word, word) == (index + df_step(flag_word, Width(word))) % (2 * Half)

(* The statements between the braces of the loop.                          *)
Body(op, word, s) ==
  LET left  == IF op = "cmps" THEN Loads(s.ram, s.si, word)
               ELSE IF word THEN s.ax ELSE s.ax % (2 * ByteHalf)
      after == IF op \in {"cmps", "scas"}
               THEN update_flags_cmp(left, Loads(s.ram, s.di, word), ~word) ELSE s.flags
  IN  [s EXCEPT
        !.ram = CASE op = "movs" -> Stores(@, s.di, Loads(@, s.si, word), word)
                  [] op = "stos" -> Stores(@, s.di, s.ax, word)
                  [] OTHER -> @,
        !.ax = IF op # "lods" THEN @
               ELSE IF word THEN Loads(s.ram, s.si, TRUE) ELSE LowByte(@, Loads(s.ram, s.si, FALSE)),
        !.flags = after,
        !.si = IF op \in {"movs", "lods", "cmps"} THEN Stepped(@, after, word) ELSE @,
        !.di = IF op \in {"movs", "stos", "cmps", "scas"} THEN Stepped(@, after, word) ELSE @]

NeverBreaks(rep, flag_word) == FALSE  \* slip
Breaks(rep, flag_word) ==
  \/ rep = "repe" /\ ~flag_word.zero
  \/ rep = "repne" /\ flag_word.zero

(* One execution of the body without a prefix; with one, the state after   *)
(* at most n rounds of the while loop.                                     *)
emit_string_op(op, word, rep, s) ==
  LET rounds[n \in 0 .. s.cx] ==
        IF n = 0 THEN [s |-> s, broken |-> FALSE]
        ELSE IF rounds[n - 1].broken THEN rounds[n - 1]
        ELSE LET next == Body(op, word, [rounds[n - 1].s EXCEPT !.cx = @ - 1])
             IN  [s |-> next, broken |-> Breaks(rep, next.flags)]
  IN  IF rep = "none" THEN Body(op, word, s) ELSE rounds[s.cx].s

----------------------------------------------------------------------------
(* The same instruction on the 8086: how many elements it handles, and     *)
(* what is left when it has.  F3 compares while equal, F2 while unequal;   *)
(* before other operations both just repeat.  The second byte of a word    *)
(* at the last offset is the first of the segment.                         *)
Upper(offset) == (offset + 1) % (2 * Half)
Fetch(ram, offset, word) == ram[offset] + (IF word THEN 2 * ByteHalf * ram[Upper(offset)] ELSE 0)
Put(ram, offset, value, word) ==
  [a \in DOMAIN ram |-> IF a = offset THEN value % (2 * ByteHalf)
                        ELSE IF word /\ a = Upper(offset) THEN value \div (2 * ByteHalf) ELSE ram[a]]

Compares(op) == op \in {"cmps", "scas"}
At(index, k, word, s) ==
  (index + (IF s.flags.direction THEN -k ELSE k) * Width(word)) % (2 * Half)
Accumulator(s, word) == IF word THEN s.ax ELSE s.ax % (2 * ByteHalf)
Pair(op, word, s, k) ==
  << IF op = "cmps" THEN Fetch(s.ram, At(s.si, k, word, s), word) ELSE Accumulator(s, word),
     Fetch(s.ram, At(s.di, k, word, s), word) >>
Ends(op, word, rep, s, k) ==
  LET pair == Pair(op, word, s, k)
  IN  Compares(op) /\ (rep = "rep" <=> pair[1] # pair[2])
Handled(op, word, rep, s) ==
  IF rep = "none" THEN 1
  ELSE CHOOSE n \in 0 .. s.cx :
         /\ n = s.cx \/ (n > 0 /\ Ends(op, word, rep, s, n - 1))
         /\ \A k \in 0 .. n - 2 : ~Ends(op, word, rep, s, k)

Machine(op, word, rep, s) ==
  LET n == Handled(op, word, rep, s)
      memory[k \in 0 .. n] ==
        IF k = 0 THEN s.ram
        ELSE CASE op = "movs" ->
                    Put(memory[k - 1], At(s.di, k - 1, word, s),
                        Fetch(memory[k - 1], At(s.si, k - 1, word, s), word), word)
               [] op = "stos" -> Put(memory[k - 1], At(s.di, k - 1, word, s), s.ax, word)
               [] OTHER -> s.ram
      element == Fetch(s.ram, At(s.si, n - 1, word, s), word)
      pair == Pair(op, word, s, n - 1)
  IN  [ram |-> memory[n],
       ax  |-> IF op # "lods" \/ n = 0 THEN s.ax ELSE IF word THEN element ELSE LowByte(s.ax, element),
       cx  |-> IF rep = "none" THEN s.cx ELSE s.cx - n,
       si  |-> IF op \in {"movs", "lods", "cmps"} THEN At(s.si, n, word, s) ELSE s.si,
       di  |-> IF op = "lods" THEN s.di ELSE At(s.di, n, word, s),
       zero  |-> IF Compares(op) /\ n > 0 THEN pair[1] = pair[2] ELSE s.flags.zero,
       carry |-> IF Compares(op) /\ n > 0 THEN pair[1] < pair[2] ELSE s.flags.carry,
       direction |-> s.flags.direction]

Left(s) ==
  [ram |-> s.ram, ax |-> s.ax, cx |-> s.cx, si |-> s.si, di |-> s.di,
   zero |-> s.flags.zero, carry |-> s.flags.carry, direction |-> s.flags.direction]

----------------------------------------------------------------------------
StringsInit == Init /\ string = NoString

(* The comparison before sets the flag word; CMPS and SCAS replace it.     *)
ExecuteString(op, word, rep, s) ==
  LET after == emit_string_op(op, word, rep, s)
  IN  /\ string = NoString /\ last.left <= Followed /\ last.right <= Followed
      /\ flags' = after.flags
      /\ string' = [op |-> op, word |-> word, rep |-> rep, before |-> s, after |-> after]
      /\ last' = IF op \in {"cmps", "scas"} THEN Last("none", 0, 0, FALSE) ELSE last
      /\ UNCHANGED lifted

(* Any other instruction; behind a string instruction just CLD and STD.    *)
Otherwise ==
  /\ string' = NoString
  /\ \/ string = NoString /\ Next
     \/ string # NoString /\ \E d \in BOOLEAN : SetDirection(d)

StringsNext ==
  \/ Otherwise
  \/ \E op \in Operations, word \in BOOLEAN, rep \in Prefixes, ram \in Rams,
        si, di \in Offsets, count \in Counts, ax \in Elements :
       ExecuteString(op, word, rep, [ram |-> ram, ax |-> ax, cx |-> count, si |-> si, di |-> di,
                                     flags |-> flags])

----------------------------------------------------------------------------
(* The cases in which the emitted loop goes another way than the machine.  *)
ComparesBackward == Compares(string.op) /\ string.before.flags.direction
EndsOnDifference ==
  /\ Compares(string.op) /\ string.rep = "rep"
  /\ Handled(string.op, string.word, string.rep, string.before) < string.before.cx
EndsOnZeroFlag == ~Compares(string.op) /\ string.rep = "repne" /\ string.before.flags.zero
Straddles ==
  /\ string.word
  /\ \E k \in 0 .. Handled(string.op, string.word, string.rep, string.before) - 1,
        index \in {string.before.si, string.before.di} :
       At(index, k, TRUE, string.before) = 2 * Half - 1

AsOnMachine == Left(string.after) = Machine(string.op, string.word, string.rep, string.before)

(* An emitted string instruction leaves memory, registers and flags as the *)
(* 8086 would: overlapping copies, a count of zero, the element a repeated *)
(* comparison stops at, and indices that wrap around, in either direction  *)
(* -- but for the four cases named above.                                  *)
StringsExact ==
  string # NoString =>
    AsOnMachine \/ ComparesBackward \/ EndsOnDifference \/ EndsOnZeroFlag \/ Straddles

(* F3 repeats a comparison while the elements are equal: repe is the       *)
(* decoder's own reading of F3 before CMPS and SCAS (line 184), which its  *)
(* prefix loop never reaches.                                              *)
RepeatsWhileEqual ==
  string # NoString /\ ~ComparesBackward /\ ~EndsOnZeroFlag /\ ~Straddles => AsOnMachine

(* The direction a program has set with STD stays set until CLD.           *)
DirectionKept ==
  string # NoString => string.after.flags.direction = string.before.flags.direction

(* F2 before an operation that compares nothing repeats it CX times.       *)
MovesRepeat ==
  string # NoString /\ ~ComparesBackward /\ ~EndsOnDifference /\ ~Straddles => AsOnMachine

(* A word at the last offset of the segment ends at the first.             *)
ElementsWrap ==
  string # NoString /\ ~ComparesBackward /\ ~EndsOnDifference /\ ~EndsOnZeroFlag => AsOnMachine
=============================================================================
