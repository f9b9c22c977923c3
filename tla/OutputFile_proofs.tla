-------------------------- MODULE OutputFile_proofs ---------------------------
(*****************************************************************************)
(* Proofs about the file the compiler writes. Its layout: for every program  *)
(* of system-call actions, of any length and with payloads of any sizes, the *)
(* copies of the second pass stay inside the image the first pass has sized, *)
(* and none overwrites another. Its way to the output path: what CommandLine *)
(* states of every process, for any number of processes and any command      *)
(* lines.                                                                    *)
(*****************************************************************************)
EXTENDS ElfImage, CommandLine, SequenceTheorems, TLAPS

(* The layout of the image.                                                *)

(* The two passes add up the same sizes in the same order.  What ties them *)
(* together is the sequence of partial sums, which the first pass makes    *)
(* and the second follows: c for code and p for payload, one entry in      *)
(* front of each of the first n - 1 actions and one behind them.           *)
Sums(c, p, n) ==
  /\ c \in [1 .. n -> Nat] /\ p \in [1 .. n -> Nat]
  /\ c[1] = 0 /\ p[1] = 0
  /\ \A i \in 1 .. n - 1 : /\ c[i + 1] = c[i] + action_code_size(actions[i])
                           /\ p[i + 1] = p[i] + action_payload_size(actions[i])
  /\ \A i \in 1 .. n : c[i] <= c[n] /\ p[i] <= p[n] /\ c[i] <= 27 * (i - 1)

Count == Len(actions)
WellFormed ==
  /\ Count \in Nat /\ index \in 1 .. Count + 1
  /\ \A i \in 1 .. Count : actions[i].kind \in Kinds /\ actions[i].size \in Payloads
  /\ DOMAIN actions = 1 .. Count

SizingInv ==
  /\ copied = {} /\ current_code = code_offset
  /\ \E c, p : Sums(c, p, index) /\ code_size = c[index] /\ total_payload = p[index]

(* Where the copying pass is in the sums the sizing pass has made.         *)
Following(c, p) ==
  /\ Sums(c, p, Count + 1) /\ code_size = c[Count + 1] /\ total_payload = p[Count + 1]
  /\ current_code = code_offset + c[index]
  /\ current_payload = payload_start + p[index]

Copied(r) ==
  /\ r.from \in Nat /\ r.to \in Nat
  /\ r.use # "data" => r.to <= current_code
  /\ r.use = "data" => payload_start <= r.from /\ r.to <= current_payload
Apart == \A r, s \in copied : r # s => ~Overlap(r, s)
Filled == (\A r \in copied : Copied(r)) /\ Apart

LayoutInv ==
  /\ WellFormed /\ pass \in {"sizing", "copying", "done"}
  /\ pass = "sizing" => SizingInv
  /\ pass = "copying" => Filled /\ \E c, p : Following(c, p)
  /\ pass = "done" =>
       /\ Filled /\ current_code = payload_start /\ current_payload = image_size
       /\ code_size \in 0 .. 27 * Count /\ total_payload \in Nat

----------------------------------------------------------------------------
(* The sizes of an action.                                                 *)
LEMMA Sizes ==
  ASSUME NEW a, a.kind \in Kinds, a.size \in Payloads
  PROVE  /\ BlockSize(a.kind) \in {12, 24}
         /\ action_code_size(a) \in 12 .. 27
         /\ action_code_size(a) = BlockSize(a.kind) + (IF a.kind = "open" THEN 3 ELSE 0)
         /\ action_payload_size(a) \in Nat
         /\ a.size \in Nat
         /\ a.kind = "open" => action_payload_size(a) = a.size + 1
         /\ a.kind \in {"read", "write"} => action_payload_size(a) = a.size
  BY PayloadsAssumption
     DEF Kinds, BlockSize, action_code_size, action_payload_size, fd_move_code_size

(* What does not change holds at the start.                                *)
LEMMA InitWellFormed == LayoutInit => WellFormed
<1> SUFFICES ASSUME LayoutInit PROVE WellFormed
  OBVIOUS
<1> DEFINE Actions == [kind : Kinds, size : Payloads]
<1>1. PICK m \in 0 .. MaxActions : actions \in [1 .. m -> Actions]
  BY PayloadsAssumption DEF LayoutInit, SeqOf
<1>2. m \in Nat
  BY PayloadsAssumption
<1>3. actions \in Seq(Actions)
  BY <1>1, <1>2, SeqDef
<1>4. Len(actions) = m /\ DOMAIN actions = 1 .. m
  BY <1>1, <1>2, <1>3, LenProperties
<1> QED BY <1>1, <1>2, <1>4 DEF LayoutInit, WellFormed, Count

(* The invariant holds at the start.                                       *)
LEMMA InitLayout == LayoutInit => LayoutInv
<1> SUFFICES ASSUME LayoutInit PROVE SizingInv
  BY InitWellFormed DEF LayoutInit, LayoutInv
<1> DEFINE zero == [i \in 1 .. 1 |-> 0]
<1>1. Sums(zero, zero, 1)
  BY DEF Sums
<1>2. index = 1 /\ code_size = zero[1] /\ total_payload = zero[1]
  BY DEF LayoutInit
<1>3. Sums(zero, zero, index) /\ code_size = zero[index] /\ total_payload = zero[index]
  BY <1>1, <1>2
<1> QED BY <1>3 DEF LayoutInit, SizingInv

(* The sums are those of the same actions.                                 *)
LEMMA SumsSame ==
  ASSUME UNCHANGED actions, NEW c, NEW p, NEW n PROVE Sums(c, p, n) <=> Sums(c, p, n)'
  BY DEF Sums, action_code_size, action_payload_size, BlockSize, fd_move_code_size

(* One more action extends the sums by one entry.                          *)
LEMMA SumsExtend ==
  ASSUME NEW k \in Nat \ {0}, NEW c, NEW p, Sums(c, p, k),
         NEW dc \in Nat, dc = action_code_size(actions[k]), dc <= 27,
         NEW dp \in Nat, dp = action_payload_size(actions[k])
  PROVE  \E d, q : Sums(d, q, k + 1) /\ d[k + 1] = c[k] + dc /\ q[k + 1] = p[k] + dp
<1> DEFINE d == [i \in 1 .. k + 1 |-> IF i <= k THEN c[i] ELSE c[k] + dc]
           q == [i \in 1 .. k + 1 |-> IF i <= k THEN p[i] ELSE p[k] + dp]
<1>1. /\ \A i \in 1 .. k : /\ c[i] \in Nat /\ p[i] \in Nat /\ c[i] <= c[k] /\ p[i] <= p[k]
                           /\ c[i] <= 27 * (i - 1)
      /\ \A i \in 1 .. k - 1 : /\ c[i + 1] = c[i] + action_code_size(actions[i])
                               /\ p[i + 1] = p[i] + action_payload_size(actions[i])
      /\ c[1] = 0 /\ p[1] = 0
  BY DEF Sums
<1>2. k \in 1 .. k /\ 1 \in 1 .. k /\ k + 1 \in 1 .. k + 1
  OBVIOUS
<1>3. c[k] \in Nat /\ p[k] \in Nat /\ c[k] <= 27 * (k - 1)
  BY <1>1, <1>2
<1>4. \A i \in 1 .. k : d[i] = c[i] /\ q[i] = p[i]
  OBVIOUS
<1>5. d[k + 1] = c[k] + dc /\ q[k + 1] = p[k] + dp
  OBVIOUS
<1>6. d \in [1 .. k + 1 -> Nat] /\ q \in [1 .. k + 1 -> Nat]
  BY <1>1, <1>3
<1> HIDE DEF d, q
<1>7. ASSUME NEW i \in 1 .. (k + 1) - 1
      PROVE  d[i + 1] = d[i] + action_code_size(actions[i]) /\ q[i + 1] = q[i] + action_payload_size(actions[i])
  <2>1. CASE i = k
    BY <2>1, <1>2, <1>4, <1>5
  <2>2. CASE i \in 1 .. k - 1
    <3>1. i \in 1 .. k /\ i + 1 \in 1 .. k
      BY <2>2
    <3> QED BY <2>2, <3>1, <1>1, <1>4
  <2> QED BY <2>1, <2>2
<1>8. ASSUME NEW i \in 1 .. k + 1
      PROVE  d[i] <= d[k + 1] /\ q[i] <= q[k + 1] /\ d[i] <= 27 * (i - 1)
  <2>1. CASE i = k + 1
    BY <2>1, <1>3, <1>5
  <2>2. CASE i \in 1 .. k
    <3>1. /\ d[i] = c[i] /\ q[i] = p[i] /\ c[i] \in Nat /\ p[i] \in Nat
          /\ c[i] <= c[k] /\ p[i] <= p[k] /\ c[i] <= 27 * (i - 1)
      BY <2>2, <1>1, <1>4
    <3> QED BY <3>1, <1>3, <1>5
  <2> QED BY <2>1, <2>2
<1>9. d[1] = 0 /\ q[1] = 0
  BY <1>1, <1>2, <1>4
<1>10. Sums(d, q, k + 1)
  BY <1>6, <1>7, <1>8, <1>9 DEF Sums
<1> QED BY <1>5, <1>10

(* The first pass.                                                         *)
LEMMA SizeStep == LayoutInv /\ Size => LayoutInv'
<1> SUFFICES ASSUME LayoutInv, Size PROVE LayoutInv'
  OBVIOUS
<1>1. index \in Nat \ {0} /\ index \in 1 .. Count /\ WellFormed'
  BY DEF LayoutInv, WellFormed, Size, Count
<1>2. PICK c, p : Sums(c, p, index) /\ code_size = c[index] /\ total_payload = p[index]
  BY DEF LayoutInv, SizingInv, Size
<1>3. /\ action_code_size(actions[index]) \in Nat /\ action_code_size(actions[index]) <= 27
      /\ action_payload_size(actions[index]) \in Nat
  BY <1>1, Sizes DEF LayoutInv, WellFormed
<1>4. PICK d, q : /\ Sums(d, q, index + 1)
                  /\ d[index + 1] = c[index] + action_code_size(actions[index])
                  /\ q[index + 1] = p[index] + action_payload_size(actions[index])
  BY <1>1, <1>2, <1>3, SumsExtend
<1>5. UNCHANGED actions /\ index' = index + 1
  BY DEF Size
<1>6. Sums(d, q, index)'
  BY <1>4, <1>5, SumsSame DEF Sums, action_code_size, action_payload_size, BlockSize, fd_move_code_size
<1>7. code_size' = d[index'] /\ total_payload' = q[index']
  BY <1>2, <1>4, <1>5 DEF Size
<1>8. SizingInv'
  BY <1>6, <1>7 DEF SizingInv, LayoutInv, Size
<1> QED BY <1>1, <1>8 DEF LayoutInv, Size

(* Between the passes, the payload is placed behind the code.              *)
LEMMA AllocateStep == LayoutInv /\ Allocate => LayoutInv'
<1> SUFFICES ASSUME LayoutInv, Allocate PROVE LayoutInv'
  OBVIOUS
<1>1. PICK c, p : Sums(c, p, index) /\ code_size = c[index] /\ total_payload = p[index]
  BY DEF LayoutInv, SizingInv, Allocate
<1>2. index = Count + 1 /\ Count \in Nat
  BY DEF LayoutInv, WellFormed, Allocate, Count
<1>3. Following(c, p)'
  <2>1. Sums(c, p, Count + 1) /\ UNCHANGED <<actions, code_size, total_payload, current_code>>
    BY <1>1, <1>2 DEF Allocate
  <2>2. Sums(c, p, Count + 1)'
    BY <2>1 DEF Sums, action_code_size, action_payload_size, Count
  <2>3. c[1] = 0 /\ p[1] = 0 /\ c[Count + 1] \in Nat
    BY <2>1, <1>2 DEF Sums
  <2>4. index' = 1 /\ current_code' = code_offset /\ current_payload' = payload_start'
    BY <2>1 DEF Allocate, LayoutInv, SizingInv, payload_start
  <2>5. payload_start' \in Nat
    BY <2>1, <2>3, <1>1, <1>2 DEF payload_start, code_offset, exit_code_size
  <2> QED BY <2>1, <2>2, <2>3, <2>4, <2>5, <1>1, <1>2 DEF Following, Count, code_offset
<1>4. Filled'
  <2>1. copied' = {[from |-> 0, to |-> 120, use |-> "header", of |-> index]} /\ current_code' = 120
    BY DEF Allocate, LayoutInv, SizingInv, Bytes, code_offset
  <2> QED BY <2>1 DEF Filled, Copied, Apart
<1>5. WellFormed'
  BY <1>2 DEF LayoutInv, WellFormed, Allocate, Count
<1> QED BY <1>3, <1>4, <1>5 DEF LayoutInv, Allocate

----------------------------------------------------------------------------
(* A copy lies behind all code copied before it and ends before the        *)
(* payload, or the same behind the payload.                                *)
LEMMA NewCopies ==
  ASSUME NEW new, Filled, copied' = copied \cup new,
         payload_start' = payload_start, payload_start \in Nat,
         current_code \in Nat, current_code' \in Nat, current_payload' \in Nat,
         current_code <= current_code', current_code' <= payload_start,
         payload_start <= current_payload, current_payload <= current_payload', current_payload \in Nat,
         \A r \in new :
           /\ r.from \in Nat /\ r.to \in Nat
           /\ r.use # "data" => current_code <= r.from /\ r.to <= current_code'
           /\ r.use = "data" => current_payload <= r.from /\ r.to <= current_payload',
         \A r, s \in new : r # s => ~Overlap(r, s)
  PROVE  Filled'
<1>1. \A r \in copied : Copied(r)
  BY DEF Filled
<1>2. ASSUME NEW r \in copied' PROVE Copied(r)'
  <2>1. CASE r \in copied
    BY <2>1, <1>1 DEF Copied
  <2>2. CASE r \in new
    BY <2>2 DEF Copied
  <2> QED BY <2>1, <2>2
<1>3. ASSUME NEW r \in copied, NEW s \in new PROVE ~Overlap(r, s) /\ ~Overlap(s, r)
  <2>1. /\ r.from \in Nat /\ r.to \in Nat
        /\ r.use # "data" => r.to <= current_code
        /\ r.use = "data" => payload_start <= r.from /\ r.to <= current_payload
    BY <1>1 DEF Copied
  <2>2. /\ s.from \in Nat /\ s.to \in Nat
        /\ s.use # "data" => current_code <= s.from /\ s.to <= current_code'
        /\ s.use = "data" => current_payload <= s.from /\ s.to <= current_payload'
    OBVIOUS
  <2>3. CASE r.use # "data" /\ s.use # "data"
    BY <2>1, <2>2, <2>3 DEF Overlap
  <2>4. CASE r.use = "data" /\ s.use = "data"
    BY <2>1, <2>2, <2>4 DEF Overlap
  <2>5. CASE r.use # "data" /\ s.use = "data"
    BY <2>1, <2>2, <2>5 DEF Overlap
  <2>6. CASE r.use = "data" /\ s.use # "data"
    BY <2>1, <2>2, <2>6 DEF Overlap
  <2> QED BY <2>3, <2>4, <2>5, <2>6
<1>4. \A r, s \in copied' : r # s => ~Overlap(r, s)
  BY <1>3 DEF Filled, Apart
<1>5. Apart'
  BY <1>4 DEF Apart, Overlap
<1> QED BY <1>2, <1>5 DEF Filled

(* The second pass copies a block, and what it addresses.                  *)
LEMMA CopyStep == LayoutInv /\ Copy => LayoutInv'
<1> SUFFICES ASSUME LayoutInv, Copy PROVE LayoutInv'
  OBVIOUS
<1> DEFINE a == actions[index]
<1>1. index \in 1 .. Count /\ Count \in Nat /\ WellFormed' /\ a.kind \in Kinds /\ a.size \in Payloads
  BY DEF LayoutInv, WellFormed, Copy, Count
<1>2. PICK c, p : Following(c, p)
  BY DEF LayoutInv, Copy
<1>3. UNCHANGED <<actions, code_size, total_payload>> /\ index' = index + 1 /\ pass = "copying" /\ pass' = "copying"
  BY DEF Copy, LayoutInv
<1>4. /\ c[index] \in Nat /\ p[index] \in Nat /\ c[index + 1] \in Nat /\ p[index + 1] \in Nat
      /\ c[Count + 1] \in Nat /\ p[Count + 1] \in Nat
      /\ c[index + 1] = c[index] + action_code_size(a) /\ p[index + 1] = p[index] + action_payload_size(a)
      /\ c[index + 1] <= c[Count + 1] /\ p[index + 1] <= p[Count + 1]
  <2>1. index \in 1 .. Count + 1 /\ index + 1 \in 1 .. Count + 1 /\ index \in 1 .. (Count + 1) - 1
        /\ Count + 1 \in 1 .. Count + 1
    BY <1>1
  <2> QED BY <2>1, <1>2 DEF Following, Sums
<1>5. payload_start = 132 + c[Count + 1] /\ payload_start' = payload_start
  BY <1>2, <1>3, <1>4 DEF Following, payload_start, code_offset, exit_code_size
<1>6. current_code = 120 + c[index] /\ current_payload = payload_start + p[index]
  BY <1>2 DEF Following, code_offset
<1>7. current_code' = 120 + c[index + 1] /\ current_payload' = payload_start + p[index + 1]
  <2>1. PICK n, m : n = BlockSize(a.kind) /\ m = IF a.kind = "open" THEN 3 ELSE 0
    OBVIOUS
  <2>2. n \in Nat /\ m \in Nat /\ action_code_size(a) = n + m /\ action_payload_size(a) \in Nat
    BY <1>1, <2>1, Sizes
  <2>3. current_code' = (current_code + n) + m /\ current_payload' = current_payload + action_payload_size(a)
    BY <2>1 DEF Copy, fd_move_code_size
  <2>4. payload_start \in Nat
    BY <1>4, <1>5
  <2> QED BY <2>2, <2>3, <2>4, <1>4, <1>6
<1>8. Following(c, p)'
  BY <1>2, <1>3, <1>5, <1>7, SumsSame DEF Following, Count, code_offset
<1>9. Filled'
  <2>1. /\ BlockSize(a.kind) \in {12, 24} /\ a.size \in Nat
        /\ action_code_size(a) = BlockSize(a.kind) + (IF a.kind = "open" THEN 3 ELSE 0)
        /\ action_payload_size(a) \in Nat
        /\ a.kind = "open" => action_payload_size(a) = a.size + 1
        /\ a.kind \in {"read", "write"} => action_payload_size(a) = a.size
        /\ a.kind \in {"open", "read", "write", "close"}
    BY <1>1, Sizes DEF Kinds
  <2> DEFINE to == current_code + BlockSize(a.kind)
             code == [from |-> current_code, to |-> to, use |-> "code", of |-> index]
             move == [from |-> to, to |-> to + 3, use |-> "code", of |-> index]
             data(n) == [from |-> current_payload, to |-> current_payload + n, use |-> "data", of |-> index]
  <2>2. current_code \in Nat /\ current_payload \in Nat /\ to \in Nat /\ current_code <= to
        /\ current_code' = current_code + action_code_size(a)
        /\ current_payload' = current_payload + action_payload_size(a)
        /\ payload_start \in Nat /\ payload_start <= current_payload /\ current_code' <= payload_start
        /\ current_code' \in Nat /\ current_payload' \in Nat
    BY <2>1, <1>4, <1>5, <1>6, <1>7
  <2>3. \A n : Bytes(current_code + Displaced(a) + displacement(a), n, "data") = data(n)
    BY <2>1, <2>2 DEF Bytes, Displaced, displacement
  <2>4. PICK new : new = CopiedBytes(a) /\ copied' = copied \cup new
    BY DEF Copy
  <2>8. Filled
    BY <1>3 DEF LayoutInv
  <2>9. current_code <= current_code' /\ current_payload <= current_payload'
    BY <2>1, <2>2
  <2>5. CASE a.kind = "open"
    <3>1. new = {code, move, data(a.size + 1)}
      BY <2>2, <2>3, <2>4, <2>5 DEF CopiedBytes, Bytes, fd_move_code_size
    <3>2. action_code_size(a) = BlockSize(a.kind) + 3 /\ action_payload_size(a) = a.size + 1
      BY <2>1, <2>5
    <3>3. \A r \in new :
            /\ r.from \in Nat /\ r.to \in Nat
            /\ r.use # "data" => current_code <= r.from /\ r.to <= current_code'
            /\ r.use = "data" => current_payload <= r.from /\ r.to <= current_payload'
      BY <2>1, <2>2, <3>1, <3>2
    <3>4. to + 3 <= payload_start /\ payload_start <= current_payload
      BY <2>1, <2>2, <3>2, <1>4, <1>5, <1>6, <1>7
    <3>5. ~Overlap(code, move) /\ ~Overlap(move, code)
          /\ ~Overlap(code, data(a.size + 1)) /\ ~Overlap(data(a.size + 1), code)
          /\ ~Overlap(move, data(a.size + 1)) /\ ~Overlap(data(a.size + 1), move)
      BY <2>1, <2>2, <3>4 DEF Overlap
    <3>6. \A r, s \in new : r # s => ~Overlap(r, s)
      BY <3>1, <3>5
    <3> QED BY <3>3, <3>6, <2>2, <2>4, <2>8, <2>9, <1>5, NewCopies
  <2>6. CASE a.kind \in {"read", "write"}
    <3>0. a.size + (IF a.kind = "open" THEN 1 ELSE 0) = a.size /\ a.kind # "open" /\ a.kind # "close"
      BY <2>1, <2>6
    <3>1. new = {code, data(a.size)}
      BY <2>3, <2>4, <3>0 DEF CopiedBytes, Bytes
    <3>2. action_code_size(a) = BlockSize(a.kind) /\ action_payload_size(a) = a.size
      BY <2>1, <2>6
    <3>3. \A r \in new :
            /\ r.from \in Nat /\ r.to \in Nat
            /\ r.use # "data" => current_code <= r.from /\ r.to <= current_code'
            /\ r.use = "data" => current_payload <= r.from /\ r.to <= current_payload'
      BY <2>1, <2>2, <3>1, <3>2
    <3>4. to <= payload_start /\ payload_start <= current_payload
      BY <2>1, <2>2, <3>2, <1>4, <1>5, <1>6, <1>7
    <3>5. ~Overlap(code, data(a.size)) /\ ~Overlap(data(a.size), code)
      BY <2>1, <2>2, <3>4 DEF Overlap
    <3>6. \A r, s \in new : r # s => ~Overlap(r, s)
      BY <3>1, <3>5
    <3> QED BY <3>3, <3>6, <2>2, <2>4, <2>8, <2>9, <1>5, NewCopies
  <2>7. CASE a.kind = "close"
    <3>1. new = {code} /\ action_code_size(a) = BlockSize(a.kind)
      BY <2>1, <2>4, <2>7 DEF CopiedBytes, Bytes
    <3>2. \A r \in new :
            /\ r.from \in Nat /\ r.to \in Nat
            /\ r.use # "data" => current_code <= r.from /\ r.to <= current_code'
            /\ r.use = "data" => current_payload <= r.from /\ r.to <= current_payload'
      BY <2>1, <2>2, <3>1
    <3>3. \A r, s \in new : r # s => ~Overlap(r, s)
      BY <3>1
    <3> QED BY <3>2, <3>3, <2>2, <2>4, <2>8, <2>9, <1>5, NewCopies
  <2> QED BY <2>1, <2>5, <2>6, <2>7
<1> QED BY <1>1, <1>3, <1>8, <1>9 DEF LayoutInv

(* The exit code comes last, where the payload begins.                     *)
LEMMA CopyExitStep == LayoutInv /\ CopyExit => LayoutInv'
<1> SUFFICES ASSUME LayoutInv, CopyExit PROVE LayoutInv'
  OBVIOUS
<1>1. index = Count + 1 /\ Count \in Nat /\ WellFormed'
  BY DEF LayoutInv, WellFormed, CopyExit, Count
<1>2. PICK c, p : Following(c, p)
  BY DEF LayoutInv, CopyExit
<1>3. c[Count + 1] \in 0 .. 27 * Count /\ p[Count + 1] \in Nat
  <2>1. Count + 1 \in 1 .. Count + 1 /\ (Count + 1) - 1 = Count
    BY <1>1
  <2>2. c[Count + 1] \in Nat /\ p[Count + 1] \in Nat /\ c[Count + 1] <= 27 * ((Count + 1) - 1)
    BY <2>1, <1>2 DEF Following, Sums
  <2> QED BY <2>1, <2>2
<1>4. /\ payload_start = 132 + c[Count + 1] /\ payload_start' = payload_start
      /\ current_code = 120 + c[Count + 1] /\ current_payload = payload_start + p[Count + 1]
      /\ code_size = c[Count + 1] /\ total_payload = p[Count + 1]
      /\ UNCHANGED <<actions, code_size, total_payload, current_payload>>
      /\ current_code' = current_code + 12
  BY <1>1, <1>2, <1>3 DEF Following, payload_start, code_offset, exit_code_size, CopyExit
<1>5. copied' = copied \cup {[from |-> current_code, to |-> current_code + 12, use |-> "code", of |-> index]}
  BY DEF CopyExit, Bytes, exit_code_size
<1>6. Filled'
  <2> DEFINE new == {[from |-> current_code, to |-> current_code + 12, use |-> "code", of |-> index]}
  <2>1. \A r \in new : /\ r.from \in Nat /\ r.to \in Nat
                       /\ r.use # "data" => current_code <= r.from /\ r.to <= current_code'
                       /\ r.use = "data" => current_payload <= r.from /\ r.to <= current_payload'
    BY <1>3, <1>4
  <2>2. \A r, s \in new : r # s => ~Overlap(r, s)
    OBVIOUS
  <2>3. /\ payload_start \in Nat /\ current_code \in Nat /\ current_code' \in Nat /\ current_payload \in Nat
        /\ current_payload' \in Nat /\ current_code <= current_code' /\ current_code' <= payload_start
        /\ payload_start <= current_payload /\ current_payload <= current_payload'
    BY <1>3, <1>4
  <2>4. Filled
    BY DEF LayoutInv, CopyExit
  <2> HIDE DEF new
  <2>5. copied' = copied \cup new
    BY <1>5 DEF new
  <2> QED BY <2>1, <2>2, <2>3, <2>4, <2>5, <1>4, NewCopies
<1>7. current_code' = payload_start' /\ current_payload' = image_size'
  BY <1>3, <1>4 DEF image_size
<1>8. code_size' \in 0 .. 27 * Count' /\ total_payload' \in Nat
  BY <1>3, <1>4 DEF Count
<1> QED BY <1>1, <1>6, <1>7, <1>8 DEF LayoutInv, CopyExit

(* Every step keeps the invariant.                                         *)
LEMMA LayoutStep == LayoutInv /\ [LayoutNext]_layoutVars => LayoutInv'
<1> SUFFICES ASSUME LayoutInv, [LayoutNext]_layoutVars PROVE LayoutInv'
  OBVIOUS
<1>1. CASE UNCHANGED layoutVars
  <2>1. UNCHANGED <<actions, pass, index, code_size, total_payload, current_code, current_payload, copied>>
    BY <1>1 DEF layoutVars
  <2>2. WellFormed' /\ Count' = Count
    BY <2>1 DEF LayoutInv, WellFormed, Count
  <2>3. SizingInv => SizingInv'
    BY <2>1, SumsSame DEF SizingInv
  <2>4. Filled => Filled'
    BY <2>1 DEF Filled, Copied, Apart, Overlap, payload_start
  <2>5. ASSUME NEW c, NEW p, Following(c, p) PROVE Following(c, p)'
    BY <2>1, <2>2, <2>5, SumsSame DEF Following, payload_start
  <2> QED BY <2>1, <2>2, <2>3, <2>4, <2>5 DEF LayoutInv, payload_start, image_size
<1>2. CASE Emitted
  BY <1>1, <1>2 DEF Emitted
<1> QED
  BY <1>1, <1>2, SizeStep, AllocateStep, CopyStep, CopyExitStep DEF LayoutNext

----------------------------------------------------------------------------
(* It gives the variables their types.                                     *)
LEMMA LayoutTypes == LayoutInv => TypeOK
<1> SUFFICES ASSUME LayoutInv PROVE TypeOK
  OBVIOUS
<1>1. Count \in Nat /\ index \in 1 .. Count + 1
  BY DEF LayoutInv, WellFormed
<1>2. CASE pass = "sizing"
  <2>1. PICK c, p : Sums(c, p, index) /\ code_size = c[index] /\ total_payload = p[index]
    BY <1>2 DEF LayoutInv, SizingInv
  <2>2. index \in 1 .. index /\ c[index] \in Nat /\ p[index] \in Nat /\ c[index] <= 27 * (index - 1)
    BY <1>1, <2>1 DEF Sums
  <2> QED BY <1>1, <1>2, <2>1, <2>2
          DEF LayoutInv, WellFormed, SizingInv, TypeOK, Count, payload_start, code_offset, exit_code_size
<1>3. CASE pass = "copying"
  <2>1. PICK c, p : Following(c, p)
    BY <1>3 DEF LayoutInv
  <2>2. Count + 1 \in 1 .. Count + 1 /\ (Count + 1) - 1 = Count
    BY <1>1
  <2>3. /\ c[Count + 1] \in Nat /\ p[Count + 1] \in Nat /\ c[index] \in Nat /\ p[index] \in Nat
        /\ c[index] <= c[Count + 1] /\ p[index] <= p[Count + 1] /\ c[Count + 1] <= 27 * Count
    BY <1>1, <2>1, <2>2 DEF Following, Sums
  <2>4. code_size \in 0 .. 27 * Count /\ total_payload \in Nat
    BY <1>1, <2>1, <2>3 DEF Following
  <2>5. current_code \in code_offset .. payload_start /\ current_payload \in payload_start .. image_size
    BY <2>1, <2>3 DEF Following, payload_start, image_size, code_offset, exit_code_size
  <2> QED BY <1>1, <1>3, <2>4, <2>5 DEF LayoutInv, WellFormed, TypeOK, Count
<1>4. CASE pass = "done"
  BY <1>1, <1>4 DEF LayoutInv, WellFormed, TypeOK, Count, payload_start, image_size, code_offset, exit_code_size
<1> QED BY <1>2, <1>3, <1>4 DEF LayoutInv

(* It keeps the copies inside the image and apart.                         *)
LEMMA LayoutFits == LayoutInv => CopiesFit
<1> SUFFICES ASSUME LayoutInv PROVE CopiesFit
  OBVIOUS
<1>1. TypeOK
  BY LayoutTypes
<1>2. CASE pass = "sizing"
  BY <1>1, <1>2 DEF LayoutInv, SizingInv, CopiesFit
<1>3. CASE pass # "sizing"
  <2>1. Filled
    BY <1>3 DEF LayoutInv
  <2>2. /\ code_size \in Nat /\ total_payload \in Nat /\ payload_start = 132 + code_size
        /\ image_size = payload_start + total_payload
        /\ current_code <= payload_start /\ current_payload <= image_size
        /\ current_code \in Nat /\ current_payload \in Nat
    <3>1. Len(actions) \in Nat
      BY DEF LayoutInv, WellFormed, Count
    <3> QED BY <1>1, <1>3, <3>1 DEF TypeOK, payload_start, image_size, code_offset, exit_code_size
  <2>3. ASSUME NEW r \in copied PROVE 0 <= r.from /\ r.to <= image_size
    <3>1. Copied(r)
      BY <2>1 DEF Filled
    <3>2. CASE r.use = "data"
      BY <2>2, <3>1, <3>2 DEF Copied
    <3>3. CASE r.use # "data"
      BY <2>2, <3>1, <3>3 DEF Copied
    <3> QED BY <3>2, <3>3
  <2> QED BY <1>1, <2>1, <2>3 DEF CopiesFit, Filled, Apart
<1> QED BY <1>2, <1>3

(* Every copy of emit_action_program_executable stays inside the image it  *)
(* has allocated, and no two overlap.                                      *)
THEOREM CopiesFitCorrect == LayoutSpec => []CopiesFit
<1> QED BY InitLayout, LayoutStep, LayoutFits, PTL DEF LayoutSpec

-------------------------------------------------------------------------------
(* The way to the output path.                                             *)

Stages == {"start", "loaded", "emitted", "fallback", "failed", "compiled", "emptied", "filled",
           "wrote", "done"} \cup Compiling
HasResult == {"compiled", "emptied", "filled", "wrote", "done"}

(* The tables have an entry for every process and path.                    *)
Tables ==
  /\ job \in [Procs -> [input : Paths, output : Paths, keep : BOOLEAN]]
  /\ pc \in [Procs -> Stages]
  /\ DOMAIN executable = Procs /\ executable = [p \in Procs |-> executable[p]]
  /\ DOMAIN parsed = Procs /\ parsed = [p \in Procs |-> parsed[p]]
  /\ outputs = [path \in Paths |-> outputs[path]]
  /\ elf = [what |-> elf.what, by |-> elf.by]
  /\ crossed \subseteq Procs

(* A process that has met no other inside compile() is alone in there, and *)
(* at every stage its own program is in the temporary file it reads next.  *)
AloneAt(p) ==
  /\ pc[p] \in Compiling => \A q \in Procs : pc[q] \in Compiling => q = p
  /\ pc[p] = "written" => source \in {Program(p), Broken}
  /\ pc[p] = "parsed" => parsed[p] \in {Program(p), Broken}
  /\ pc[p] = "linking" => parsed[p] = Program(p) /\ elf.by = p
  /\ pc[p] = "linked" => elf.what = Program(p)
  /\ pc[p] \in HasResult => executable[p] = Program(p)

AloneInv == Tables /\ \A p \in Procs \ crossed : AloneAt(p)

(* The invariant holds at the start.                                       *)
LEMMA AloneInit == Init => AloneInv
<1> SUFFICES ASSUME Init PROVE AloneInv
  OBVIOUS
<1>1. Tables
  BY JobsAssumption DEF Init, Tables, Stages, Compiling
<1>2. \A p \in Procs : pc[p] = "start"
  BY DEF Init
<1> QED
  BY <1>1, <1>2 DEF AloneInv, AloneAt, Compiling, HasResult

(* No step loses an entry.                                                 *)
LEMMA TablesStep == ASSUME Tables, NEW p \in Procs, Step(p) PROVE Tables'
<1> USE DEF Tables, Goes, SameTemporaries, SameOutputs, SameResult, Stages, Compiling, Program
<1>1. CASE load_file(p) BY <1>1 DEF load_file
<1>2. CASE emit_c_runtime(p) BY <1>2 DEF emit_c_runtime
<1>3. CASE remove_elf(p) BY <1>3 DEF remove_elf, Inside
<1>4. CASE open_source(p) BY <1>4 DEF open_source
<1>5. CASE write_source(p) BY <1>5 DEF write_source
<1>6. CASE gpp_reads(p) BY <1>6 DEF gpp_reads
<1>7. CASE gpp_creates(p) BY <1>7 DEF gpp_creates
<1>8. CASE gpp_fills(p) BY <1>8 DEF gpp_fills
<1>9. CASE gpp_fails(p) BY <1>9 DEF gpp_fails, AfterFailure
<1>10. CASE read_elf(p) BY <1>10 DEF read_elf
<1>11. CASE fall_back(p) BY <1>11 DEF fall_back
<1>12. CASE open_output(p) BY <1>12 DEF open_output
<1>13. CASE write_output(p) BY <1>13 DEF write_output
<1>14. CASE permissions(p) BY <1>14 DEF permissions
<1>15. CASE keep_cpp(p) BY <1>15 DEF keep_cpp
<1> QED
  BY <1>1, <1>2, <1>3, <1>4, <1>5, <1>6, <1>7, <1>8, <1>9, <1>10, <1>11, <1>12, <1>13, <1>14,
     <1>15 DEF Step

(* A step of another process leaves what a process that stays alone relies *)
(* on: inside compile() no other moves, and one that enters meets it.      *)
LEMMA OthersLeaveAlone ==
  ASSUME Tables, NEW p \in Procs, NEW q \in Procs \ {p}, Step(q), p \notin crossed', AloneAt(p)
  PROVE  AloneAt(p)'
<1> USE DEF Tables, Goes, SameTemporaries, SameOutputs, SameResult, Stages, Compiling, Program,
            AloneAt, HasResult
<1>1. CASE load_file(q) BY <1>1 DEF load_file
<1>2. CASE emit_c_runtime(q) BY <1>2 DEF emit_c_runtime
<1>3. CASE remove_elf(q) BY <1>3 DEF remove_elf, Inside
<1>4. CASE open_source(q) BY <1>4 DEF open_source
<1>5. CASE write_source(q) BY <1>5 DEF write_source
<1>6. CASE gpp_reads(q) BY <1>6 DEF gpp_reads
<1>7. CASE gpp_creates(q) BY <1>7 DEF gpp_creates
<1>8. CASE gpp_fills(q) BY <1>8 DEF gpp_fills
<1>9. CASE gpp_fails(q) BY <1>9 DEF gpp_fails, AfterFailure
<1>10. CASE read_elf(q) BY <1>10 DEF read_elf
<1>11. CASE fall_back(q) BY <1>11 DEF fall_back
<1>12. CASE open_output(q) BY <1>12 DEF open_output
<1>13. CASE write_output(q) BY <1>13 DEF write_output
<1>14. CASE permissions(q) BY <1>14 DEF permissions
<1>15. CASE keep_cpp(q) BY <1>15 DEF keep_cpp
<1> QED
  BY <1>1, <1>2, <1>3, <1>4, <1>5, <1>6, <1>7, <1>8, <1>9, <1>10, <1>11, <1>12, <1>13, <1>14,
     <1>15 DEF Step

(* A process's own step takes it from one stage of AloneAt to the next.    *)
LEMMA OwnStepKeepsAlone ==
  ASSUME Tables, NEW p \in Procs, Step(p), p \notin crossed', AloneAt(p),
         JobsAssumption, p \notin crossed
  PROVE  AloneAt(p)'
<1> USE DEF Tables, Goes, SameTemporaries, SameOutputs, SameResult, Stages, Compiling, Program,
            AloneAt, HasResult
<1>1. CASE load_file(p) BY <1>1 DEF load_file
<1>2. CASE emit_c_runtime(p) BY <1>2 DEF emit_c_runtime
<1>3. CASE remove_elf(p) BY <1>3 DEF remove_elf, Inside
<1>4. CASE open_source(p) BY <1>4 DEF open_source
<1>5. CASE write_source(p) BY <1>5 DEF write_source
<1>6. CASE gpp_reads(p) BY <1>6 DEF gpp_reads
<1>7. CASE gpp_creates(p) BY <1>7 DEF gpp_creates
<1>8. CASE gpp_fills(p) BY <1>8 DEF gpp_fills
<1>9. CASE gpp_fails(p) BY <1>9 DEF gpp_fails, AfterFailure
<1>10. CASE read_elf(p) BY <1>10 DEF read_elf
<1>11. CASE fall_back(p) BY <1>11 DEF fall_back
<1>12. CASE open_output(p) BY <1>12 DEF open_output
<1>13. CASE write_output(p) BY <1>13 DEF write_output
<1>14. CASE permissions(p) BY <1>14 DEF permissions
<1>15. CASE keep_cpp(p) BY <1>15 DEF keep_cpp
<1> QED
  BY <1>1, <1>2, <1>3, <1>4, <1>5, <1>6, <1>7, <1>8, <1>9, <1>10, <1>11, <1>12, <1>13, <1>14,
     <1>15 DEF Step

(* Having met another is never forgotten.                                  *)
LEMMA CrossedGrows == ASSUME NEW p \in Procs, Step(p) PROVE crossed \subseteq crossed'
  BY DEF Step, SameTemporaries, load_file, emit_c_runtime, remove_elf, open_source, write_source,
     gpp_reads, gpp_creates, gpp_fills, gpp_fails, read_elf, fall_back, open_output, write_output,
     permissions, keep_cpp

(* Every step keeps the invariant.                                         *)
LEMMA AloneStep == AloneInv /\ [Next]_vars => AloneInv'
<1> SUFFICES ASSUME AloneInv, [Next]_vars PROVE AloneInv'
  OBVIOUS
<1>1. CASE UNCHANGED vars
  BY <1>1 DEF vars, AloneInv, Tables, AloneAt, Program
<1>2. ASSUME NEW q \in Procs, Step(q) PROVE AloneInv'
  <2>1. Tables'
    BY <1>2, TablesStep DEF AloneInv
  <2>2. ASSUME NEW p \in Procs \ crossed' PROVE AloneAt(p)'
    <3>1. p \notin crossed /\ AloneAt(p)
      BY <1>2, <2>2, CrossedGrows DEF AloneInv
    <3>2. CASE p = q
      BY <1>2, <2>2, <3>1, <3>2, OwnStepKeepsAlone, JobsAssumption DEF AloneInv
    <3>3. CASE p # q
      BY <1>2, <2>2, <3>1, <3>3, OthersLeaveAlone DEF AloneInv
    <3> QED
      BY <3>2, <3>3
  <2> QED
    BY <2>1, <2>2 DEF AloneInv
<1>3. CASE Ended
  BY <1>1, <1>3 DEF Ended
<1> QED
  BY <1>1, <1>2, <1>3 DEF Next

(* However many processes compile at a time, one that has met no other in  *)
(* compile() has the executable of its own program.                        *)
THEOREM OwnProgramCorrect == Spec => []OwnProgram
<1>1. AloneInv => OwnProgram
  BY DEF AloneInv, AloneAt, OwnProgram, HasResult
<1> QED
  BY <1>1, AloneInit, AloneStep, PTL DEF Spec

----------------------------------------------------------------------------
(* What an output that no one else writes was filled with stays there.     *)
WrittenAt(p) ==
  Untouched(job[p].output, p) =>
    /\ pc[p] \in {"filled", "wrote", "done"} => outputs[job[p].output] \in {executable[p], Broken}
    /\ pc[p] \in {"wrote", "done"} => job[p].output \in runnable

WrittenInv == Tables /\ \A p \in Procs : WrittenAt(p)

(* Another process writes other paths only, and takes no permission away.  *)
LEMMA OthersLeaveWritten ==
  ASSUME Tables, NEW p \in Procs, NEW q \in Procs \ {p}, Step(q), WrittenAt(p)
  PROVE  WrittenAt(p)'
<1> USE DEF Tables, Goes, SameTemporaries, SameOutputs, SameResult, WrittenAt, Untouched
<1>1. CASE load_file(q) BY <1>1 DEF load_file
<1>2. CASE emit_c_runtime(q) BY <1>2 DEF emit_c_runtime
<1>3. CASE remove_elf(q) BY <1>3 DEF remove_elf
<1>4. CASE open_source(q) BY <1>4 DEF open_source
<1>5. CASE write_source(q) BY <1>5 DEF write_source
<1>6. CASE gpp_reads(q) BY <1>6 DEF gpp_reads
<1>7. CASE gpp_creates(q) BY <1>7 DEF gpp_creates
<1>8. CASE gpp_fills(q) BY <1>8 DEF gpp_fills
<1>9. CASE gpp_fails(q) BY <1>9 DEF gpp_fails, AfterFailure
<1>10. CASE read_elf(q) BY <1>10 DEF read_elf
<1>11. CASE fall_back(q) BY <1>11 DEF fall_back
<1>12. CASE open_output(q) BY <1>12 DEF open_output
<1>13. CASE write_output(q) BY <1>13 DEF write_output
<1>14. CASE permissions(q) BY <1>14 DEF permissions
<1>15. CASE keep_cpp(q) BY <1>15 DEF keep_cpp, SourcePath
<1> QED
  BY <1>1, <1>2, <1>3, <1>4, <1>5, <1>6, <1>7, <1>8, <1>9, <1>10, <1>11, <1>12, <1>13, <1>14,
     <1>15 DEF Step

(* The process itself fills its output before it grants the permission,    *)
(* and writes nothing there afterwards.                                    *)
LEMMA OwnStepKeepsWritten ==
  ASSUME Tables, NEW p \in Procs, Step(p), WrittenAt(p)
  PROVE  WrittenAt(p)'
<1> USE DEF Tables, Goes, SameTemporaries, SameOutputs, SameResult, WrittenAt, Untouched
<1>1. CASE load_file(p) BY <1>1 DEF load_file
<1>2. CASE emit_c_runtime(p) BY <1>2 DEF emit_c_runtime
<1>3. CASE remove_elf(p) BY <1>3 DEF remove_elf
<1>4. CASE open_source(p) BY <1>4 DEF open_source
<1>5. CASE write_source(p) BY <1>5 DEF write_source
<1>6. CASE gpp_reads(p) BY <1>6 DEF gpp_reads
<1>7. CASE gpp_creates(p) BY <1>7 DEF gpp_creates
<1>8. CASE gpp_fills(p) BY <1>8 DEF gpp_fills
<1>9. CASE gpp_fails(p) BY <1>9 DEF gpp_fails, AfterFailure
<1>10. CASE read_elf(p) BY <1>10 DEF read_elf
<1>11. CASE fall_back(p) BY <1>11 DEF fall_back
<1>12. CASE open_output(p) BY <1>12 DEF open_output
<1>13. CASE write_output(p) BY <1>13 DEF write_output
<1>14. CASE permissions(p) BY <1>14 DEF permissions
<1>15. CASE keep_cpp(p) BY <1>15 DEF keep_cpp, SourcePath
<1> QED
  BY <1>1, <1>2, <1>3, <1>4, <1>5, <1>6, <1>7, <1>8, <1>9, <1>10, <1>11, <1>12, <1>13, <1>14,
     <1>15 DEF Step

(* Every step keeps it.                                                    *)
LEMMA WrittenStep == WrittenInv /\ [Next]_vars => WrittenInv'
<1> SUFFICES ASSUME WrittenInv, [Next]_vars PROVE WrittenInv'
  OBVIOUS
<1>1. CASE UNCHANGED vars
  BY <1>1 DEF vars, WrittenInv, Tables, WrittenAt, Untouched
<1>2. ASSUME NEW q \in Procs, Step(q) PROVE WrittenInv'
  <2>1. Tables'
    BY <1>2, TablesStep DEF WrittenInv
  <2>2. ASSUME NEW p \in Procs PROVE WrittenAt(p)'
    BY <1>2, OwnStepKeepsWritten, OthersLeaveWritten DEF WrittenInv
  <2> QED
    BY <2>1, <2>2 DEF WrittenInv
<1>3. CASE Ended
  BY <1>1, <1>3 DEF Ended
<1> QED
  BY <1>1, <1>2, <1>3 DEF Next

(* "Wrote" is true for every process whose output path is its own.         *)
THEOREM WroteMeansRunnableCorrect == Spec => []WroteMeansRunnable
<1>1. Init => WrittenInv
  <2>1. Init => Tables
    BY AloneInit DEF AloneInv
  <2>2. Init => \A p \in Procs : pc[p] = "start"
    BY DEF Init
  <2> QED
    BY <2>1, <2>2 DEF WrittenInv, WrittenAt
<1>2. WrittenInv => WroteMeansRunnable
  BY DEF WrittenInv, WrittenAt, WroteMeansRunnable
<1> QED
  BY <1>1, <1>2, WrittenStep, PTL DEF Spec
===============================================================================
