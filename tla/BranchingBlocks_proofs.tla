------------------------ MODULE BranchingBlocks_proofs ------------------------
(***************************************************************************)
(* For every program: the block starts the branching compiler has          *)
(* collected are closed under control flow, the emitted program is where   *)
(* the DOS program is, and it ends early only where the collection has not *)
(* made a block of what follows.                                           *)
(***************************************************************************)
EXTENDS BranchingBlocks, SequenceTheorems, NaturalsInduction, WellFoundedInduction, TLAPS

----------------------------------------------------------------------------
(* The walk from a start.                                                  *)

(* A set of numbers has a least member.                                    *)
LEMMA LeastNat ==
  ASSUME NEW S \in SUBSET Nat, S # {}
  PROVE  \E n \in S : \A m \in S : n <= m
<1> DEFINE R == OpToRel(<, Nat)
<1>1. PICK n \in S : \A m \in S : ~ (<<m, n>> \in R)
  <2>1. IsWellFoundedOn(R, Nat)
    BY NatLessThanWellFounded
  <2> HIDE DEF R
  <2> QED
    BY <2>1, WFMin
<1>2. ASSUME NEW m \in S PROVE n <= m
  <2>1. ~(<<m, n>> \in {ss \in Nat \X Nat : ss[1] < ss[2]})
    BY <1>1 DEF OpToRel
  <2> QED
    BY <2>1
<1> QED
  BY <1>1, <1>2

(* A walk ends with an instruction that does not decode or terminates.     *)
Stops(p) == code.at[p] = Undecodable \/ terminates(Kind(p))

(* An instruction that decodes lies in the image, and so does what follows *)
(* it, or the image ends there.                                            *)
LEMMA NextIs ==
  ASSUME code \in Programs
  PROVE  /\ code.size \in Nat
         /\ \A p \in Offsets : /\ p \in Nat
                               /\ code.at[p] # Undecodable =>
                                    /\ NextOf(p) \in Nat /\ p < NextOf(p) /\ NextOf(p) <= code.size
                                    /\ TargetOf(p) \in Int
  BY ProgramsAssumption DEF Offsets, NextOf, TargetOf

(* The recursion of the walk has a solution: every call is for an offset   *)
(* further on in the image, where one exists if none is the last without   *)
(* one.                                                                    *)
LEMMA WalkExists ==
  ASSUME code \in Programs
  PROVE  \E f : f = [p \in 0 .. code.size |->
                       IF p >= code.size THEN {}
                       ELSE {p} \cup (IF code.at[p] = Undecodable \/ terminates(Kind(p)) THEN {}
                                      ELSE f[NextOf(p)])]
<1> DEFINE N == code.size
           Step(f, p) == IF p >= N THEN {}
                         ELSE {p} \cup (IF Stops(p) THEN {} ELSE f[NextOf(p)])
           Is(f, m) == f = [p \in m .. N |-> Step(f, p)]
           Bad == { k \in 0 .. N : ~ \E f : Is(f, N - k) }
<1>1. N \in Nat /\ \A p \in 0 .. N - 1 : ~Stops(p) => NextOf(p) \in p + 1 .. N
  BY NextIs DEF Offsets, Stops
<1>2. Bad = {}
  <2> SUFFICES ASSUME Bad # {} PROVE FALSE
    OBVIOUS
  <2>1. Bad \in SUBSET Nat
    BY <1>1
  <2>2. PICK k \in Bad : \A l \in Bad : k <= l
    <3> HIDE DEF Bad
    <3> QED
      BY <2>1, LeastNat
  <2>3. k \in 0 .. N /\ ~ \E f : Is(f, N - k)
    OBVIOUS
  <2>4. CASE k = 0
    <3> DEFINE f == [p \in N .. N |-> {}]
    <3>1. \A p \in N .. N : p >= N
      BY <1>1
    <3>2. Is(f, N - k)
      BY <1>1, <2>4, <3>1
    <3> QED
      BY <2>3, <3>2
  <2>5. CASE k # 0
    <3> DEFINE m == N - k
    <3>1. k - 1 \in 0 .. N /\ ~(k <= k - 1) /\ N - (k - 1) = m + 1 /\ m \in 0 .. N - 1
      BY <1>1, <2>3, <2>5
    <3>2. k - 1 \notin Bad
      BY <2>2, <3>1
    <3>3. PICK f : Is(f, m + 1)
      BY <3>1, <3>2
    <3>4. \A p \in m .. N : p = m \/ p \in m + 1 .. N
      BY <1>1, <3>1
    <3>5. m \in m .. N /\ \A p \in m + 1 .. N : p # m /\ p \in m .. N
      BY <1>1, <3>1
    <3> HIDE DEF m
    <3> DEFINE g == [p \in m .. N |-> IF p = m THEN Step(f, m) ELSE f[p]]
    <3>6. g = [p \in m .. N |-> g[p]] /\ g[m] = Step(f, m) /\ \A p \in m + 1 .. N : g[p] = f[p]
      BY <3>5
    <3> HIDE DEF g
    <3>7. \A p \in m .. N : ~(p >= N) => (~Stops(p) => NextOf(p) \in m + 1 .. N)
      BY <1>1, <3>1
    <3>8. \A p \in m .. N : Step(g, p) = Step(f, p)
      <4> SUFFICES ASSUME NEW p \in m .. N, ~(p >= N), ~Stops(p)
                   PROVE  g[NextOf(p)] = f[NextOf(p)]
        OBVIOUS
      <4> QED
        BY <3>6, <3>7
    <3>9. \A p \in m + 1 .. N : f[p] = Step(f, p)
      BY <3>3
    <3> HIDE DEF Step
    <3>10. \A p \in m .. N : g[p] = Step(g, p)
      BY <3>4, <3>6, <3>8, <3>9
    <3>11. Is(g, m)
      BY <3>6, <3>10
    <3> QED
      BY <2>3, <3>11 DEF m
  <2> QED
    BY <2>4, <2>5
<1>3. N \in 0 .. N /\ N - N = 0
  BY <1>1
<1>4. \E f : Is(f, N - N)
  <2>1. N \notin Bad
    BY <1>2
  <2> QED
    BY <1>3, <2>1
<1> QED
  BY <1>3, <1>4 DEF Stops

(* The walk from an offset is that offset and the walk from the next one,  *)
(* unless it ends there.                                                   *)
LEMMA WalkIs ==
  ASSUME code \in Programs
  PROVE  /\ \A s : s \notin Offsets => Walk(s) = {}
         /\ \A s \in Offsets : Walk(s) = {s} \cup (IF Stops(s) THEN {} ELSE Walk(NextOf(s)))
<1> DEFINE N == code.size
           Eq(f) == f = [p \in 0 .. N |->
                       IF p >= N THEN {}
                       ELSE {p} \cup (IF code.at[p] = Undecodable \/ terminates(Kind(p)) THEN {}
                                      ELSE f[NextOf(p)])]
           w == CHOOSE f : Eq(f)
<1>1. \A s : Walk(s) = IF s \in Offsets THEN w[s] ELSE {}
  BY DEF Walk
<1>2. Eq(w)
  <2>1. \E f : Eq(f)
    BY WalkExists
  <2> HIDE DEF Eq
  <2> QED
    BY <2>1
<1>3. N \in Nat /\ \A p \in Offsets : ~Stops(p) => NextOf(p) \in 0 .. N
  BY NextIs DEF Stops
<1>4. \A p \in 0 .. N : /\ p >= N => w[p] = {}
                        /\ ~(p >= N) => w[p] = {p} \cup (IF Stops(p) THEN {} ELSE w[NextOf(p)])
  BY <1>2 DEF Stops
<1> HIDE DEF w
<1>5. \A p \in 0 .. N : w[p] = Walk(p)
  <2>1. \A p \in 0 .. N : p >= N \/ p \in Offsets
    BY <1>3 DEF Offsets
  <2>2. \A p \in Offsets : ~(p >= N)
    BY <1>3 DEF Offsets
  <2> QED
    BY <1>1, <1>4, <2>1, <2>2
<1>6. \A s \in Offsets : s \in 0 .. N /\ ~(s >= N)
  BY <1>3 DEF Offsets
<1> QED
  BY <1>1, <1>3, <1>4, <1>5, <1>6

(* A walk goes forward, on behind every instruction that does not end it,  *)
(* and meets nothing inside of an instruction.                             *)
WalkGood(s) ==
  /\ \A p \in Walk(s) : p \in Offsets /\ s <= p
  /\ \A p \in Walk(s) : ~Stops(p) /\ NextOf(p) \in Offsets => NextOf(p) \in Walk(s)
  /\ \A p, q \in Walk(s) : p < q => ~Stops(p) /\ NextOf(p) <= q

(* Every walk is like that: of the starts from which one is not, the last  *)
(* has a next one from which one is.                                       *)
LEMMA WalkForward ==
  ASSUME code \in Programs
  PROVE  \A s \in Offsets : s \in Walk(s) /\ WalkGood(s)
<1> DEFINE N == code.size
           Bad == { k \in Nat : N - k \in Offsets /\ ~WalkGood(N - k) }
<1>1. N \in Nat /\ \A p \in Offsets : /\ p \in Nat /\ p < N
                                      /\ ~Stops(p) => NextOf(p) \in Nat /\ p < NextOf(p)
  BY NextIs DEF Stops, Offsets
<1>2. Bad = {}
  <2> SUFFICES ASSUME Bad # {} PROVE FALSE
    OBVIOUS
  <2>1. PICK k \in Bad : \A l \in Bad : k <= l
    <3>1. Bad \in SUBSET Nat
      OBVIOUS
    <3> HIDE DEF Bad
    <3> QED
      BY <3>1, LeastNat
  <2> DEFINE s == N - k
  <2>2. k \in Nat /\ s \in Offsets /\ ~WalkGood(s)
    OBVIOUS
  <2> DEFINE n == NextOf(s)
  <2>3. Walk(s) = {s} \cup (IF Stops(s) THEN {} ELSE Walk(n))
    BY <2>2, WalkIs
  <2>4. s \in Nat
    BY <1>1, <2>2
  <2>5. ASSUME ~Stops(s), n \in Offsets PROVE WalkGood(n) /\ n \in Walk(n)
    <3>1. n \in Nat /\ s < n /\ n < N
      BY <1>1, <2>2, <2>5
    <3>2. N - n \in Nat /\ N - (N - n) = n /\ ~(k <= N - n)
      BY <1>1, <2>2, <3>1
    <3>3. N - n \notin Bad
      BY <2>1, <3>2
    <3>4. WalkGood(n)
      BY <2>5, <3>2, <3>3
    <3> QED
      BY <2>5, <3>4, WalkIs
  <2> HIDE DEF s, n
  <2>6. CASE Stops(s) \/ n \notin Offsets
    <3>1. Walk(s) = {s}
      BY <2>3, <2>6, WalkIs
    <3>2. \A p \in Walk(s) : p = s
      BY <3>1
    <3>3. WalkGood(s)
      BY <2>2, <2>4, <2>6, <3>2 DEF WalkGood, n
    <3> QED
      BY <2>2, <3>3
  <2>7. CASE ~Stops(s) /\ n \in Offsets
    <3>1. WalkGood(n) /\ n \in Walk(n)
      BY <2>5, <2>7
    <3>2. Walk(s) = {s} \cup Walk(n)
      BY <2>3, <2>7
    <3>3. n \in Nat /\ s < n
      BY <1>1, <2>2, <2>7 DEF n
    <3>4. \A p \in Walk(n) : p \in Offsets /\ n <= p /\ p \in Nat
      BY <1>1, <3>1 DEF WalkGood
    <3>5. \A p \in Walk(s) : p \in Offsets /\ s <= p
      BY <2>2, <2>4, <3>2, <3>3, <3>4
    <3>6. \A p \in Walk(s) : ~Stops(p) /\ NextOf(p) \in Offsets => NextOf(p) \in Walk(s)
      BY <3>1, <3>2 DEF WalkGood, n
    <3>7. \A p, q \in Walk(s) : p < q => ~Stops(p) /\ NextOf(p) <= q
      <4> SUFFICES ASSUME NEW p \in Walk(s), NEW q \in Walk(s), p < q
                   PROVE  ~Stops(p) /\ NextOf(p) <= q
        OBVIOUS
      <4>1. q \in Walk(n)
        BY <2>4, <3>2, <3>3, <3>4
      <4> QED
        BY <2>7, <3>1, <3>2, <3>4, <4>1 DEF WalkGood, n
    <3> QED
      BY <2>2, <3>5, <3>6, <3>7 DEF WalkGood
  <2> QED
    BY <2>6, <2>7
<1>3. \A s \in Offsets : N - s \in Nat /\ N - (N - s) = s
  BY <1>1
<1>4. \A s \in Offsets : N - s \notin Bad
  BY <1>2
<1>5. \A s \in Offsets : WalkGood(s)
  BY <1>3, <1>4
<1> QED
  BY <1>5, WalkIs

----------------------------------------------------------------------------
(* The blocks and the run of their functions.                              *)

Phases == {"collecting", "emitting", "running", "rejected", "undeclared", "exited", "ended"}

(* call_stack and the open do-whiles are within the bound.                 *)
Calls == call_stack \in Seq(Int) /\ Len(call_stack) <= MaxDepth
Opened == /\ loops \in Seq(Int) /\ Len(loops) <= MaxDepth
          /\ \A i \in DOMAIN loops : loops[i] \in starts /\ HasLoop(loops[i])

(* What is emitted decodes, and the functions it calls by name are there.  *)
Compiled == \A s \in starts : ~BodyFails(s) /\ Labels(s) \subseteq starts

(* The emitted program is in the body of the function that runs, or at the *)
(* while of its loop.                                                      *)
Located ==
  /\ at \in Nat \/ at \in starts
  /\ at \in Offsets => at \in Walk(block) /\ (at \in Body(block) \/ AtLoopEnd)

(* The inductive invariant of the types and of the run.                    *)
RunInv ==
  /\ code \in Programs
  /\ starts \subseteq Int /\ todo \subseteq starts /\ changed \in BOOLEAN /\ phase \in Phases
  /\ block \in starts
  /\ Calls /\ Opened
  /\ phase \in {"collecting", "emitting"} => at = block
  /\ phase = "running" => Located /\ Compiled

(* What the walks and the bodies are depends on the program alone.         *)
LEMMA BlocksSame ==
  ASSUME UNCHANGED code
  PROVE  /\ Offsets' = Offsets
         /\ \A s : /\ Walk(s)' = Walk(s) /\ Found(s)' = Found(s) /\ LoopEnd(s)' = LoopEnd(s)
                   /\ HasLoop(s)' = HasLoop(s) /\ Body(s)' = Body(s)
                   /\ BodyFails(s)' = BodyFails(s) /\ Labels(s)' = Labels(s)
<1>1. Offsets' = Offsets
  BY DEF Offsets
<1>2. \A s : Walk(s)' = Walk(s)
  BY DEF Walk, Offsets, Kind, NextOf, terminates
<1>3. \A s : LoopEnd(s)' = LoopEnd(s)
  BY DEF LoopEnd, LoopsBackTo, Walk, Offsets, Kind, TargetOf, NextOf, terminates
<1>4. \A s : HasLoop(s)' = HasLoop(s)
  BY <1>3 DEF HasLoop
<1>5. \A s : Body(s)' = Body(s)
  BY <1>2, <1>3, <1>4 DEF Body, Kind
<1>6. \A s : BodyFails(s)' = BodyFails(s)
  BY <1>5 DEF BodyFails
<1>7. \A s : Labels(s)' = Labels(s)
  BY <1>5 DEF Labels, Kind, TargetOf, NextOf
<1>8. \A s : Found(s)' = Found(s)
  BY <1>2 DEF Found, Kind, TargetOf, NextOf, falls_through, is_branch
<1> QED
  BY <1>1, <1>2, <1>3, <1>4, <1>5, <1>6, <1>7, <1>8

(* The jump of a recovered loop lies on the walk of its block, and is not  *)
(* where the block starts.                                                 *)
LEMMA LoopEndIs ==
  ASSUME NEW s, HasLoop(s)
  PROVE  /\ LoopEnd(s) \in Walk(s) /\ LoopEnd(s) # s
         /\ code.at[LoopEnd(s)] # Undecodable
         /\ Kind(LoopEnd(s)) = "conditional_jump" /\ TargetOf(LoopEnd(s)) = s
<1> DEFINE back == { p \in Walk(s) : LoopsBackTo(s, p) }
<1>1. back # {} /\ LoopEnd(s) = CHOOSE p \in back : TRUE
  BY DEF HasLoop, LoopEnd
<1>2. LoopEnd(s) \in back
  BY <1>1
<1> QED
  BY <1>2 DEF LoopsBackTo

(* The first instruction of a block belongs to its body: the jump of its   *)
(* loop is a later one.                                                    *)
LEMMA StartInBody ==
  ASSUME code \in Programs, NEW s \in Offsets
  PROVE  s \in Walk(s) /\ s \in Body(s)
<1>1. s \in Walk(s) /\ \A q \in Walk(s) : q \in Offsets /\ s <= q
  BY WalkForward DEF WalkGood
<1>2. \A q \in Offsets : q \in Nat
  BY NextIs
<1>3. \A q \in Walk(s) : ~(q < s)
  BY <1>1, <1>2
<1> QED
  BY <1>1, <1>3, LoopEndIs DEF Body

(* A function is entered at its first instruction.                         *)
LEMMA EnterLocated ==
  ASSUME code \in Programs, UNCHANGED <<code, starts>>, NEW s \in starts, block' = s, at' = s
  PROVE  Located'
<1>1. at' \in starts'
  OBVIOUS
<1>2. CASE s \in Offsets
  BY <1>1, <1>2, StartInBody, BlocksSame DEF Located
<1>3. CASE s \notin Offsets
  BY <1>1, <1>3, BlocksSame DEF Located
<1> QED
  BY <1>2, <1>3

(* ... or comes back to the jump of its loop.                              *)
LEMMA LoopEndLocated ==
  ASSUME code \in Programs, UNCHANGED code, NEW s, starts \subseteq Int, s \in Int,
         HasLoop(s), block' = s, at' = LoopEnd(s)
  PROVE  Located'
<1>1. LoopEnd(s) \in Walk(s)
  BY LoopEndIs
<1>2. LoopEnd(s) \in Offsets
  <2>1. CASE s \in Offsets
    BY <1>1, <2>1, WalkForward DEF WalkGood
  <2>2. CASE s \notin Offsets
    BY <1>1, <2>2, WalkIs
  <2> QED
    BY <2>1, <2>2
<1>3. LoopEnd(s) \in Nat
  BY <1>2, NextIs
<1>4. Walk(s)' = Walk(s) /\ LoopEnd(s)' = LoopEnd(s) /\ HasLoop(s)' = HasLoop(s) /\ Offsets' = Offsets
  BY BlocksSame
<1>5. AtLoopEnd'
  BY <1>4 DEF AtLoopEnd
<1> QED
  BY <1>1, <1>3, <1>4, <1>5 DEF Located

(* Where the emitted program is, there is an instruction.                  *)
LEMMA InstructionHere ==
  ASSUME RunInv, phase = "running", at \in Offsets
  PROVE  /\ at \in Walk(block) /\ block \in Offsets
         /\ code.at[at] # Undecodable /\ at \in Nat /\ NextOf(at) \in Nat /\ at < NextOf(at)
         /\ ~AtLoopEnd => at \in Body(block)
<1>1. at \in Walk(block) /\ (at \in Body(block) \/ AtLoopEnd) /\ code \in Programs /\ ~BodyFails(block)
  BY DEF RunInv, Located, Compiled
<1>2. code.at[at] # Undecodable
  BY <1>1, LoopEndIs DEF BodyFails, AtLoopEnd
<1>3. block \in Offsets
  BY <1>1, WalkIs
<1> QED
  BY <1>1, <1>2, <1>3, NextIs

(* A function the body calls by name is there.                             *)
LEMMA Declared ==
  ASSUME RunInv, phase = "running", at \in Offsets, ~AtLoopEnd
  PROVE  /\ Kind(at) \in {"jump", "call"} /\ ~code.at[at].indirect => TargetOf(at) \in starts
         /\ Kind(at) = "conditional_jump" => TargetOf(at) \in starts /\ NextOf(at) \in starts
<1>1. at \in Body(block) /\ Labels(block) \subseteq starts
  BY InstructionHere DEF RunInv, Compiled
<1> DEFINE L(p) == CASE Kind(p) \in {"jump", "call"} ->
                 IF code.at[p].indirect THEN {} ELSE {TargetOf(p)}
            [] Kind(p) = "conditional_jump" -> {TargetOf(p), NextOf(p)}
            [] OTHER -> {}
<1>2. Labels(block) = UNION { L(p) : p \in Body(block) }
  BY DEF Labels
<1>3. L(at) \subseteq starts
  <2> HIDE DEF L
  <2> QED
    BY <1>1, <1>2
<1>4. Kind(at) \in {"jump", "call"} /\ ~code.at[at].indirect => L(at) = {TargetOf(at)}
  OBVIOUS
<1>5. Kind(at) = "conditional_jump" => L(at) = {TargetOf(at), NextOf(at)}
  OBVIOUS
<1> HIDE DEF L
<1> QED
  BY <1>3, <1>4, <1>5

(* An instruction that does not transfer control is followed by the next   *)
(* one of the block.                                                       *)
LEMMA NextLocated ==
  ASSUME RunInv, phase = "running", at \in Offsets, Kind(at) \notin {"string"}, ~terminates(Kind(at)),
         UNCHANGED <<code, starts, block>>, at' = NextOf(at)
  PROVE  Located'
<1> DEFINE n == NextOf(at)
<1>1. /\ at \in Walk(block) /\ block \in Offsets /\ code \in Programs
      /\ code.at[at] # Undecodable /\ at \in Nat /\ n \in Nat /\ at < n
  BY InstructionHere DEF RunInv
<1>2. ~AtLoopEnd /\ ~Stops(at)
  BY <1>1, LoopEndIs DEF AtLoopEnd, terminates, Stops
<1>3. at \in Body(block)
  BY <1>2, InstructionHere
<1>4. WalkGood(block)
  BY <1>1, WalkForward
<1>5. ASSUME n \in Offsets PROVE n \in Walk(block) /\ (n \in Body(block) \/ (HasLoop(block) /\ n = LoopEnd(block)))
  <2>1. n \in Walk(block)
    BY <1>1, <1>2, <1>4, <1>5 DEF WalkGood
  <2>2. ASSUME NEW q \in Walk(block), q < n PROVE Kind(q) # "string"
    <3>1. q \in Nat
      BY <1>1, <1>4, NextIs DEF WalkGood
    <3>2. ~(at < q)
      BY <1>1, <1>4, <2>2, <3>1 DEF WalkGood
    <3>3. q = at \/ q < at
      BY <1>1, <3>1, <3>2
    <3> QED
      BY <1>3, <3>3 DEF Body
  <2>3. \A q \in Walk(block) : q < n => Kind(q) # "string"
    BY <2>2
  <2>4. CASE ~(HasLoop(block) /\ n = LoopEnd(block))
    <3>1. n \in Body(block)
      BY <2>1, <2>3, <2>4, Zenon DEF Body
    <3> QED
      BY <2>1, <3>1
  <2> QED
    BY <2>1, <2>4
<1> HIDE DEF n
<1>6. /\ Offsets' = Offsets /\ Walk(block)' = Walk(block) /\ Body(block)' = Body(block)
      /\ HasLoop(block)' = HasLoop(block) /\ LoopEnd(block)' = LoopEnd(block)
  BY BlocksSame
<1>7. at' = n /\ block' = block
  BY DEF n
<1>8. AtLoopEnd' <=> HasLoop(block) /\ n = LoopEnd(block)
  BY <1>6, <1>7 DEF AtLoopEnd
<1> QED
  BY <1>1, <1>5, <1>6, <1>7, <1>8 DEF Located

(* A step of the run leaves the starts alone, and with them what was       *)
(* compiled.                                                               *)
LEMMA KeepsRunning ==
  ASSUME RunInv, phase = "running", UNCHANGED <<code, entry, collectVars>>,
         phase' \in {"running", "exited", "ended"}, block' \in starts, Calls', Opened',
         phase' = "running" => Located'
  PROVE  RunInv'
<1>1. code' = code /\ starts' = starts /\ todo' = todo /\ changed' = changed
  BY DEF collectVars
<1>2. Compiled
  BY DEF RunInv
<1>3. Compiled'
  BY <1>1, <1>2, BlocksSame DEF Compiled
<1>4. phase' \in Phases /\ phase' \notin {"collecting", "emitting"}
  BY DEF Phases
<1> HIDE DEF Phases
<1> QED
  BY <1>1, <1>3, <1>4 DEF RunInv, Phases

(* The do-whiles that are open stay what they are.                         *)
LEMMA SameOpened == ASSUME Opened, UNCHANGED <<code, starts, loops>> PROVE Opened'
  BY BlocksSame DEF Opened

(* The function of another block is called.                                *)
LEMMA EntersBlock ==
  ASSUME RunInv, phase = "running", UNCHANGED <<code, entry, collectVars>>,
         NEW s \in starts, NEW real, EnterBlock(s, real), Calls', Opened'
  PROVE  RunInv'
<1>1. block' = s /\ at' = s /\ phase' = "running" /\ UNCHANGED <<code, starts>>
  BY DEF EnterBlock, collectVars
<1>2. Located'
  BY <1>1, EnterLocated DEF RunInv
<1> QED
  BY <1>1, <1>2, KeepsRunning

(* The running function ends.                                              *)
LEMMA Unwinds ==
  ASSUME RunInv, phase = "running", UNCHANGED <<code, entry, collectVars>>,
         NEW real, Unwind(real)
  PROVE  RunInv'
<1>1. UNCHANGED <<code, starts>> /\ Calls /\ Opened /\ block \in starts /\ starts \subseteq Int /\ code \in Programs
  BY DEF collectVars, RunInv
<1>2. CASE loops = <<>>
  <2>1. phase' = "ended" /\ UNCHANGED <<block, at, call_stack, loops>>
    BY <1>2 DEF Unwind
  <2>2. Calls' /\ Opened'
    BY <1>1, <2>1, SameOpened DEF Calls
  <2> QED
    BY <1>1, <2>1, <2>2, KeepsRunning
<1>3. CASE loops # <<>>
  <2>1. /\ block' = Head(loops) /\ at' = LoopEnd(Head(loops)) /\ loops' = Tail(loops)
        /\ phase' = "running" /\ call_stack' = call_stack
    BY <1>3 DEF Unwind
  <2>2. /\ 1 \in DOMAIN loops /\ Head(loops) = loops[1] /\ Tail(loops) \in Seq(Int)
        /\ Len(Tail(loops)) = Len(loops) - 1 /\ Len(loops) \in Nat
        /\ \A i \in DOMAIN Tail(loops) : i + 1 \in DOMAIN loops /\ Tail(loops)[i] = loops[i + 1]
    BY <1>1, <1>3 DEF Opened
  <2>3. Head(loops) \in starts /\ HasLoop(Head(loops))
    BY <1>1, <2>2 DEF Opened
  <2>4. Opened'
    <3>1. Len(Tail(loops)) <= MaxDepth
      BY <1>1, <2>2, LimitAssumption DEF Opened
    <3>2. \A i \in DOMAIN Tail(loops) : Tail(loops)[i] \in starts /\ HasLoop(Tail(loops)[i])
      BY <1>1, <2>2 DEF Opened
    <3>3. \A s : HasLoop(s)' = HasLoop(s)
      BY <1>1, BlocksSame
    <3> QED
      BY <1>1, <2>1, <2>2, <3>1, <3>2, <3>3 DEF Opened
  <2>5. Calls'
    BY <1>1, <2>1 DEF Calls
  <2>6. Located'
    BY <1>1, <2>1, <2>3, LoopEndLocated
  <2> QED
    BY <2>1, <2>3, <2>4, <2>5, <2>6, KeepsRunning
<1> QED
  BY <1>2, <1>3

(* The program exits.                                                      *)
LEMMA Exits ==
  ASSUME RunInv, phase = "running", UNCHANGED <<code, entry, collectVars>>, Exit
  PROVE  RunInv'
<1>1. phase' = "exited" /\ UNCHANGED <<block, at, call_stack, loops>> /\ UNCHANGED <<code, starts>>
  BY DEF Exit, collectVars
<1>2. Calls' /\ Opened' /\ block' \in starts
  BY <1>1, SameOpened DEF RunInv, Calls
<1> QED
  BY <1>1, <1>2, KeepsRunning

(* What the passes find and the sweep meets are offsets, or the targets of *)
(* instructions that decode.                                               *)
LEMMA FoundIsInt ==
  ASSUME code \in Programs, NEW s, ~Fails(s)
  PROVE  Found(s) \subseteq Int
<1>1. \A p \in Walk(s) : p \in Offsets
  <2>1. CASE s \in Offsets
    BY <2>1, WalkForward DEF WalkGood
  <2>2. CASE s \notin Offsets
    BY <2>2, WalkIs
  <2> QED
    BY <2>1, <2>2
<1>2. \A p \in Walk(s) : TargetOf(p) \in Int /\ NextOf(p) \in Int
  BY <1>1, NextIs DEF Fails
<1> QED
  BY <1>2 DEF Found

(* Each step of the compiler and of the emitted program keeps the          *)
(* inductive invariant.                                                    *)
LEMMA RunStep == RunInv /\ [Next]_vars => RunInv'
<1> SUFFICES ASSUME RunInv, [Next]_vars PROVE RunInv'
  OBVIOUS
<1>0. /\ code \in Programs /\ starts \subseteq Int /\ todo \subseteq starts /\ changed \in BOOLEAN
      /\ block \in starts /\ Calls /\ Opened
  BY DEF RunInv
<1>1. CASE UNCHANGED vars
  <2>1. UNCHANGED <<code, starts, todo, changed, phase, block, at, call_stack, loops>>
    BY <1>1 DEF vars, runVars, collectVars
  <2>2. Opened' /\ Calls'
    BY <1>0, <2>1, SameOpened DEF Calls
  <2>3. Located => Located'
    BY <2>1, BlocksSame DEF Located, AtLoopEnd
  <2>4. Compiled => Compiled'
    BY <2>1, BlocksSame DEF Compiled
  <2> QED
    BY <1>0, <2>1, <2>2, <2>3, <2>4 DEF RunInv
<1>2. CASE WalkStart
  <2>1. /\ phase = "collecting" /\ UNCHANGED <<code, block, at, call_stack, loops>>
        /\ phase' \in {"collecting", "rejected"}
        /\ starts \subseteq starts' /\ starts' \subseteq Int /\ todo' \subseteq starts'
        /\ changed' \in BOOLEAN
    <3>1. PICK s \in todo :
            IF Fails(s) THEN phase' = "rejected" /\ UNCHANGED collectVars
            ELSE /\ todo' = todo \ {s} /\ starts' = starts \cup Found(s)
                 /\ changed' = InsertChanges(Found(s)) /\ UNCHANGED phase
      BY <1>2 DEF WalkStart
    <3>2. phase = "collecting" /\ UNCHANGED <<code, block, at, call_stack, loops>>
      BY <1>2 DEF WalkStart, runVars
    <3> QED
      BY <1>0, <3>1, <3>2, FoundIsInt DEF InsertChanges, collectVars
  <2>2. Opened' /\ Calls'
    BY <1>0, <2>1, BlocksSame DEF Calls, Opened
  <2> QED
    BY <1>0, <2>1, <2>2 DEF RunInv, Phases
<1>3. CASE NextPass
  <2>1. /\ phase = "collecting" /\ UNCHANGED <<code, starts, phase, block, at, call_stack, loops>>
        /\ todo' = starts /\ changed' = FALSE
    BY <1>3 DEF NextPass, runVars
  <2>2. Opened' /\ Calls'
    BY <1>0, <2>1, SameOpened DEF Calls
  <2> QED
    BY <1>0, <2>1, <2>2 DEF RunInv
<1>4. CASE Sweep
  <2>1. /\ phase = "collecting" /\ phase' = "emitting"
        /\ UNCHANGED <<code, todo, changed, block, at, call_stack, loops>>
        /\ starts' = starts \cup Swept
    BY <1>4 DEF Sweep, runVars
  <2>2. Swept \subseteq Int
    BY <1>0, NextIs DEF Swept
  <2>3. Opened' /\ Calls'
    BY <1>0, <2>1, BlocksSame DEF Calls, Opened
  <2> QED
    BY <1>0, <2>1, <2>2, <2>3 DEF RunInv, Phases
<1>5. CASE Emit
  <2>1. /\ phase = "emitting" /\ UNCHANGED <<code, starts, todo, changed, block, at, call_stack, loops>>
        /\ phase' \in {"rejected", "undeclared", "running"}
        /\ phase' = "running" => Compiled
    BY <1>5 DEF Emit, runVars, collectVars, Compiled
  <2>2. Opened' /\ Calls'
    BY <1>0, <2>1, SameOpened DEF Calls
  <2>3. Compiled => Compiled'
    BY <2>1, BlocksSame DEF Compiled
  <2>4. Located'
    <3>1. at' = block /\ block' = block
      BY <2>1 DEF RunInv
    <3> QED
      BY <1>0, <2>1, <3>1, EnterLocated
  <2> QED
    BY <1>0, <2>1, <2>2, <2>3, <2>4 DEF RunInv, Phases
<1>6. CASE ServiceReturns
  <2>1. /\ phase = "running" /\ at \in Offsets /\ UNCHANGED <<code, entry, collectVars>> /\ CallNextIfBlock
    BY <1>6 DEF ServiceReturns, Running
  <2>2. CASE NextOf(at) < code.size /\ NextOf(at) \in starts
    <3>1. EnterBlock(NextOf(at), NextOf(at)) /\ UNCHANGED <<call_stack, loops, code, starts>>
      BY <2>1, <2>2 DEF CallNextIfBlock, collectVars
    <3>2. Opened' /\ Calls'
      BY <1>0, <3>1, SameOpened DEF Calls
    <3> QED
      BY <2>1, <2>2, <3>1, <3>2, EntersBlock
  <2>3. CASE ~(NextOf(at) < code.size /\ NextOf(at) \in starts)
    <3>1. Unwind(NextOf(at))
      BY <2>1, <2>3 DEF CallNextIfBlock
    <3> QED
      BY <2>1, <3>1, Unwinds
  <2> QED
    BY <2>2, <2>3
<1>7. CASE InterruptExits \/ IndirectCall \/ UnsupportedInstruction
  <2>1. phase = "running" /\ UNCHANGED <<code, entry, collectVars>> /\ Exit
    BY <1>7 DEF InterruptExits, IndirectCall, UnsupportedInstruction, Running
  <2> QED
    BY <2>1, Exits
<1>8. CASE StringInstruction
  <2>1. phase = "running" /\ at \in Offsets /\ Kind(at) = "string" /\ UNCHANGED <<code, entry, collectVars>>
    BY <1>8 DEF StringInstruction, Running
  <2>2. CASE NextOf(at) < code.size /\ NextOf(at) \in starts
    <3>1. /\ Len(OpenLoops) <= MaxDepth /\ EnterBlock(NextOf(at), NextOf(at))
          /\ loops' = OpenLoops /\ call_stack' = call_stack /\ UNCHANGED <<code, starts>>
      BY <1>8, <2>1, <2>2 DEF StringInstruction, collectVars
    <3>2. OpenLoops \in Seq(Int) /\ \A i \in DOMAIN OpenLoops : OpenLoops[i] \in starts /\ HasLoop(OpenLoops[i])
      <4>1. CASE ~HasLoop(block)
        BY <1>0, <4>1 DEF OpenLoops, Opened
      <4>2. CASE HasLoop(block)
        <5>1. /\ <<block>> \in Seq(Int) /\ loops \in Seq(Int)
              /\ Len(<<block>>) = 1 /\ <<block>>[1] = block /\ OpenLoops = <<block>> \o loops
          BY <1>0, <4>2 DEF OpenLoops, Opened
        <5>2. /\ OpenLoops \in Seq(Int) /\ Len(OpenLoops) = 1 + Len(loops)
              /\ \A i \in 1 .. 1 + Len(loops) :
                   OpenLoops[i] = IF i <= 1 THEN <<block>>[i] ELSE loops[i - 1]
          BY <5>1, ConcatProperties
        <5>3. Len(loops) \in Nat /\ DOMAIN loops = 1 .. Len(loops)
          BY <5>1
        <5>4. DOMAIN OpenLoops = 1 .. 1 + Len(loops)
          BY <5>2
        <5>5. \A i \in 1 .. 1 + Len(loops) :
                OpenLoops[i] = block \/ (i - 1 \in DOMAIN loops /\ OpenLoops[i] = loops[i - 1])
          <6>1. \A i \in 1 .. 1 + Len(loops) : i = 1 \/ (~(i <= 1) /\ i - 1 \in 1 .. Len(loops))
            BY <5>3
          <6> QED
            BY <5>1, <5>2, <5>3, <6>1
        <5> QED
          BY <1>0, <4>2, <5>2, <5>4, <5>5 DEF Opened
      <4> QED
        BY <4>1, <4>2
    <3>3. Opened' /\ Calls'
      BY <1>0, <3>1, <3>2, BlocksSame DEF Calls, Opened
    <3> QED
      BY <2>1, <2>2, <3>1, <3>3, EntersBlock
  <2>3. CASE ~(NextOf(at) < code.size /\ NextOf(at) \in starts) /\ HasLoop(block)
    <3>1. /\ at' = LoopEnd(block) /\ UNCHANGED <<phase, block, call_stack, loops, code, starts>>
      BY <1>8, <2>1, <2>3 DEF StringInstruction, collectVars
    <3>2. Opened' /\ Calls' /\ block \in Int
      BY <1>0, <3>1, SameOpened DEF Calls
    <3>3. Located'
      BY <1>0, <2>3, <3>1, <3>2, LoopEndLocated
    <3> QED
      BY <1>0, <2>1, <3>1, <3>2, <3>3, KeepsRunning
  <2>4. CASE ~(NextOf(at) < code.size /\ NextOf(at) \in starts) /\ ~HasLoop(block)
    <3>1. Unwind(NextOf(at))
      BY <1>8, <2>4 DEF StringInstruction
    <3> QED
      BY <2>1, <3>1, Unwinds
  <2> QED
    BY <2>2, <2>3, <2>4
<1>9. CASE Jump
  <2>1. /\ phase = "running" /\ at \in Offsets /\ Kind(at) = "jump" /\ ~code.at[at].indirect
        /\ UNCHANGED <<code, entry, collectVars>> /\ EnterBlock(TargetOf(at), TargetOf(at))
        /\ UNCHANGED <<call_stack, loops, code, starts>>
    BY <1>9 DEF Jump, Running, collectVars
  <2>2. Opened' /\ Calls'
    BY <1>0, <2>1, SameOpened DEF Calls
  <2>3. TargetOf(at) \in starts
    BY <2>1, Declared, LoopEndIs DEF AtLoopEnd
  <2> QED
    BY <2>1, <2>2, <2>3, EntersBlock
<1>10. CASE IndirectJump
  <2>1. phase = "running" /\ UNCHANGED <<code, entry, collectVars>>
    BY <1>10 DEF IndirectJump, Running
  <2>2. CASE Exit
    BY <2>1, <2>2, Exits
  <2>3. ASSUME NEW s \in starts, EnterBlock(s, s), UNCHANGED <<call_stack, loops>> PROVE RunInv'
    <3>1. UNCHANGED <<call_stack, loops, code, starts>>
      BY <2>1, <2>3 DEF collectVars
    <3>2. Opened' /\ Calls'
      BY <1>0, <3>1, SameOpened DEF Calls
    <3> QED
      BY <2>1, <2>3, <3>2, EntersBlock
  <2> QED
    BY <1>10, <2>2, <2>3 DEF IndirectJump
<1>11. CASE Call
  <2>1. /\ phase = "running" /\ at \in Offsets /\ Kind(at) = "call" /\ ~code.at[at].indirect
        /\ UNCHANGED <<code, entry, collectVars>> /\ EnterBlock(TargetOf(at), TargetOf(at))
        /\ UNCHANGED <<loops, code, starts>>
        /\ Len(call_stack) < MaxDepth /\ call_stack' = <<NextOf(at)>> \o call_stack
    BY <1>11 DEF Call, Running, collectVars
  <2>2. Opened'
    BY <1>0, <2>1, SameOpened
  <2>3. Calls'
    <3>1. NextOf(at) \in Int
      BY <2>1, InstructionHere
    <3>2. <<NextOf(at)>> \in Seq(Int) /\ Len(<<NextOf(at)>>) = 1 /\ call_stack \in Seq(Int)
      BY <1>0, <3>1 DEF Calls
    <3>3. <<NextOf(at)>> \o call_stack \in Seq(Int) /\ Len(<<NextOf(at)>> \o call_stack) = 1 + Len(call_stack)
      BY <3>2, ConcatProperties
    <3>4. 1 + Len(call_stack) <= MaxDepth
      BY <2>1, <3>2, LimitAssumption
    <3> QED
      BY <2>1, <3>3, <3>4 DEF Calls
  <2>4. TargetOf(at) \in starts
    BY <2>1, Declared, LoopEndIs DEF AtLoopEnd
  <2> QED
    BY <2>1, <2>2, <2>3, <2>4, EntersBlock
<1>12. CASE Return
  <2>1. phase = "running" /\ UNCHANGED <<code, entry, collectVars>> /\ UNCHANGED <<code, starts>>
    BY <1>12 DEF Return, Running, collectVars
  <2>2. CASE Exit
    BY <2>1, <2>2, Exits
  <2>3. CASE call_stack # <<>> /\ Head(call_stack) \in starts
    <3>1. /\ EnterBlock(Head(call_stack), Head(call_stack))
          /\ call_stack' = Tail(call_stack) /\ loops' = loops
      BY <1>12, <2>3 DEF Return
    <3>2. Opened'
      BY <1>0, <2>1, <3>1, SameOpened
    <3>3. Calls'
      <4>1. /\ Tail(call_stack) \in Seq(Int) /\ Len(Tail(call_stack)) = Len(call_stack) - 1
            /\ Len(call_stack) \in Nat /\ Len(call_stack) <= MaxDepth
        BY <1>0, <2>3 DEF Calls
      <4> QED
        BY <3>1, <4>1, LimitAssumption DEF Calls
    <3> QED
      BY <2>1, <2>3, <3>1, <3>2, <3>3, EntersBlock
  <2> QED
    BY <1>12, <2>2, <2>3 DEF Return
<1>13. CASE Branch
  <2>1. /\ phase = "running" /\ at \in Offsets /\ Kind(at) = "conditional_jump" /\ ~AtLoopEnd
        /\ UNCHANGED <<code, entry, collectVars>> /\ UNCHANGED <<call_stack, loops, code, starts>>
        /\ \E s \in {TargetOf(at), NextOf(at)} : EnterBlock(s, s)
    BY <1>13 DEF Branch, Running, collectVars
  <2>2. Opened' /\ Calls'
    BY <1>0, <2>1, SameOpened DEF Calls
  <2>3. TargetOf(at) \in starts /\ NextOf(at) \in starts
    BY <2>1, Declared
  <2> QED
    BY <2>1, <2>2, <2>3, EntersBlock
<1>14. CASE LoopAgain
  <2>1. /\ phase = "running" /\ UNCHANGED <<code, entry, collectVars>>
        /\ UNCHANGED <<call_stack, loops, code, starts>> /\ EnterBlock(block, TargetOf(at))
    BY <1>14 DEF LoopAgain, Running, collectVars
  <2>2. Opened' /\ Calls'
    BY <1>0, <2>1, SameOpened DEF Calls
  <2> QED
    BY <1>0, <2>1, <2>2, EntersBlock
<1>15. CASE LoopDone
  <2>1. phase = "running" /\ UNCHANGED <<code, entry, collectVars>> /\ Unwind(NextOf(at))
    BY <1>15 DEF LoopDone, Running
  <2> QED
    BY <2>1, Unwinds
<1>16. CASE OrdinaryInstruction
  <2>1. /\ phase = "running" /\ at \in Offsets /\ Kind(at) \in Ordinary
        /\ UNCHANGED <<code, entry, collectVars>> /\ UNCHANGED <<phase, block, call_stack, loops, code, starts>>
        /\ at' = NextOf(at)
    BY <1>16 DEF OrdinaryInstruction, Running, collectVars
  <2>2. Kind(at) \notin {"string"} /\ ~terminates(Kind(at))
    BY <2>1 DEF Ordinary, terminates
  <2>3. Opened' /\ Calls'
    BY <1>0, <2>1, SameOpened DEF Calls
  <2>4. Located'
    BY <2>1, <2>2, NextLocated
  <2> QED
    BY <1>0, <2>1, <2>3, <2>4, KeepsRunning
<1>17. CASE OffTheEnd
  <2>1. phase = "running" /\ UNCHANGED <<code, entry, collectVars>> /\ Unwind(at)
    BY <1>17 DEF OffTheEnd
  <2> QED
    BY <2>1, Unwinds
<1>18. CASE Stopped \/ DepthReached
  BY <1>1, <1>18 DEF Stopped, DepthReached
<1> QED
  BY <1>1, <1>2, <1>3, <1>4, <1>5, <1>6, <1>7, <1>8, <1>9, <1>10, <1>11, <1>12, <1>13, <1>14,
     <1>15, <1>16, <1>17, <1>18 DEF Next

----------------------------------------------------------------------------
(* The collection.                                                         *)

(* As long as the pass has inserted none, whatever the starts it is done   *)
(* with lead to has been collected.                                        *)
ClosedInv ==
  phase = "collecting" /\ ~changed => \A s \in starts \ todo : Found(s) \subseteq starts

(* No step but those of the collection begins or resumes collecting.       *)
LEMMA CollectionSteps ==
  ASSUME [Next]_vars
  PROVE  \/ WalkStart \/ NextPass \/ Sweep
         \/ /\ UNCHANGED <<code, starts, todo, changed, followed>>
            /\ phase' = "collecting" => phase = "collecting"
<1>1. CASE UNCHANGED vars
  BY <1>1 DEF vars, collectVars
<1>2. CASE WalkStart \/ NextPass \/ Sweep
  BY <1>2
<1>4. CASE Emit
  BY <1>4 DEF Emit, collectVars
<1>5. CASE ServiceReturns \/ InterruptExits
  BY <1>5 DEF ServiceReturns, InterruptExits, Running, CallNextIfBlock, EnterBlock, Unwind, Exit, collectVars
<1>6. CASE StringInstruction
  BY <1>6 DEF StringInstruction, Running, EnterBlock, Unwind, collectVars
<1>7. CASE Jump \/ IndirectJump
  BY <1>7 DEF Jump, IndirectJump, Running, EnterBlock, Exit, collectVars
<1>8. CASE Call \/ IndirectCall
  BY <1>8 DEF Call, IndirectCall, Running, EnterBlock, Exit, collectVars
<1>9. CASE Return
  BY <1>9 DEF Return, Running, EnterBlock, Exit, collectVars
<1>10. CASE Branch \/ LoopAgain \/ LoopDone
  BY <1>10 DEF Branch, LoopAgain, LoopDone, Running, EnterBlock, Unwind, collectVars
<1>11. CASE OrdinaryInstruction \/ UnsupportedInstruction
  BY <1>11 DEF OrdinaryInstruction, UnsupportedInstruction, Running, Exit, collectVars
<1>12. CASE OffTheEnd
  BY <1>12 DEF OffTheEnd, Unwind, collectVars
<1>13. CASE Stopped \/ DepthReached
  BY <1>13 DEF Stopped, DepthReached, vars, collectVars
<1> QED
  BY <1>1, <1>2, <1>4, <1>5, <1>6, <1>7, <1>8, <1>9, <1>10, <1>11, <1>12, <1>13 DEF Next

(* A pass that goes on without inserting a start leaves behind it starts   *)
(* that lead to starts.                                                    *)
LEMMA ClosedStep == ClosedInv /\ [Next]_vars => ClosedInv'
<1> SUFFICES ASSUME ClosedInv, [Next]_vars, phase' = "collecting", ~changed',
                    NEW s \in starts' \ todo'
             PROVE  Found(s)' \subseteq starts'
  BY DEF ClosedInv
<1>1. CASE WalkStart
  <2>1. PICK t \in todo : /\ ~Fails(t) /\ todo' = todo \ {t} /\ starts' = starts \cup Found(t)
                          /\ changed' = InsertChanges(Found(t)) /\ phase = "collecting" /\ UNCHANGED code
    BY <1>1 DEF WalkStart
  <2>2. ~changed /\ starts' = starts
    BY <2>1 DEF InsertChanges
  <2>3. CASE s = t
    BY <2>1, <2>2, <2>3, BlocksSame
  <2>4. CASE s # t
    BY <2>1, <2>2, <2>4, BlocksSame DEF ClosedInv
  <2> QED BY <2>3, <2>4
<1>2. CASE NextPass \/ Sweep
  BY <1>2 DEF NextPass, Sweep
<1>3. CASE UNCHANGED <<code, starts, todo, changed, followed>> /\ phase = "collecting"
  BY <1>3, BlocksSame DEF ClosedInv
<1> QED BY <1>1, <1>2, <1>3, CollectionSteps

(* When a pass has walked every start and inserted none, every way out of  *)
(* a collected block leads to a collected block (collect_block_starts).    *)
THEOREM CollectionClosedCorrect == Spec => []CollectionClosed
<1>1. Init => ClosedInv
  BY DEF Init, ClosedInv
<1>2. ClosedInv => CollectionClosed
  BY DEF ClosedInv, CollectionClosed
<1> QED BY <1>1, <1>2, ClosedStep, PTL DEF Spec

----------------------------------------------------------------------------
(* Only a string instruction opens a do-while below the function it calls, *)
(* so without them a function that ends is main's.                         *)
FollowsInv ==
  StringFree => loops = <<>> /\ (phase = "running" => at = last.real)
BeforeRun == phase \in {"collecting", "emitting", "rejected", "undeclared"} => at = last.real

(* Each step keeps the emitted program where the DOS program is.           *)
LEMMA FollowsStep == FollowsInv /\ BeforeRun /\ [Next]_vars => FollowsInv' /\ BeforeRun'
<1> SUFFICES ASSUME FollowsInv, BeforeRun, [Next]_vars PROVE FollowsInv' /\ BeforeRun'
  OBVIOUS
<1> USE DEF FollowsInv, BeforeRun, StringFree, Offsets, Kind
<1>1. CASE UNCHANGED vars
  BY <1>1 DEF vars, runVars
<1>2. CASE WalkStart \/ NextPass \/ Sweep \/ Emit
  BY <1>2 DEF WalkStart, NextPass, Sweep, Emit, runVars
<1>3. CASE ServiceReturns
  BY <1>3 DEF ServiceReturns, Running, CallNextIfBlock, EnterBlock, Unwind
<1>4. CASE InterruptExits
  BY <1>4 DEF InterruptExits, Running, Exit
<1>5. CASE StringInstruction
  <2>1. ~StringFree /\ ~StringFree' /\ phase' \in {"running", "ended"}
    BY <1>5 DEF StringInstruction, Running, EnterBlock, Unwind
  <2> QED BY <2>1
<1>6. CASE Jump
  BY <1>6 DEF Jump, Running, EnterBlock
<1>7. CASE IndirectJump
  BY <1>7 DEF IndirectJump, Running, EnterBlock, Exit
<1>8. CASE Call
  BY <1>8 DEF Call, Running, EnterBlock
<1>9. CASE IndirectCall
  BY <1>9 DEF IndirectCall, Running, Exit
<1>10. CASE Return
  BY <1>10 DEF Return, Running, EnterBlock, Exit
<1>11. CASE Branch
  BY <1>11 DEF Branch, Running, EnterBlock
<1>12. CASE LoopAgain
  <2>1. TargetOf(at) = block
    BY <1>12, LoopEndIs DEF LoopAgain, AtLoopEnd
  <2> QED BY <1>12, <2>1 DEF LoopAgain, Running, EnterBlock
<1>13. CASE LoopDone
  BY <1>13 DEF LoopDone, Running, Unwind
<1>14. CASE OrdinaryInstruction
  BY <1>14 DEF OrdinaryInstruction, Running
<1>15. CASE UnsupportedInstruction
  BY <1>15 DEF UnsupportedInstruction, Running, Exit
<1>16. CASE OffTheEnd
  BY <1>16 DEF OffTheEnd, Unwind
<1>17. CASE Stopped \/ DepthReached
  BY <1>17 DEF Stopped, DepthReached, vars, runVars
<1> QED
  BY <1>1, <1>2, <1>3, <1>4, <1>5, <1>6, <1>7, <1>8, <1>9, <1>10, <1>11, <1>12, <1>13, <1>14,
     <1>15, <1>16, <1>17 DEF Next

(* Calls between emitted functions, recovered do-whiles and dispatched     *)
(* returns keep the emitted program at the DOS program's instruction, in   *)
(* every program without string instructions (emit_block_at and            *)
(* emit_block_body).                                                       *)
THEOREM FollowsProgramCorrect == Spec => []FollowsProgram
<1>1. Init => FollowsInv /\ BeforeRun
  BY DEF Init, FollowsInv, BeforeRun
<1>2. FollowsInv => FollowsProgram
  BY DEF FollowsInv, FollowsProgram
<1> QED BY <1>1, <1>2, FollowsStep, PTL DEF Spec

----------------------------------------------------------------------------
(* Where it ends.                                                          *)

(* What the passes have followed leads to starts, and keeps doing so while *)
(* the sweep adds others.                                                  *)
FollowedInv ==
  /\ phase = "collecting" => followed = {}
  /\ \A s \in followed : Found(s) \subseteq starts

(* The sweep takes the closed starts for followed, and adds to the starts. *)
LEMMA FollowedStep == ClosedInv /\ FollowedInv /\ [Next]_vars => FollowedInv'
<1> SUFFICES ASSUME ClosedInv, FollowedInv, [Next]_vars PROVE FollowedInv'
  OBVIOUS
<1>1. CASE WalkStart
  <2>1. phase = "collecting" /\ followed' = followed
    BY <1>1 DEF WalkStart, collectVars
  <2> QED
    BY <2>1 DEF FollowedInv
<1>2. CASE NextPass
  BY <1>2 DEF NextPass, FollowedInv
<1>3. CASE Sweep
  <2>1. /\ phase = "collecting" /\ todo = {} /\ ~changed /\ starts \subseteq starts'
        /\ followed' = starts /\ phase' = "emitting" /\ code' = code
    BY <1>3 DEF Sweep
  <2>2. \A s \in starts : Found(s) \subseteq starts
    BY <2>1 DEF ClosedInv
  <2> QED
    BY <2>1, <2>2, BlocksSame DEF FollowedInv
<1>4. CASE /\ UNCHANGED <<code, starts, todo, changed, followed>>
           /\ phase' = "collecting" => phase = "collecting"
  BY <1>4, BlocksSame DEF FollowedInv
<1> QED
  BY <1>1, <1>2, <1>3, <1>4, CollectionSteps

(* A program that has ended short of the DOS program's end is where the    *)
(* property says; nothing moves it from there.                             *)
EndsInv ==
  StopsShort /\ StringFree =>
    \/ block \notin followed
    \/ last.from = code.last_interrupt
    \/ (Kind(last.from) = "conditional_jump" /\ AtLoopEnd)

(* A function that ends behind an interrupt is the last one, or nobody has *)
(* looked behind its block: the passes make a start of what follows any    *)
(* other.                                                                  *)
LEMMA EndsStep == RunInv /\ FollowedInv /\ EndsInv /\ [Next]_vars => EndsInv'
<1> SUFFICES ASSUME RunInv, FollowedInv, EndsInv, [Next]_vars, phase' = "ended",
                    StopsShort', StringFree'
             PROVE  EndsInv'
  BY DEF EndsInv, StopsShort
<1>1. CASE UNCHANGED vars
  <2>1. UNCHANGED <<code, starts, followed, phase, block, at, last>>
    BY <1>1 DEF vars, runVars, collectVars
  <2>2. StopsShort /\ StringFree
    BY <2>1 DEF StopsShort, StringFree, Offsets, Kind
  <2>3. AtLoopEnd' <=> AtLoopEnd
    BY <2>1, BlocksSame DEF AtLoopEnd
  <2> QED
    BY <2>1, <2>2, <2>3 DEF EndsInv, Kind
<1>2. CASE WalkStart \/ NextPass \/ Sweep \/ Emit
  BY <1>2 DEF WalkStart, NextPass, Sweep, Emit, collectVars
<1>3. CASE ServiceReturns
  <2>1. /\ phase = "running" /\ at \in Offsets /\ Kind(at) = "interrupt"
        /\ UNCHANGED <<code, starts, followed>> /\ CallNextIfBlock
    BY <1>3 DEF ServiceReturns, Running, collectVars
  <2>2. /\ ~(NextOf(at) < code.size /\ NextOf(at) \in starts)
        /\ last' = [from |-> at, real |-> NextOf(at)] /\ UNCHANGED <<block, at>>
    BY <2>1 DEF CallNextIfBlock, EnterBlock, Unwind
  <2>3. last.real' = NextOf(at) /\ last.from' = at
    BY <2>2
  <2>4. NextOf(at) \in Offsets
    BY <2>1, <2>3, BlocksSame DEF StopsShort
  <2>5. NextOf(at) < code.size /\ NextOf(at) \notin starts
    <3>1. code.size \in Nat
      BY NextIs DEF RunInv
    <3> QED
      BY <2>2, <2>4, <3>1 DEF Offsets
  <2>6. CASE at = code.last_interrupt
    BY <2>1, <2>3, <2>6 DEF EndsInv
  <2>7. CASE at # code.last_interrupt
    <3>1. at \in Walk(block) /\ falls_through(at)
      BY <2>1, <2>7, InstructionHere DEF falls_through
    <3>2. NextOf(at) \in Found(block)
      BY <2>5, <3>1 DEF Found
    <3>3. block \notin followed
      BY <2>5, <3>2 DEF FollowedInv
    <3> QED
      BY <2>1, <2>2, <3>3 DEF EndsInv
  <2> QED
    BY <2>6, <2>7
<1>4. CASE InterruptExits \/ IndirectCall \/ UnsupportedInstruction \/ OrdinaryInstruction
  BY <1>4 DEF InterruptExits, IndirectCall, UnsupportedInstruction, OrdinaryInstruction, Running, Exit
<1>5. CASE StringInstruction
  <2>1. at \in Offsets /\ Kind(at) = "string" /\ code' = code
    BY <1>5 DEF StringInstruction, Running
  <2> QED
    BY <2>1 DEF StringFree, Offsets, Kind
<1>6. CASE Jump \/ IndirectJump \/ Call \/ Return \/ Branch \/ LoopAgain
  BY <1>6 DEF Jump, IndirectJump, Call, Return, Branch, LoopAgain, Running, EnterBlock, Exit
<1>7. CASE LoopDone
  <2>1. /\ phase = "running" /\ Kind(at) = "conditional_jump" /\ AtLoopEnd /\ code' = code
        /\ Unwind(NextOf(at))
    BY <1>7 DEF LoopDone, Running
  <2>2. UNCHANGED <<block, at>> /\ last' = [from |-> at, real |-> NextOf(at)]
    BY <2>1 DEF Unwind
  <2>3. AtLoopEnd' /\ last.from' = at
    BY <2>1, <2>2, BlocksSame DEF AtLoopEnd
  <2>4. Kind(last.from)' = "conditional_jump"
    BY <2>1, <2>3 DEF Kind
  <2> QED
    BY <2>3, <2>4 DEF EndsInv
<1>8. CASE OffTheEnd
  <2>1. phase = "running" /\ at \notin Offsets /\ code' = code /\ last' = [from |-> at, real |-> at]
    BY <1>8 DEF OffTheEnd, Unwind
  <2>2. last.real' = at
    BY <2>1
  <2> QED
    BY <2>1, <2>2, BlocksSame DEF StopsShort
<1>9. CASE Stopped \/ DepthReached
  BY <1>1, <1>9 DEF Stopped, DepthReached
<1> QED
  BY <1>1, <1>2, <1>3, <1>4, <1>5, <1>6, <1>7, <1>8, <1>9 DEF Next

(* The emitted program of an image without string instructions ends short  *)
(* of the DOS program's end only behind the last INT 21h, behind a         *)
(* recovered loop, or in a block the passes have not walked: behind every  *)
(* other interrupt collect_block_starts has made a start, every start has  *)
(* a function, and the function is called (emit_block_body).  With it the  *)
(* types of the compiler's and of the emitted program's state.             *)
THEOREM EndsOnlyThereCorrect == Spec => []EndsOnlyThere
<1>1. Init => RunInv /\ ClosedInv /\ FollowedInv /\ EndsInv
  <2> SUFFICES ASSUME Init PROVE RunInv /\ ClosedInv /\ FollowedInv /\ EndsInv
    OBVIOUS
  <2>1. /\ code \in Programs /\ entry \in 0 .. code.size - 1 /\ starts = {entry} /\ todo = {entry}
        /\ changed = FALSE /\ followed = {} /\ phase = "collecting" /\ block = entry /\ at = entry
        /\ call_stack = <<>> /\ loops = <<>>
    BY DEF Init
  <2>2. entry \in Int
    BY <2>1, NextIs
  <2>3. Calls /\ Opened
    BY <2>1, LimitAssumption DEF Calls, Opened
  <2>4. RunInv
    BY <2>1, <2>2, <2>3 DEF RunInv, Phases
  <2>5. ClosedInv /\ FollowedInv /\ EndsInv
    BY <2>1 DEF ClosedInv, FollowedInv, EndsInv, StopsShort
  <2> QED
    BY <2>4, <2>5
<1>2. RunInv /\ EndsInv => EndsOnlyThere
  <2> SUFFICES ASSUME RunInv, EndsInv PROVE EndsOnlyThere
    OBVIOUS
  <2>1. TypeOK
    BY DEF RunInv, Calls, Opened, Located, Phases, TypeOK
  <2> QED
    BY <2>1 DEF EndsInv, EndsOnlyThere
<1> QED
  BY <1>1, <1>2, RunStep, ClosedStep, FollowedStep, EndsStep, PTL DEF Spec
=============================================================================
