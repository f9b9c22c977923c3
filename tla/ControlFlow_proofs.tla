-------------------------- MODULE ControlFlow_proofs --------------------------
(***************************************************************************)
(* Proofs about the control-flow graph builder, the passes that consume    *)
(* its graph and the straight-line compiler's walk over it, for every set  *)
(* of programs whose instructions lie inside their image.                  *)
(***************************************************************************)
EXTENDS StraightLine, GraphConsumers, FiniteSetTheorems, WellFoundedInduction, TLAPS

----------------------------------------------------------------------------
(* A non-empty set of offsets has a smallest element, which the ordered    *)
(* set's iterator visits next.                                             *)
LEMMA SmallestIsMinimum ==
  ASSUME NEW s, s \subseteq Nat, s # {}
  PROVE  Smallest(s) \in s /\ \A y \in s : Smallest(s) <= y
<1>1. \E x \in s : \A y \in s : ~(<<y, x>> \in OpToRel(<, Nat))
  BY NatLessThanWellFounded, WFMin
<1>2. \E x \in s : \A y \in s : x <= y
  <2>1. PICK x \in s : \A y \in s : ~(<<y, x>> \in OpToRel(<, Nat))
    BY <1>1
  <2>2. \A y \in s : ~(y < x)
    BY <2>1 DEF OpToRel
  <2>3. \A y \in s : x <= y
    BY <2>2
  <2> QED BY <2>3
<1> QED BY <1>2 DEF Smallest

(* What decode_at's own length check gives the builder: the next offset is *)
(* inside the image or exactly at its end.                                 *)
LEMMA NextStaysInside ==
  ASSUME IsProgram(code), NEW p \in Offsets, code.at[p] # Undecodable
  PROVE  /\ NextOf(p) \in p + 1 .. code.size
         /\ TargetOf(p) \in Int
         /\ code.at[p].kind \in Kinds
BY DEF IsProgram, IsInstruction, Offsets, NextOf, TargetOf

(* The successors pushed at the end of a block are offsets of the image.   *)
LEMMA SuccessorsAreOffsets ==
  ASSUME IsProgram(code), NEW p \in Offsets, code.at[p] # Undecodable,
         ends_block(code.at[p].kind),
         has_direct_target(code.at[p].kind) => ~TargetOutside(p)
  PROVE  /\ SuccessorsOf(p) \in Seq(Offsets)
         /\ Elements(SuccessorsOf(p)) =
              (IF has_direct_target(code.at[p].kind) THEN {TargetOf(p)} ELSE {})
              \cup (IF falls_through(code.at[p].kind) /\ NextOf(p) < code.size
                    THEN {NextOf(p)} ELSE {})
<1> DEFINE taken == has_direct_target(code.at[p].kind)
           falls == falls_through(code.at[p].kind) /\ NextOf(p) < code.size
<1>1. NextOf(p) \in p + 1 .. code.size
  BY NextStaysInside
<1>2. falls => NextOf(p) \in Offsets
  BY <1>1 DEF Offsets, IsProgram
<1>3. taken => TargetOf(p) \in Offsets
  BY DEF TargetOutside
<1>4. CASE taken /\ falls
  <2>1. SuccessorsOf(p) = <<TargetOf(p), NextOf(p)>>
    BY <1>4 DEF SuccessorsOf
  <2> QED BY <2>1, <1>2, <1>3, <1>4 DEF Elements
<1>5. CASE taken /\ ~falls
  <2>1. SuccessorsOf(p) = <<TargetOf(p)>>
    BY <1>5 DEF SuccessorsOf
  <2> QED BY <2>1, <1>3, <1>5 DEF Elements
<1>6. CASE ~taken /\ falls
  <2>1. SuccessorsOf(p) = <<NextOf(p)>>
    BY <1>6 DEF SuccessorsOf
  <2> QED BY <2>1, <1>2, <1>6 DEF Elements
<1>7. CASE ~taken /\ ~falls
  <2>1. SuccessorsOf(p) = <<>>
    BY <1>7 DEF SuccessorsOf
  <2> QED BY <2>1, <1>7 DEF Elements
<1> QED BY <1>4, <1>5, <1>6, <1>7

----------------------------------------------------------------------------
(* The facts every walking state has, gathered for the steps below.        *)
LEMMA WalkingState ==
  ASSUME TypeOK, status = "walking"
  PROVE  /\ IsProgram(code)
         /\ code.size \in Nat
         /\ entry \in Offsets
         /\ starts \subseteq Offsets
         /\ start \in starts
         /\ start <= position
         /\ position \in Offsets
BY DEF TypeOK, IsProgram, Offsets

(* Pushing a well-formed block keeps the types.                            *)
LEMMA PushBlockType ==
  ASSUME TypeOK, status = "walking",
         NEW end \in 1 .. code.size, NEW successors \in Seq(Offsets),
         NEW found \in SUBSET Offsets, NEW offsets \in SUBSET Offsets,
         PushBlock(end, successors, found, offsets)
  PROVE  TypeOK'
<1>1. /\ IsProgram(code) /\ code.size \in Nat /\ entry \in Offsets
      /\ starts \subseteq Offsets /\ start \in starts /\ position \in Offsets
      /\ start <= position
  BY WalkingState
<1>2. /\ code' = code /\ entry' = entry /\ Offsets' = Offsets
      /\ starts' = starts \cup found /\ body' = {} /\ changed' \in BOOLEAN
  BY DEF PushBlock, Offsets, InsertChanges, TypeOK
<1>3. graph' \subseteq [start : Offsets, end : 1 .. code.size, successors : Seq(Offsets),
                        body : SUBSET Offsets]
  <2> DEFINE block == [start |-> start, end |-> end, successors |-> successors, body |-> offsets]
             Blocks == [start : Offsets, end : 1 .. code.size, successors : Seq(Offsets),
                        body : SUBSET Offsets]
  <2>1. block \in Blocks
    BY <1>1
  <2>2. graph \subseteq Blocks
    BY DEF TypeOK
  <2>3. graph' = graph \cup {block}
    BY DEF PushBlock
  <2> HIDE DEF block, Blocks
  <2>4. graph' \subseteq Blocks
    BY <2>1, <2>2, <2>3
  <2> QED BY <2>4 DEF Blocks
<1>4. /\ start' \in starts' /\ position' \in Offsets /\ start' <= position'
      /\ status' \in {"walking", "pass_complete"}
  <2> DEFINE later == { s \in starts \cup found : s > start }
  <2>1. CASE later = {}
    BY <2>1, <1>1, <1>2 DEF PushBlock, VisitNext
  <2>2. CASE later # {}
    <3>1. later \subseteq Nat
      <4>1. starts \cup found \subseteq Offsets
        BY <1>1
      <4>2. Offsets \subseteq Nat
        BY <1>1 DEF Offsets
      <4> QED BY <4>1, <4>2
    <3>2. Smallest(later) \in later
      BY <3>1, <2>2, SmallestIsMinimum
    <3>3. start' = Smallest(later) /\ position' = start' /\ status' = status
      BY <2>2 DEF PushBlock, VisitNext
    <3> QED BY <3>1, <3>2, <3>3, <1>1, <1>2
  <2> QED BY <2>1, <2>2
<1>5. IsProgram(code)'
  BY <1>1, <1>2 DEF IsProgram, IsInstruction
<1> QED BY <1>1, <1>2, <1>3, <1>4, <1>5 DEF TypeOK, Offsets

LEMMA TypeInvariant == Init /\ [][Next]_vars => []TypeOK
<1>1. Init => TypeOK
  <2> SUFFICES ASSUME Init PROVE TypeOK
    OBVIOUS
  <2>1. IsProgram(code)
    BY ProgramsAssumption DEF Init
  <2>2. code.size \in Nat
    BY <2>1 DEF IsProgram
  <2>3. /\ entry \in 0 .. code.size /\ entry \in starts /\ start \in starts
        /\ start <= position
        /\ entry < code.size => starts \subseteq Offsets /\ position \in Offsets
    BY <2>2 DEF Init, Offsets
  <2>4. /\ status \in {"walking", "error"}
        /\ entry >= code.size => status = "error"
    BY DEF Init
  <2>5. changed \in BOOLEAN /\ graph = {} /\ body = {}
    BY DEF Init
  <2> QED BY <2>1, <2>3, <2>4, <2>5 DEF TypeOK
<1>2. TypeOK /\ [Next]_vars => TypeOK'
  <2> SUFFICES ASSUME TypeOK, [Next]_vars PROVE TypeOK'
    OBVIOUS
  <2>1. CASE SplitAtStart
    <3>1. position \in 1 .. code.size
      BY <2>1, WalkingState DEF SplitAtStart, AtOtherStart, Offsets, TypeOK
    <3>2. <<position>> \in Seq(Offsets) /\ body \in SUBSET Offsets
      BY <2>1, WalkingState DEF SplitAtStart, TypeOK
    <3> QED BY <2>1, <3>1, <3>2, PushBlockType DEF SplitAtStart
  <2>2. CASE WalkOn
    <3>1. NextOf(position) \in position + 1 .. code.size
      BY <2>2, WalkingState, NextStaysInside DEF WalkOn, Walking
    <3>2. position' \in Offsets /\ start <= position'
      BY <2>2, <3>1, WalkingState DEF WalkOn, Walking, Offsets
    <3> QED BY <2>2, <3>2, WalkingState
            DEF WalkOn, Walking, TypeOK, IsProgram, IsInstruction, Offsets
  <2>3. CASE RunOffEnd
    <3>1. code.size \in 1 .. code.size
      BY <2>3, WalkingState DEF RunOffEnd, Walking, Offsets
    <3>2. <<>> \in Seq(Offsets) /\ body \cup {position} \in SUBSET Offsets
      BY <2>3, WalkingState DEF RunOffEnd, Walking, TypeOK
    <3> QED BY <2>3, <3>1, <3>2, PushBlockType DEF RunOffEnd, Walking
  <2>4. CASE EndBlock
    <3>1. /\ NextOf(position) \in 1 .. code.size
          /\ SuccessorsOf(position) \in Seq(Offsets)
          /\ Elements(SuccessorsOf(position)) \in SUBSET Offsets
      <4>1. NextOf(position) \in position + 1 .. code.size
        BY <2>4, WalkingState, NextStaysInside DEF EndBlock, Walking
      <4>2. SuccessorsOf(position) \in Seq(Offsets)
        BY <2>4, WalkingState, SuccessorsAreOffsets DEF EndBlock, Walking
      <4>3. Elements(SuccessorsOf(position)) \subseteq Offsets
        BY <4>2 DEF Elements
      <4> QED BY <2>4, <4>1, <4>2, <4>3, WalkingState DEF EndBlock, Walking, Offsets
    <3>2. body \cup {position} \in SUBSET Offsets
      BY <2>4, WalkingState DEF EndBlock, Walking, TypeOK
    <3> QED BY <2>4, <3>1, <3>2, PushBlockType DEF EndBlock, Walking
  <2>5. CASE Fail
    BY <2>5 DEF Fail, TypeOK, IsProgram, IsInstruction, Offsets
  <2>6. CASE Rescan
    <3>1. starts \subseteq Offsets /\ starts # {} /\ Offsets \subseteq Nat
      BY <2>6 DEF Rescan, TypeOK, IsProgram, Offsets
    <3>2. Smallest(starts) \in starts
      BY <3>1, SmallestIsMinimum
    <3>3. start' \in starts' /\ position' \in Offsets /\ start' <= position'
      <4>1. /\ start' = Smallest(starts) /\ position' = Smallest(starts)
            /\ starts' = starts
        BY <2>6 DEF Rescan
      <4>2. Smallest(starts) \in Offsets /\ Smallest(starts) \in Nat
        BY <3>1, <3>2
      <4> QED BY <4>1, <4>2, <3>2
    <3> QED BY <2>6, <3>1, <3>3 DEF Rescan, TypeOK, IsProgram, IsInstruction, Offsets
  <2>7. CASE Finish
    BY <2>7 DEF Finish, TypeOK, IsProgram, IsInstruction, Offsets
  <2>8. CASE Returned
    BY <2>8 DEF Returned, vars, TypeOK, IsProgram, IsInstruction, Offsets
  <2>9. CASE UNCHANGED vars
    BY <2>9 DEF vars, TypeOK, IsProgram, IsInstruction, Offsets
  <2> QED BY <2>1, <2>2, <2>3, <2>4, <2>5, <2>6, <2>7, <2>8, <2>9 DEF Next
<1> QED BY <1>1, <1>2, PTL

(* Every state of every build is well typed; in particular no walk leaves  *)
(* the image, so decode_at is only asked for offsets inside it.            *)
THEOREM TypeCorrect == Spec => []TypeOK
BY TypeInvariant, PTL DEF Spec

----------------------------------------------------------------------------
(* Reachable is the least closed set: it holds the entry, it is closed     *)
(* under the program's control flow, and every closed set covers it.       *)
LEMMA EntryIsReachable ==
  ASSUME entry \in Offsets
  PROVE  entry \in Reachable
BY DEF Reachable

LEMMA FlowKeepsReachable ==
  ASSUME NEW p \in Reachable, NEW q \in Offsets, FlowsTo(p, q)
  PROVE  q \in Reachable
BY DEF Reachable, ClosedUnderFlow

LEMMA ClosedSetCoversReachable ==
  ASSUME NEW set \in SUBSET Offsets, entry \in set, ClosedUnderFlow(set)
  PROVE  Reachable \subseteq set
BY DEF Reachable

(* The program does not change, nor does anything defined from it.         *)
LEMMA ProgramFixed ==
  ASSUME code' = code, entry' = entry
  PROVE  /\ Offsets' = Offsets
         /\ Reachable' = Reachable
         /\ \A p : Faulty(p)' <=> Faulty(p)
         /\ \A p, q : FlowsTo(p, q)' <=> FlowsTo(p, q)
         /\ \A s, t : FlowsWithin(s, t)' <=> FlowsWithin(s, t)
<1>1. Offsets' = Offsets
  BY DEF Offsets
<1>2. \A p : Faulty(p)' <=> Faulty(p)
  BY <1>1 DEF Faulty
<1>3. \A p, q : FlowsTo(p, q)' <=> FlowsTo(p, q)
  BY DEF FlowsTo
<1>4. \A s, t : FlowsWithin(s, t)' <=> FlowsWithin(s, t)
  BY <1>1, <1>2, <1>3 DEF FlowsWithin
<1>5. Reachable' = Reachable
  BY <1>1, <1>3 DEF Reachable, ClosedUnderFlow
<1> QED BY <1>1, <1>2, <1>3, <1>4, <1>5

(* Control goes from an instruction that does not end a block only to the  *)
(* next offset, and from one that does only to its pushed successors.      *)
LEMMA StraightFlow ==
  ASSUME IsProgram(code), NEW p \in Offsets, code.at[p] # Undecodable,
         ~ends_block(code.at[p].kind)
  PROVE  /\ ~Faulty(p)
         /\ \A q \in Offsets : FlowsTo(p, q) <=> q = NextOf(p)
BY DEF Faulty, FlowsTo, NextOf, ends_block

LEMMA EndFlow ==
  ASSUME IsProgram(code), NEW p \in Offsets, code.at[p] # Undecodable,
         ends_block(code.at[p].kind),
         has_direct_target(code.at[p].kind) => ~TargetOutside(p)
  PROVE  /\ ~Faulty(p)
         /\ \A q \in Offsets : FlowsTo(p, q) <=> q \in Elements(SuccessorsOf(p))
<1>1. ~Faulty(p)
  BY DEF Faulty, ends_block, has_direct_target, TargetOutside, TargetOf
<1>2. ASSUME NEW q \in Offsets
      PROVE  FlowsTo(p, q) <=>
               \/ has_direct_target(code.at[p].kind) /\ q = TargetOf(p)
               \/ falls_through(code.at[p].kind) /\ NextOf(p) < code.size /\ q = NextOf(p)
  <2>1. q \in Int /\ q < code.size
    BY DEF Offsets, IsProgram
  <2> QED BY <2>1 DEF FlowsTo, ends_block, has_direct_target, falls_through, TargetOf, NextOf
<1> QED BY <1>1, <1>2, SuccessorsAreOffsets

----------------------------------------------------------------------------
(* Pushing a complete block: its offsets are reachable, start with its     *)
(* start, hold no other start, and control leaves it only to its           *)
(* successors, which are starts now.                                       *)
LEMMA PushBlockKeepsInv ==
  ASSUME TypeOK, BuildInv, status = "walking",
         NEW end \in 1 .. code.size, NEW successors \in Seq(Offsets),
         NEW found \in SUBSET Reachable, NEW offsets \in SUBSET Reachable,
         PushBlock(end, successors, found, offsets),
         Elements(successors) \subseteq starts \cup found,
         FlowsWithin(offsets, Elements(successors)),
         start \in offsets, offsets \cap starts \subseteq {start}
  PROVE  BuildInv'
<1> DEFINE block == [start |-> start, end |-> end, successors |-> successors, body |-> offsets]
           later == { s \in starts \cup found : s > start }
<1>0. /\ IsProgram(code) /\ code.size \in Nat /\ entry \in Offsets
      /\ starts \subseteq Offsets /\ start \in starts /\ position \in Offsets
      /\ Reachable \subseteq Offsets /\ Offsets \subseteq Nat
  <2>1. Reachable \subseteq Offsets
    BY DEF Reachable
  <2> QED BY <2>1, WalkingState DEF Offsets
<1>1. /\ code' = code /\ entry' = entry /\ graph' = graph \cup {block}
      /\ starts' = starts \cup found /\ body' = {} /\ changed' = InsertChanges(found)
  BY DEF PushBlock
<1>2. /\ Offsets' = Offsets /\ Reachable' = Reachable
      /\ \A p : Faulty(p)' <=> Faulty(p)
      /\ \A s, t : FlowsWithin(s, t)' <=> FlowsWithin(s, t)
  BY <1>1, ProgramFixed
<1>3. \/ /\ later = {} /\ status' = "pass_complete" /\ start' = start /\ position' = position
      \/ /\ later # {} /\ start' \in later /\ \A s \in later : start' <= s
         /\ position' = start' /\ status' = "walking"
  <2>1. CASE later = {}
    BY <2>1 DEF PushBlock, VisitNext
  <2>2. CASE later # {}
    <3>1. later \subseteq Nat
      <4>1. starts \cup found \subseteq Nat
        BY <1>0
      <4> QED BY <4>1
    <3>2. Smallest(later) \in later /\ \A s \in later : Smallest(later) <= s
      BY <3>1, <2>2, SmallestIsMinimum
    <3> QED BY <2>2, <3>2 DEF PushBlock, VisitNext
  <2> QED BY <2>1, <2>2
<1>4. ~changed' => ~changed /\ starts' = starts
  BY <1>1 DEF InsertChanges
<1>5. ReachInv'
  <2>1. starts \subseteq Reachable /\ position \in Reachable
        /\ \A b \in graph : b.body \subseteq Reachable
    BY <1>0 DEF BuildInv, ReachInv, Offsets
  <2>2. position' \in Reachable
    BY <1>3, <2>1
  <2>3. status' # "error"
    BY <1>3
  <2>4. \A b \in graph' : b.body \subseteq Reachable
    BY <1>1, <2>1
  <2> QED BY <1>1, <1>2, <2>1, <2>2, <2>3, <2>4 DEF ReachInv
<1>6. WalkInv'
  <2>1. status' = "walking" => position' = start'
    BY <1>3
  <2> QED BY <1>1, <2>1 DEF WalkInv, FlowsWithin
<1>7. GraphInv'
  <2>1. /\ \A b \in graph :
             /\ b.start \in b.body /\ Elements(b.successors) \subseteq starts
             /\ FlowsWithin(b.body, Elements(b.successors))
             /\ b.start < start /\ b.start \in Nat
             /\ ~changed => b.body \cap starts = {b.start}
        /\ \A b, c \in graph : b.start = c.start => b = c
        /\ ~changed => \A s \in starts : s < start => \E b \in graph : b.start = s
    BY <1>0 DEF BuildInv, GraphInv, TypeOK
  <2>2. /\ block.start = start /\ block.body = offsets /\ block.successors = successors
    OBVIOUS
  <2> HIDE DEF block
  <2>3. \A b \in graph' :
             /\ b.start \in b.body /\ Elements(b.successors) \subseteq starts'
             /\ FlowsWithin(b.body, Elements(b.successors))'
             /\ ~changed' => b.body \cap starts' = {b.start}
    <3>1. CASE changed'
      BY <3>1, <1>1, <1>2, <2>1, <2>2
    <3>2. CASE ~changed'
      <4>1. starts' = starts /\ ~changed
        BY <3>2, <1>4
      <4>2. offsets \cap starts = {start}
        BY <1>0
      <4>3. ASSUME NEW b \in graph'
            PROVE  /\ b.start \in b.body /\ Elements(b.successors) \subseteq starts'
                   /\ FlowsWithin(b.body, Elements(b.successors))
                   /\ b.body \cap starts' = {b.start}
        <5>1. CASE b \in graph
          BY <5>1, <4>1, <2>1
        <5>2. CASE b = block
          BY <5>2, <4>1, <4>2, <2>2, <1>1
        <5> QED BY <5>1, <5>2, <1>1
      <4> QED BY <4>3, <1>2
    <3> QED BY <3>1, <3>2
  <2>4. \A b \in graph' : status' = "walking" => b.start < start'
    <3> SUFFICES ASSUME NEW b \in graph', status' = "walking" PROVE b.start < start'
      OBVIOUS
    <3>1. start' \in Nat /\ start \in Nat /\ start < start'
      <4>1. start' \in later
        BY <1>3
      <4>2. later \subseteq Nat
        <5>1. starts \cup found \subseteq Nat
          BY <1>0
        <5> QED BY <5>1
      <4> QED BY <4>1, <4>2, <1>0
    <3>2. b.start \in Nat /\ b.start <= start
      BY <1>0, <1>1, <2>1, <2>2, <3>1
    <3> QED BY <3>1, <3>2
  <2>5. \A b, c \in graph' : b.start = c.start => b = c
    <3>1. start \in Nat
      BY <1>0
    <3>2. \A b \in graph : b.start # block.start
      BY <3>1, <2>1, <2>2
    <3> QED BY <1>1, <2>1, <3>2
  <2>6. ASSUME ~changed', NEW s \in starts', status' = "walking" => s < start'
        PROVE  \E b \in graph' : b.start = s
    <3>1. s \in starts /\ s \in Nat /\ start \in Nat /\ starts' = starts /\ ~changed
      BY <2>6, <1>0, <1>4
    <3>2. ~(s > start)
      <4>1. CASE later = {}
        BY <4>1, <3>1
      <4>2. CASE later # {}
        <5>1. s > start => s \in later
          BY <3>1
        <5>2. status' = "walking" /\ start' \in later /\ \A x \in later : start' <= x
          BY <4>2, <1>3
        <5>3. start' \in Nat
          <6>1. starts \cup found \subseteq Nat
            BY <1>0
          <6> QED BY <5>2, <6>1
        <5> QED BY <5>1, <5>2, <5>3, <2>6, <3>1
      <4> QED BY <4>1, <4>2
    <3>3. s < start \/ s = start
      BY <3>1, <3>2
    <3> QED BY <3>1, <3>3, <1>1, <2>1, <2>2
  <2>7. status' \in {"walking", "pass_complete"} /\ body' = {}
    BY <1>1, <1>3
  <2> QED BY <2>3, <2>4, <2>5, <2>6, <2>7 DEF GraphInv
<1> QED BY <1>5, <1>6, <1>7 DEF BuildInv

(* What BuildInv says of a walk that has not run into another start.       *)
LEMMA WalkBody ==
  ASSUME TypeOK, BuildInv, Walking(position)
  PROVE  /\ body \cup {position} \in SUBSET Reachable
         /\ start \in body \cup {position}
         /\ (body \cup {position}) \cap starts \subseteq {start}
         /\ FlowsWithin(body, {position})
<1>1. entry < code.size
  BY WalkingState DEF Walking, Offsets
<1> QED BY <1>1 DEF BuildInv, ReachInv, WalkInv, Walking, AtOtherStart

(* Adding the instruction at the position to the walk.                     *)
LEMMA ExtendWalk ==
  ASSUME FlowsWithin(body, {position}), ~Faulty(position), NEW exits,
         \A q \in Offsets : FlowsTo(position, q) => q \in exits
  PROVE  FlowsWithin(body \cup {position}, exits)
BY DEF FlowsWithin

LEMMA BuildInvCorrect == Init /\ [][Next]_vars => []BuildInv
<1>1. Init => BuildInv
  <2> SUFFICES ASSUME Init PROVE BuildInv
    OBVIOUS
  <2>1. IsProgram(code) /\ code.size \in Nat
    BY ProgramsAssumption DEF Init, IsProgram
  <2>2. entry < code.size => entry \in Reachable
    <3>1. entry < code.size => entry \in Offsets
      BY <2>1 DEF Init, Offsets
    <3> QED BY <3>1, EntryIsReachable
  <2>3. ReachInv
    BY <2>1, <2>2 DEF Init, ReachInv
  <2>4. WalkInv
    BY DEF Init, WalkInv, FlowsWithin
  <2>5. GraphInv
    <3>1. entry \in Nat
      BY <2>1 DEF Init
    <3> QED BY <3>1 DEF Init, GraphInv
  <2> QED BY <2>3, <2>4, <2>5 DEF BuildInv
<1>2. TypeOK /\ BuildInv /\ [Next]_vars => BuildInv'
  <2> SUFFICES ASSUME TypeOK, BuildInv, [Next]_vars PROVE BuildInv'
    OBVIOUS
  <2>1. CASE SplitAtStart
    <3>1. /\ status = "walking" /\ position # start /\ position \in starts
          /\ PushBlock(position, <<position>>, {}, body)
      BY <2>1 DEF SplitAtStart, AtOtherStart
    <3>2. position \in 1 .. code.size /\ <<position>> \in Seq(Offsets)
      BY <3>1, WalkingState DEF Offsets, TypeOK
    <3>3. entry < code.size
      BY <3>1, WalkingState DEF Offsets
    <3>4. Elements(<<position>>) = {position}
      BY DEF Elements
    <3>5. /\ body \in SUBSET Reachable /\ start \in body
          /\ body \cap starts \subseteq {start} /\ FlowsWithin(body, {position})
      BY <3>1, <3>3 DEF BuildInv, ReachInv, WalkInv
    <3> QED BY <3>1, <3>2, <3>4, <3>5, PushBlockKeepsInv
  <2>2. CASE WalkOn
    <3>1. /\ status = "walking" /\ Walking(position) /\ ~ends_block(code.at[position].kind)
          /\ NextOf(position) # code.size
          /\ position' = NextOf(position) /\ body' = body \cup {position}
          /\ UNCHANGED <<code, entry, starts, changed, graph, start, status>>
      BY <2>2 DEF WalkOn, Walking
    <3>2. /\ NextOf(position) \in Offsets /\ position < NextOf(position)
          /\ ~Faulty(position)
          /\ \A q \in Offsets : FlowsTo(position, q) <=> q = NextOf(position)
          /\ \A p \in body : p \in Nat /\ p < position
          /\ position \in Nat /\ start \in Nat /\ NextOf(position) \in Nat
      <4>1. NextOf(position) \in position + 1 .. code.size
        BY <3>1, WalkingState, NextStaysInside DEF Walking
      <4>2. ~Faulty(position) /\ \A q \in Offsets : FlowsTo(position, q) <=> q = NextOf(position)
        BY <3>1, WalkingState, StraightFlow DEF Walking
      <4>3. \A p \in body : p < position
        BY <3>1 DEF BuildInv, WalkInv
      <4> QED BY <3>1, <4>1, <4>2, <4>3, WalkingState DEF Offsets, TypeOK
    <3>3. ReachInv'
      <4>1. NextOf(position) \in Reachable /\ body \cup {position} \subseteq Reachable
        BY <3>1, <3>2, WalkBody, FlowKeepsReachable
      <4> QED BY <3>1, <4>1, ProgramFixed DEF ReachInv, BuildInv
    <3>4. FlowsWithin(body \cup {position}, {NextOf(position)})
      BY <3>1, <3>2, WalkBody, ExtendWalk
    <3>5. WalkInv'
      <4>1. \A p \in body' : p < position'
        BY <3>1, <3>2
      <4>2. start \in body' /\ body' \cap starts' \subseteq {start'}
        BY <3>1, WalkBody
      <4>3. FlowsWithin(body, {position})'
        BY <3>1, <3>4, ProgramFixed
      <4> QED BY <3>1, <4>1, <4>2, <4>3 DEF WalkInv
    <3>6. GraphInv'
      BY <3>1, ProgramFixed DEF GraphInv, BuildInv
    <3> QED BY <3>3, <3>5, <3>6 DEF BuildInv
  <2>3. CASE RunOffEnd
    <3>1. /\ status = "walking" /\ Walking(position) /\ ~ends_block(code.at[position].kind)
          /\ NextOf(position) = code.size
          /\ PushBlock(code.size, <<>>, {}, body \cup {position})
      BY <2>3 DEF RunOffEnd, Walking
    <3>2. code.size \in 1 .. code.size /\ <<>> \in Seq(Offsets) /\ Elements(<<>>) = {}
      BY <3>1, WalkingState DEF Offsets, Elements
    <3>3. ~Faulty(position) /\ \A q \in Offsets : ~FlowsTo(position, q)
      <4>1. ~Faulty(position) /\ \A q \in Offsets : FlowsTo(position, q) <=> q = NextOf(position)
        BY <3>1, WalkingState, StraightFlow DEF Walking
      <4>2. code.size \notin Offsets
        BY <3>1, WalkingState DEF Offsets
      <4> QED BY <3>1, <4>1, <4>2
    <3>4. FlowsWithin(body \cup {position}, {})
      BY <3>1, <3>3, WalkBody, ExtendWalk
    <3> QED BY <3>1, <3>2, <3>4, WalkBody, PushBlockKeepsInv
  <2>4. CASE EndBlock
    <3> DEFINE pushed == SuccessorsOf(position)
    <3>1. /\ status = "walking" /\ Walking(position) /\ ends_block(code.at[position].kind)
          /\ has_direct_target(code.at[position].kind) => ~TargetOutside(position)
          /\ PushBlock(NextOf(position), pushed, Elements(pushed), body \cup {position})
      BY <2>4 DEF EndBlock, Walking
    <3>2. NextOf(position) \in 1 .. code.size /\ pushed \in Seq(Offsets)
      <4>1. NextOf(position) \in position + 1 .. code.size
        BY <3>1, WalkingState, NextStaysInside DEF Walking
      <4>2. pushed \in Seq(Offsets)
        BY <3>1, WalkingState, SuccessorsAreOffsets DEF Walking
      <4> QED BY <3>1, <4>1, <4>2, WalkingState DEF Offsets
    <3>3. ~Faulty(position) /\ \A q \in Offsets : FlowsTo(position, q) <=> q \in Elements(pushed)
      BY <3>1, WalkingState, EndFlow DEF Walking
    <3>4. Elements(pushed) \in SUBSET Reachable
      <4>1. Elements(pushed) \subseteq Offsets
        BY <3>2 DEF Elements
      <4> QED BY <3>1, <3>3, <4>1, WalkBody, FlowKeepsReachable
    <3>5. FlowsWithin(body \cup {position}, Elements(pushed))
      BY <3>1, <3>3, WalkBody, ExtendWalk
    <3> HIDE DEF pushed
    <3>6. Elements(pushed) \subseteq starts \cup Elements(pushed)
      OBVIOUS
    <3> QED BY <3>1, <3>2, <3>4, <3>5, <3>6, WalkBody, PushBlockKeepsInv
  <2>5. CASE Fail
    <3>1. Faulty(position) /\ entry < code.size
      BY <2>5, WalkingState DEF Fail, Faulty, has_direct_target, ends_block, TargetOutside,
                                TargetOf, Offsets
    <3>2. UNCHANGED <<code, entry, starts, changed, graph, start, position, body>>
          /\ status' = "error" /\ status = "walking"
      BY <2>5 DEF Fail
    <3>3. ReachInv'
      BY <3>1, <3>2, ProgramFixed DEF ReachInv, BuildInv
    <3>4. WalkInv' /\ GraphInv'
      BY <3>2, ProgramFixed DEF WalkInv, GraphInv, BuildInv
    <3> QED BY <3>3, <3>4 DEF BuildInv
  <2>6. CASE Rescan
    <3>1. /\ code' = code /\ entry' = entry /\ starts' = starts /\ body' = body /\ body = {}
          /\ graph' = {} /\ start' = Smallest(starts) /\ position' = start'
          /\ status' = "walking" /\ status = "pass_complete"
      BY <2>6 DEF Rescan, BuildInv, GraphInv
    <3>2. starts \subseteq Nat /\ starts # {} /\ entry < code.size
      BY <3>1 DEF TypeOK, IsProgram, Offsets
    <3>3. Smallest(starts) \in starts /\ \A y \in starts : Smallest(starts) <= y
      BY <3>2, SmallestIsMinimum
    <3>4. ReachInv'
      BY <3>1, <3>2, <3>3, ProgramFixed DEF ReachInv, BuildInv
    <3>5. WalkInv'
      BY <3>1 DEF WalkInv, FlowsWithin
    <3>6. \A s \in starts : ~(s < Smallest(starts))
      <4>1. ASSUME NEW s \in starts PROVE ~(s < Smallest(starts))
        <5>1. s \in Nat /\ Smallest(starts) \in Nat /\ Smallest(starts) <= s
          BY <3>2, <3>3
        <5> QED BY <5>1
      <4> QED BY <4>1
    <3>7. GraphInv'
      BY <3>1, <3>6 DEF GraphInv
    <3> QED BY <3>4, <3>5, <3>7 DEF BuildInv
  <2>7. CASE Finish
    <3>1. UNCHANGED <<code, entry, starts, changed, graph, start, position, body>>
          /\ status' = "done" /\ status = "pass_complete" /\ ~changed
      BY <2>7 DEF Finish
    <3>2. ReachInv'
      BY <3>1, ProgramFixed DEF ReachInv, BuildInv
    <3>3. WalkInv' /\ GraphInv'
      BY <3>1, ProgramFixed DEF WalkInv, GraphInv, BuildInv
    <3> QED BY <3>2, <3>3 DEF BuildInv
  <2>8. CASE UNCHANGED vars
    BY <2>8, ProgramFixed DEF vars, BuildInv, ReachInv, WalkInv, GraphInv
  <2> QED BY <2>1, <2>2, <2>3, <2>4, <2>5, <2>6, <2>7, <2>8 DEF Next, Returned
<1> QED BY <1>1, <1>2, TypeInvariant, PTL

----------------------------------------------------------------------------
(* The builder decodes and splits only code that control can reach from    *)
(* the entry, in every state of every build.                               *)
THEOREM OnlyReachableCorrect == Spec => []OnlyReachable
<1>1. TypeOK /\ BuildInv => OnlyReachable
  BY DEF OnlyReachable, BuildInv, ReachInv, TypeOK, IsProgram
<1> QED BY <1>1, TypeCorrect, BuildInvCorrect, PTL DEF Spec

(* In a finished graph no block is stale: one block for every start, split *)
(* at every start on its instruction boundaries, closed under successors.  *)
LEMMA InvGivesFixedPoint ==
  ASSUME TypeOK, BuildInv
  PROVE  FixedPoint
<1> SUFFICES ASSUME status = "done" PROVE FixedPoint
  BY DEF FixedPoint
<1>1. /\ ~changed
      /\ \A s \in starts : \E b \in graph : b.start = s
      /\ \A b \in graph : b.body \cap starts = {b.start} /\ Elements(b.successors) \subseteq starts
      /\ \A b, c \in graph : b.start = c.start => b = c
  BY DEF BuildInv, GraphInv
<1>2. { b.start : b \in graph } = starts
  BY <1>1
<1> QED BY <1>1, <1>2 DEF FixedPoint

(* A finished graph holds every instruction control can reach, and no      *)
(* other: the union of the blocks is closed under the control flow.        *)
LEMMA InvGivesCover ==
  ASSUME TypeOK, BuildInv
  PROVE  CoversReachable
<1> SUFFICES ASSUME status = "done" PROVE CoversReachable
  BY DEF CoversReachable
<1> DEFINE held == UNION { b.body : b \in graph }
<1>1. /\ entry \in starts /\ entry < code.size
      /\ \A b \in graph : b.body \subseteq Offsets
  BY DEF TypeOK, IsProgram
<1>2. /\ \A s \in starts : \E b \in graph : b.start = s
      /\ \A b \in graph : /\ b.start \in b.body /\ Elements(b.successors) \subseteq starts
                           /\ FlowsWithin(b.body, Elements(b.successors))
                           /\ b.body \subseteq Reachable
  BY <1>1 DEF BuildInv, GraphInv, ReachInv
<1>3. starts \subseteq held
  BY <1>2
<1>4. held \in SUBSET Offsets
  BY <1>1
<1>5. ClosedUnderFlow(held)
  <2>1. ASSUME NEW b \in graph, NEW p \in b.body, NEW q \in Offsets, FlowsTo(p, q)
        PROVE  q \in held
    BY <2>1, <1>2, <1>3 DEF FlowsWithin
  <2> QED BY <2>1 DEF ClosedUnderFlow
<1>6. Reachable \subseteq held
  BY <1>1, <1>3, <1>4, <1>5, ClosedSetCoversReachable
<1>7. held \subseteq Reachable
  BY <1>2
<1> QED BY <1>6, <1>7 DEF CoversReachable

(* The builder's verdict is exact: it fails only for a fault that control  *)
(* can reach, and succeeds only when there is none.                        *)
LEMMA InvGivesVerdict ==
  ASSUME TypeOK, BuildInv
  PROVE  VerdictExact
<1>1. ASSUME status = "error", entry < code.size PROVE \E p \in Reachable : Faulty(p)
  BY <1>1 DEF BuildInv, ReachInv
<1>2. ASSUME status = "done", NEW p \in Reachable PROVE ~Faulty(p)
  <2>1. PICK b \in graph : p \in b.body
    BY <1>2, InvGivesCover DEF CoversReachable
  <2> QED BY <2>1 DEF BuildInv, GraphInv, FlowsWithin
<1> QED BY <1>1, <1>2 DEF VerdictExact

(* Every graph the builder returns is the fixed point.                     *)
THEOREM FixedPointCorrect == Spec => []FixedPoint
BY InvGivesFixedPoint, TypeCorrect, BuildInvCorrect, PTL DEF Spec

(* Every graph the builder returns covers the reachable code, exactly.     *)
THEOREM CoversReachableCorrect == Spec => []CoversReachable
BY InvGivesCover, TypeCorrect, BuildInvCorrect, PTL DEF Spec

(* Every verdict of the builder is right.                                  *)
THEOREM VerdictExactCorrect == Spec => []VerdictExact
BY InvGivesVerdict, TypeCorrect, BuildInvCorrect, PTL DEF Spec

----------------------------------------------------------------------------
(* What BuildInv leaves out: a control-flow instruction is the last of its *)
(* block, and where it leads are block starts.                             *)
EndsInv ==
  /\ \A p \in body : ~ends_block(code.at[p].kind)
  /\ \A b \in graph : \A p \in b.body :
       ends_block(code.at[p].kind) => Elements(SuccessorsOf(p)) \subseteq starts

LEMMA PushKeepsEndsInv ==
  ASSUME EndsInv, NEW end, NEW successors, NEW found, NEW offsets,
         PushBlock(end, successors, found, offsets),
         \A p \in offsets : ends_block(code.at[p].kind) =>
                              Elements(SuccessorsOf(p)) \subseteq starts \cup found
  PROVE  EndsInv'
<1> DEFINE block == [start |-> start, end |-> end, successors |-> successors, body |-> offsets]
<1>1. /\ code' = code /\ starts' = starts \cup found /\ body' = {}
      /\ graph' = graph \cup {block}
  BY DEF PushBlock
<1>2. block.body = offsets
  OBVIOUS
<1> HIDE DEF block
<1>3. \A p : SuccessorsOf(p)' = SuccessorsOf(p)
  BY <1>1 DEF SuccessorsOf, TargetOf, NextOf
<1>4. \A p : Elements(SuccessorsOf(p))' = Elements(SuccessorsOf(p))
  BY <1>3 DEF Elements
<1> QED
  BY <1>1, <1>2, <1>4 DEF EndsInv

LEMMA EndsInvCorrect == Init /\ [][Next]_vars => []EndsInv
<1>1. Init => EndsInv
  BY DEF Init, EndsInv
<1>2. EndsInv /\ [Next]_vars => EndsInv'
  <2> SUFFICES ASSUME EndsInv, [Next]_vars PROVE EndsInv'
    OBVIOUS
  <2>1. CASE SplitAtStart
    BY <2>1, PushKeepsEndsInv DEF SplitAtStart, EndsInv
  <2>2. CASE RunOffEnd
    BY <2>2, PushKeepsEndsInv DEF RunOffEnd, EndsInv
  <2>3. CASE EndBlock
    BY <2>3, PushKeepsEndsInv DEF EndBlock, EndsInv
  <2>4. ASSUME UNCHANGED <<code, starts>>, graph' \in {graph, {}},
               \A p \in body' : ~ends_block(code.at[p].kind)
        PROVE  EndsInv'
    <3>1. \A p : Elements(SuccessorsOf(p))' = Elements(SuccessorsOf(p))
      BY <2>4 DEF SuccessorsOf, TargetOf, NextOf, Elements
    <3> QED
      BY <2>4, <3>1 DEF EndsInv
  <2>5. CASE WalkOn
    BY <2>4, <2>5 DEF WalkOn, EndsInv
  <2>6. CASE Fail \/ Rescan \/ Finish \/ Returned \/ UNCHANGED vars
    BY <2>4, <2>6 DEF Fail, Rescan, Finish, Returned, vars, EndsInv
  <2> QED
    BY <2>1, <2>2, <2>3, <2>5, <2>6 DEF Next
<1> QED
  BY <1>1, <1>2, PTL

----------------------------------------------------------------------------
(* What the builder's properties give the walk at a reachable instruction: *)
(* control stays in the reachable code, and both ways of a branch are      *)
(* block starts unless the code ends with it.                              *)
Graph == TypeOK /\ BuildInv /\ EndsInv /\ FixedPoint /\ CoversReachable /\ VerdictExact

LEMMA GraphStarts ==
  ASSUME Graph, status = "done"
  PROVE  /\ BlockStarts = starts /\ starts \subseteq Reachable /\ starts \subseteq Nat
         /\ starts # {} /\ Smallest(BlockStarts) \in starts
<1>1. BlockStarts = starts
  BY DEF Graph, FixedPoint, BlockStarts
<1>2. starts \subseteq Nat /\ starts # {} /\ entry < code.size
  BY DEF Graph, TypeOK, IsProgram, Offsets
<1>3. starts \subseteq Reachable
  BY <1>2 DEF Graph, BuildInv, ReachInv
<1> QED
  BY <1>1, <1>2, <1>3, SmallestIsMinimum

LEMMA ReachableInstruction ==
  ASSUME Graph, status = "done", NEW p \in Reachable
  PROVE  /\ p \in Offsets /\ code.at[p] # Undecodable /\ code.at[p].kind \in Kinds
         /\ NextOf(p) \in p + 1 .. code.size
         /\ code.at[p].kind = "jump" => TargetOf(p) \in Reachable
         /\ code.at[p].kind \notin {"jump", "return", "interrupt"} =>
              NextOf(p) \in Reachable \cup {code.size}
         /\ code.at[p].kind \in {"conditional_jump", "loop"} =>
              TargetOf(p) \in starts /\ NextOf(p) \in starts \cup {code.size}
<1>1. p \in Offsets /\ ~Faulty(p) /\ code.at[p] # Undecodable
  BY DEF Graph, VerdictExact, Faulty, Reachable
<1>2. IsProgram(code) /\ code.size \in Nat
  BY DEF Graph, TypeOK, IsProgram
<1>3. NextOf(p) \in p + 1 .. code.size /\ TargetOf(p) \in Int /\ code.at[p].kind \in Kinds
  BY <1>1, <1>2, NextStaysInside
<1>4. NextOf(p) # code.size => NextOf(p) \in Offsets
  BY <1>1, <1>2, <1>3 DEF Offsets
<1>5. code.at[p].kind \in {"jump", "conditional_jump", "loop"} => TargetOf(p) \in Offsets
  BY <1>1 DEF Faulty, TargetOf
<1>6. code.at[p].kind = "jump" => TargetOf(p) \in Reachable
  <2>1. code.at[p].kind = "jump" => FlowsTo(p, TargetOf(p))
    BY <1>1 DEF FlowsTo, TargetOf
  <2> QED
    BY <1>5, <2>1, FlowKeepsReachable
<1>7. code.at[p].kind \notin {"jump", "return", "interrupt"} =>
        NextOf(p) \in Reachable \cup {code.size}
  <2>1. code.at[p].kind \notin {"jump", "return", "interrupt"} => FlowsTo(p, NextOf(p))
    BY <1>1 DEF FlowsTo, NextOf
  <2> QED
    BY <1>4, <2>1, FlowKeepsReachable
<1>8. ASSUME code.at[p].kind \in {"conditional_jump", "loop"}
      PROVE  TargetOf(p) \in starts /\ NextOf(p) \in starts \cup {code.size}
  <2>1. PICK b \in graph : p \in b.body
    BY DEF Graph, CoversReachable
  <2>2. ends_block(code.at[p].kind) /\ has_direct_target(code.at[p].kind)
        /\ falls_through(code.at[p].kind)
    BY <1>8 DEF ends_block, has_direct_target, falls_through
  <2>3. Elements(SuccessorsOf(p)) \subseteq starts
    BY <2>1, <2>2 DEF Graph, EndsInv
  <2>4. ~TargetOutside(p)
    BY <1>5, <1>8 DEF TargetOutside
  <2>5. Elements(SuccessorsOf(p)) =
          {TargetOf(p)} \cup (IF NextOf(p) < code.size THEN {NextOf(p)} ELSE {})
    BY <1>1, <1>2, <2>2, <2>4, SuccessorsAreOffsets
  <2>6. NextOf(p) # code.size => NextOf(p) < code.size
    BY <1>2, <1>3
  <2> QED
    BY <2>3, <2>5, <2>6
<1> QED
  BY <1>1, <1>3, <1>6, <1>7, <1>8

----------------------------------------------------------------------------
(* A block holds one straight chain of instructions from its start to its  *)
(* end: each leads to the next, and none begins inside another.            *)
IsChain(offsets, from, to) ==
  /\ \A p \in offsets : from <= p /\ p < to /\ NextOf(p) \in offsets \cup {to}
  /\ \A p, q \in offsets : p < q => NextOf(p) <= q

(* Only the last instruction of a block may end it, and control goes from  *)
(* there exactly to the successors, of which there are at most two.        *)
EndsAt(offsets, to, successors) ==
  \A p \in offsets :
    /\ ends_block(code.at[p].kind) => NextOf(p) = to
    /\ NextOf(p) = to => \A q \in Offsets : FlowsTo(p, q) <=> q \in Elements(successors)

ChainInv ==
  /\ status = "walking" => IsChain(body, start, position)
  /\ \A b \in graph : IsChain(b.body, b.start, b.end)
  /\ \A b \in graph : EndsAt(b.body, b.end, b.successors) /\ Len(b.successors) <= 2

LEMMA ChainFixed ==
  ASSUME code' = code
  PROVE  /\ \A s, x, y : IsChain(s, x, y)' <=> IsChain(s, x, y)
         /\ \A s, x, t : EndsAt(s, x, t)' <=> EndsAt(s, x, t)
<1>1. /\ \A p : NextOf(p)' = NextOf(p)
      /\ \A p, q : FlowsTo(p, q)' <=> FlowsTo(p, q)
      /\ Offsets' = Offsets
      /\ \A t : Elements(t)' = Elements(t)
  BY DEF NextOf, FlowsTo, Offsets, Elements
<1>2. \A s, x, y : IsChain(s, x, y)' <=> IsChain(s, x, y)
  BY <1>1 DEF IsChain
<1>3. \A s, x, t : EndsAt(s, x, t)' <=> EndsAt(s, x, t)
  BY <1>1 DEF EndsAt
<1> QED
  BY <1>2, <1>3

LEMMA PushKeepsChain ==
  ASSUME ChainInv, NEW end, NEW successors, NEW found, NEW offsets,
         PushBlock(end, successors, found, offsets),
         IsChain(offsets, start, end), EndsAt(offsets, end, successors), Len(successors) <= 2
  PROVE  ChainInv'
<1> DEFINE block == [start |-> start, end |-> end, successors |-> successors, body |-> offsets]
<1>1. /\ code' = code /\ body' = {} /\ graph' = graph \cup {block}
  BY DEF PushBlock
<1>2. block.body = offsets /\ block.start = start /\ block.end = end
      /\ block.successors = successors
  OBVIOUS
<1> HIDE DEF block
<1>3. \A s, t : IsChain({}, s, t)
  BY DEF IsChain
<1>4. \A b \in graph' : /\ IsChain(b.body, b.start, b.end)
                        /\ EndsAt(b.body, b.end, b.successors) /\ Len(b.successors) <= 2
  BY <1>1, <1>2 DEF ChainInv
<1>5. (\A b \in graph : IsChain(b.body, b.start, b.end))'
  BY <1>1, <1>4, ChainFixed
<1>6. (\A b \in graph : EndsAt(b.body, b.end, b.successors) /\ Len(b.successors) <= 2)'
  BY <1>1, <1>4, ChainFixed
<1>7. IsChain(body, start, position)'
  BY <1>1 DEF IsChain
<1> QED
  BY <1>5, <1>6, <1>7 DEF ChainInv

(* One more instruction at the end of the chain.                           *)
LEMMA ExtendChain ==
  ASSUME TypeOK, ChainInv, Walking(position)
  PROVE  /\ IsChain(body \cup {position}, start, NextOf(position))
         /\ position \in Nat /\ NextOf(position) > position
         /\ \A p \in body : p < position /\ NextOf(p) <= position /\ p \in Offsets
<1>1. /\ IsProgram(code) /\ position \in Offsets /\ start <= position /\ start \in Offsets
      /\ Offsets \subseteq Nat /\ body \subseteq Offsets
  BY WalkingState DEF Walking, Offsets, TypeOK
<1>2. NextOf(position) \in position + 1 .. code.size /\ code.size \in Nat
  BY <1>1, NextStaysInside DEF Walking, IsProgram
<1>3. position \in Nat /\ start \in Nat /\ NextOf(position) \in Nat /\ NextOf(position) > position
  BY <1>1, <1>2
<1>4. IsChain(body, start, position)
  BY DEF ChainInv, Walking
<1>5. \A p \in body : p \in Nat /\ start <= p /\ p < position /\ NextOf(p) \in body \cup {position}
  BY <1>1, <1>4 DEF IsChain
<1>6. \A p \in body : NextOf(p) <= position
  <2>1. ASSUME NEW p \in body PROVE NextOf(p) <= position
    <3>1. NextOf(p) \in Nat /\ (NextOf(p) = position \/ NextOf(p) < position)
      BY <1>5, <1>3
    <3> QED
      BY <3>1, <1>3
  <2> QED
    BY <2>1
<1>7. \A p, q \in body \cup {position} : p < q => NextOf(p) <= q
  <2>1. ASSUME NEW p \in body \cup {position}, NEW q \in body \cup {position}, p < q
        PROVE  NextOf(p) <= q
    <3>1. CASE p \in body /\ q \in body
      BY <3>1, <2>1, <1>4 DEF IsChain
    <3>2. CASE p \in body /\ q = position
      BY <3>2, <1>6
    <3>3. CASE p = position
      BY <3>3, <2>1, <1>5, <1>3
    <3> QED
      BY <3>1, <3>2, <3>3
  <2> QED
    BY <2>1
<1>8. \A p \in body \cup {position} : /\ start <= p /\ p < NextOf(position)
                                      /\ NextOf(p) \in body \cup {position} \cup {NextOf(position)}
  BY <1>1, <1>3, <1>5
<1>9. IsChain(body \cup {position}, start, NextOf(position))
  BY <1>7, <1>8 DEF IsChain
<1> QED
  BY <1>1, <1>3, <1>5, <1>6, <1>9

LEMMA ChainInvCorrect == Init /\ [][Next]_vars => []ChainInv
<1>1. Init => ChainInv
  BY DEF Init, ChainInv, IsChain
<1>2. TypeOK /\ BuildInv /\ EndsInv /\ ChainInv /\ [Next]_vars => ChainInv'
  <2> SUFFICES ASSUME TypeOK, BuildInv, EndsInv, ChainInv, [Next]_vars PROVE ChainInv'
    OBVIOUS
  <2>1. CASE SplitAtStart
    <3>1. /\ status = "walking" /\ PushBlock(position, <<position>>, {}, body)
      BY <2>1 DEF SplitAtStart
    <3>2. IsProgram(code) /\ body \subseteq Offsets
      BY DEF TypeOK
    <3>3. Elements(<<position>>) = {position} /\ Len(<<position>>) <= 2
      BY DEF Elements
    <3>4. EndsAt(body, position, <<position>>)
      <4>1. ASSUME NEW p \in body
            PROVE  /\ ~ends_block(code.at[p].kind) /\ code.at[p] # Undecodable
                   /\ \A q \in Offsets : FlowsTo(p, q) <=> q = NextOf(p)
        <5>1. ~ends_block(code.at[p].kind)
          BY DEF EndsInv
        <5>2. code.at[p] # Undecodable
          BY <3>1 DEF BuildInv, WalkInv, FlowsWithin, Faulty
        <5> QED
          BY <5>1, <5>2, <3>2, StraightFlow
      <4> QED
        BY <4>1, <3>3 DEF EndsAt
    <3> QED
      BY <3>1, <3>3, <3>4, PushKeepsChain DEF ChainInv
  <2>2. CASE RunOffEnd
    <3>1. /\ Walking(position) /\ ~ends_block(code.at[position].kind) /\ code.at[position] # Undecodable
          /\ NextOf(position) = code.size /\ PushBlock(code.size, <<>>, {}, body \cup {position})
      BY <2>2 DEF RunOffEnd, Walking
    <3>2. Elements(<<>>) = {} /\ Len(<<>>) <= 2
      BY DEF Elements
    <3>3. IsProgram(code) /\ position \in Offsets /\ code.size \notin Offsets
      BY <3>1, WalkingState DEF Walking, Offsets
    <3>4. \A q \in Offsets : ~FlowsTo(position, q)
      BY <3>1, <3>3, StraightFlow
    <3>5. EndsAt(body \cup {position}, code.size, <<>>)
      <4>1. ASSUME NEW p \in body PROVE ~ends_block(code.at[p].kind) /\ NextOf(p) # code.size
        <5>1. p < position /\ NextOf(p) <= position /\ position < code.size /\ position \in Nat
              /\ code.size \in Nat
          BY <3>1, <3>3, ExtendChain DEF Offsets, IsProgram
        <5> QED
          BY <5>1 DEF EndsInv
      <4> QED
        BY <4>1, <3>1, <3>2, <3>4 DEF EndsAt
    <3> QED
      BY <3>1, <3>2, <3>5, ExtendChain, PushKeepsChain
  <2>3. CASE EndBlock
    <3> DEFINE pushed == SuccessorsOf(position)
    <3>1. /\ Walking(position) /\ ends_block(code.at[position].kind) /\ code.at[position] # Undecodable
          /\ has_direct_target(code.at[position].kind) => ~TargetOutside(position)
          /\ PushBlock(NextOf(position), pushed, Elements(pushed), body \cup {position})
      BY <2>3 DEF EndBlock, Walking
    <3>2. IsProgram(code) /\ position \in Offsets
      BY <3>1, WalkingState DEF Walking
    <3>3. \A q \in Offsets : FlowsTo(position, q) <=> q \in Elements(pushed)
      BY <3>1, <3>2, EndFlow
    <3>4. Len(pushed) <= 2
      BY DEF SuccessorsOf
    <3> HIDE DEF pushed
    <3>5. EndsAt(body \cup {position}, NextOf(position), pushed)
      <4>1. ASSUME NEW p \in body
            PROVE  ~ends_block(code.at[p].kind) /\ NextOf(p) # NextOf(position)
        <5>1. NextOf(p) <= position /\ position < NextOf(position) /\ position \in Nat
          BY <3>1, ExtendChain
        <5>2. NextOf(position) \in Nat
          <6>1. NextOf(position) \in position + 1 .. code.size
            BY <3>1, <3>2, NextStaysInside
          <6> QED
            BY <6>1, <5>1
        <5> QED
          BY <5>1, <5>2 DEF EndsInv
      <4> QED
        BY <4>1, <3>1, <3>3 DEF EndsAt
    <3> QED
      BY <3>1, <3>4, <3>5, ExtendChain, PushKeepsChain
  <2>4. CASE WalkOn
    <3>1. /\ Walking(position) /\ position' = NextOf(position) /\ body' = body \cup {position}
          /\ UNCHANGED <<code, graph, start, status>>
      BY <2>4 DEF WalkOn, Walking
    <3>2. IsChain(body', start', position')
      BY <3>1, ExtendChain
    <3>3. IsChain(body, start, position)'
      BY <3>1, <3>2, ChainFixed
    <3>4. (\A b \in graph : IsChain(b.body, b.start, b.end))'
      BY <3>1, ChainFixed DEF ChainInv
    <3>5. (\A b \in graph : EndsAt(b.body, b.end, b.successors) /\ Len(b.successors) <= 2)'
      BY <3>1, ChainFixed DEF ChainInv
    <3> QED
      BY <3>3, <3>4, <3>5 DEF ChainInv
  <2>5. CASE Rescan
    <3>1. graph' = {} /\ body' = {}
      BY <2>5 DEF Rescan, BuildInv, GraphInv
    <3> QED
      BY <3>1 DEF ChainInv, IsChain
  <2>6. CASE Fail \/ Finish \/ Returned \/ UNCHANGED vars
    <3>1. UNCHANGED <<code, graph, start, position, body>> /\ (status' = "walking" => status = "walking")
      BY <2>6 DEF Fail, Finish, Returned, vars
    <3>2. status = "walking" => IsChain(body, start, position)' 
      BY <3>1, ChainFixed DEF ChainInv
    <3>4. (\A b \in graph : IsChain(b.body, b.start, b.end))'
      BY <3>1, ChainFixed DEF ChainInv
    <3>5. (\A b \in graph : EndsAt(b.body, b.end, b.successors) /\ Len(b.successors) <= 2)'
      BY <3>1, ChainFixed DEF ChainInv
    <3> QED
      BY <3>1, <3>2, <3>4, <3>5 DEF ChainInv
  <2> QED
    BY <2>1, <2>2, <2>3, <2>4, <2>5, <2>6 DEF Next
<1> QED
  BY <1>1, <1>2, TypeInvariant, BuildInvCorrect, EndsInvCorrect, PTL

(* A set of naturals below a bound has a largest member.                   *)
LEMMA LargestNat ==
  ASSUME NEW S \in SUBSET Nat, S # {}, NEW bound \in Nat, \A n \in S : n <= bound
  PROVE  \E n \in S : \A m \in S : m <= n
<1> DEFINE rest == { bound - n : n \in S }
<1>1. rest \in SUBSET Nat /\ rest # {}
  <2>1. ASSUME NEW n \in S PROVE bound - n \in Nat
    OBVIOUS
  <2> QED
    BY <2>1
<1> HIDE DEF rest
<1>2. PICK r \in rest : \A m \in rest : r <= m
  BY <1>1, SmallestIsMinimum
<1>3. PICK n \in S : r = bound - n
  BY <1>2 DEF rest
<1>4. ASSUME NEW m \in S PROVE m <= n
  <2>1. bound - m \in rest /\ m \in Nat /\ n \in Nat
    BY DEF rest
  <2> QED
    BY <1>2, <1>3, <2>1
<1> QED
  BY <1>4

----------------------------------------------------------------------------
(* Both recovery passes decode a block again: what they meet is a function *)
(* of the offset that satisfies the equation of their loop.                *)
Redecodes(w, end) ==
  w = [p \in 0 .. code.size |->
         IF p >= end THEN {} ELSE {p} \cup (IF code.at[p] = Undecodable THEN {} ELSE w[NextOf(p)])]

LEMMA RedecodedIs ==
  ASSUME NEW b
  PROVE  Redecoded(b) = (CHOOSE w : Redecodes(w, b.end))[b.start]
BY DEF Redecoded, Redecodes

(* There is such a function: the offsets in every set that holds p and is  *)
(* closed under decoding on.                                               *)
DecodesOn(set, end) ==
  \A x \in set : x < end /\ code.at[x] # Undecodable => NextOf(x) \in set

LEMMA RedecodesExists ==
  ASSUME IsProgram(code), NEW end \in 1 .. code.size
  PROVE  \E w : Redecodes(w, end)
<1> DEFINE All == 0 .. code.size
           Met(p) == { q \in Offsets : q < end /\ \A set \in SUBSET All :
                         p \in set /\ DecodesOn(set, end) => q \in set }
           w == [p \in All |-> Met(p)]
<1>0. code.size \in Nat /\ All \subseteq Nat
  BY DEF IsProgram
<1>1. ASSUME NEW p \in All, p >= end PROVE Met(p) = {}
  <2>1. {p} \in SUBSET All /\ DecodesOn({p}, end)
    BY <1>0, <1>1 DEF DecodesOn
  <2>2. ASSUME NEW q \in Met(p) PROVE FALSE
    <3>1. q \in {p} /\ q < end
      BY <2>1
    <3> QED
      BY <3>1, <1>0, <1>1
  <2> QED
    BY <2>2
<1>2. ASSUME NEW p \in All, ~(p >= end)
      PROVE  Met(p) = {p} \cup (IF code.at[p] = Undecodable THEN {} ELSE Met(NextOf(p)))
  <2>0. p \in Offsets /\ p < end
    BY <1>0, <1>2 DEF Offsets
  <2>1. p \in Met(p)
    BY <2>0
  <2>2. CASE code.at[p] = Undecodable
    <3>1. {p} \in SUBSET All /\ DecodesOn({p}, end)
      BY <1>0, <2>2 DEF DecodesOn
    <3>2. \A q \in Met(p) : q \in {p}
      BY <3>1
    <3> QED
      BY <2>1, <2>2, <3>2
  <2>3. CASE code.at[p] # Undecodable
    <3>0. NextOf(p) \in All
      BY <1>0, <2>0, <2>3, NextStaysInside
    <3>1. ASSUME NEW q \in Met(NextOf(p)) PROVE q \in Met(p)
      <4>1. ASSUME NEW set \in SUBSET All, p \in set, DecodesOn(set, end) PROVE q \in set
        <5>1. NextOf(p) \in set
          BY <2>0, <2>3, <4>1 DEF DecodesOn
        <5> QED
          BY <4>1, <5>1
      <4> QED
        BY <4>1
    <3>2. ASSUME NEW q \in Met(p), q # p PROVE q \in Met(NextOf(p))
      <4>1. ASSUME NEW set \in SUBSET All, NextOf(p) \in set, DecodesOn(set, end) PROVE q \in set
        <5>1. set \cup {p} \in SUBSET All /\ DecodesOn(set \cup {p}, end)
          BY <4>1 DEF DecodesOn
        <5>2. q \in set \cup {p}
          BY <5>1
        <5> QED
          BY <5>2, <3>2
      <4> QED
        BY <4>1
    <3> QED
      BY <2>1, <2>3, <3>1, <3>2
  <2> QED
    BY <2>2, <2>3
<1> HIDE DEF Met
<1>3. ASSUME NEW p \in All
      PROVE  Met(p) = IF p >= end THEN {}
                      ELSE {p} \cup (IF code.at[p] = Undecodable THEN {} ELSE w[NextOf(p)])
  <2>1. CASE p >= end
    BY <1>1, <2>1
  <2>2. CASE ~(p >= end)
    <3>1. code.at[p] # Undecodable => w[NextOf(p)] = Met(NextOf(p))
      <4>1. p \in Offsets
        BY <1>0, <2>2 DEF Offsets
      <4>2. code.at[p] # Undecodable => NextOf(p) \in All
        BY <1>0, <4>1, NextStaysInside
      <4> QED
        BY <4>2
    <3> QED
      BY <1>2, <2>2, <3>1
  <2> QED
    BY <2>1, <2>2
<1>4. w = [p \in All |-> IF p >= end THEN {}
                         ELSE {p} \cup (IF code.at[p] = Undecodable THEN {} ELSE w[NextOf(p)])]
  BY <1>3
<1> QED
  BY <1>4 DEF Redecodes

(* What a pass decodes again is what the builder decoded.                  *)
LEMMA RedecodesChain ==
  ASSUME IsProgram(code), NEW offsets \in SUBSET Offsets, NEW from \in offsets,
         NEW end \in 1 .. code.size, IsChain(offsets, from, end),
         \A p \in offsets : code.at[p] # Undecodable,
         NEW w, Redecodes(w, end)
  PROVE  w[from] = offsets
<1> DEFINE Good(p) == w[p] = { q \in offsets : p <= q }
           Bad == { p \in offsets : ~Good(p) }
<1>0. code.size \in Nat /\ offsets \subseteq Nat /\ \A p \in offsets : p <= code.size
  BY DEF IsProgram, Offsets
<1>1. ASSUME NEW p \in 0 .. code.size
      PROVE  w[p] = IF p >= end THEN {}
                    ELSE {p} \cup (IF code.at[p] = Undecodable THEN {} ELSE w[NextOf(p)])
  BY DEF Redecodes
<1>2. Good(end)
  <2>0. end \in 0 .. code.size /\ end \in Nat /\ end >= end
    BY <1>0
  <2>1. w[end] = {}
    BY <2>0, <1>1
  <2>2. ASSUME NEW q \in offsets PROVE ~(end <= q)
    <3>1. q < end /\ q \in Nat
      BY <1>0 DEF IsChain
    <3> QED
      BY <2>0, <3>1
  <2> QED
    BY <2>1, <2>2
<1>3. Bad = {}
  <2> SUFFICES ASSUME Bad # {} PROVE FALSE
    OBVIOUS
  <2>1. PICK p \in Bad : \A q \in Bad : q <= p
    <3>1. Bad \in SUBSET Nat
      BY <1>0
    <3> QED
      BY <1>0, <3>1, LargestNat
  <2>2. /\ p \in offsets /\ p \in Offsets /\ p < end /\ NextOf(p) \in offsets \cup {end}
        /\ NextOf(p) \in Nat /\ p \in Nat /\ p < NextOf(p)
    <3>1. p \in offsets /\ p \in Offsets /\ p < end /\ NextOf(p) \in offsets \cup {end}
      BY DEF IsChain
    <3>2. NextOf(p) \in p + 1 .. code.size
      BY <3>1, NextStaysInside
    <3> QED
      BY <1>0, <3>1, <3>2
  <2>3. Good(NextOf(p))
    <3>1. CASE NextOf(p) = end
      BY <3>1, <1>2
    <3>2. CASE NextOf(p) \in offsets
      <4>1. NextOf(p) \notin Bad
        BY <2>1, <2>2
      <4> QED
        BY <3>2, <4>1
    <3> QED
      BY <2>2, <3>1, <3>2
  <2>4. w[p] = {p} \cup w[NextOf(p)]
    <3>1. p \in 0 .. code.size /\ ~(p >= end)
      BY <1>0, <2>2
    <3> QED
      BY <3>1, <2>2, <1>1
  <2>5. ASSUME NEW q \in offsets PROVE p <= q <=> q = p \/ NextOf(p) <= q
    <3>1. p < q => NextOf(p) <= q
      BY <2>2 DEF IsChain
    <3>2. q \in Nat
      BY <1>0
    <3> QED
      BY <2>2, <3>1, <3>2
  <2>6. Good(p)
    BY <2>2, <2>3, <2>4, <2>5
  <2> QED
    BY <2>6
<1>4. w[from] = { q \in offsets : from <= q }
  BY <1>3
<1>5. \A q \in offsets : from <= q
  BY DEF IsChain
<1> QED
  BY <1>4, <1>5

----------------------------------------------------------------------------
(* The blocks of a finished graph as its consumers see them.               *)
Consumable == Graph /\ ChainInv

LEMMA BlockOf ==
  ASSUME Consumable, status = "done", NEW b \in graph
  PROVE  /\ b.start \in b.body /\ b.body \subseteq Reachable /\ b.body \subseteq Offsets
         /\ b.start \in Nat /\ b.end \in 1 .. code.size /\ b.successors \in Seq(Offsets)
         /\ b.start \in starts /\ b.body \cap starts = {b.start}
         /\ Elements(b.successors) \subseteq starts
         /\ IsChain(b.body, b.start, b.end) /\ EndsAt(b.body, b.end, b.successors)
         /\ Len(b.successors) <= 2
         /\ \A p \in b.body : /\ code.at[p] # Undecodable /\ ~Faulty(p)
                              /\ p \in Nat /\ NextOf(p) \in Nat /\ p < NextOf(p)
                              /\ b.start <= p /\ p < b.end
<1>1. /\ b.start \in Offsets /\ b.end \in 1 .. code.size /\ b.successors \in Seq(Offsets)
      /\ b.body \subseteq Offsets /\ IsProgram(code) /\ entry < code.size
  BY DEF Consumable, Graph, TypeOK, IsProgram
<1>2. /\ b.start \in b.body /\ ~changed /\ b.body \cap starts = {b.start}
      /\ Elements(b.successors) \subseteq starts /\ b.body \subseteq Reachable
  BY <1>1 DEF Consumable, Graph, BuildInv, GraphInv, ReachInv
<1>3. /\ IsChain(b.body, b.start, b.end) /\ EndsAt(b.body, b.end, b.successors)
      /\ Len(b.successors) <= 2
  BY DEF Consumable, ChainInv
<1>4. ASSUME NEW p \in b.body
      PROVE  /\ code.at[p] # Undecodable /\ ~Faulty(p)
             /\ p \in Nat /\ NextOf(p) \in Nat /\ p < NextOf(p) /\ b.start <= p /\ p < b.end
  <2>1. p \in Offsets /\ p \in Reachable /\ code.size \in Nat
    BY <1>1, <1>2 DEF IsProgram
  <2>2. code.at[p] # Undecodable /\ ~Faulty(p)
    BY <2>1 DEF Consumable, Graph, VerdictExact, Faulty
  <2>3. NextOf(p) \in p + 1 .. code.size
    BY <1>1, <2>1, <2>2, NextStaysInside
  <2>4. b.start <= p /\ p < b.end
    BY <1>3 DEF IsChain
  <2> QED
    BY <2>1, <2>2, <2>3, <2>4 DEF Offsets
<1> QED
  BY <1>1, <1>2, <1>3, <1>4 DEF Offsets, IsProgram

(* Decoding a block again gives the offsets the builder decoded, and its   *)
(* last instruction is the one that ends where the block ends.             *)
LEMMA LastIs ==
  ASSUME Consumable, status = "done", NEW b \in graph
  PROVE  /\ Redecoded(b) = b.body /\ LastOf(b) \in b.body /\ NextOf(LastOf(b)) = b.end
         /\ \A p \in b.body : NextOf(p) = b.end => p = LastOf(b)
         /\ \A p \in b.body : p <= LastOf(b)
<1>0. IsProgram(code) /\ code.size \in Nat
  BY DEF Consumable, Graph, TypeOK, IsProgram
<1>1. Redecoded(b) = b.body
  <2> DEFINE w == CHOOSE w : Redecodes(w, b.end)
  <2>1. Redecodes(w, b.end)
    BY <1>0, BlockOf, RedecodesExists
  <2> HIDE DEF w
  <2>2. w[b.start] = b.body
    <3>1. /\ b.body \in SUBSET Offsets /\ b.start \in b.body /\ b.end \in 1 .. code.size
          /\ IsChain(b.body, b.start, b.end) /\ \A p \in b.body : code.at[p] # Undecodable
      BY BlockOf
    <3> QED
      BY <2>1, <3>1, <1>0, RedecodesChain
  <2> QED
    BY <2>2, RedecodedIs DEF w
<1>2. \E p \in b.body : \A q \in b.body : q <= p
  <2>1. b.body \in SUBSET Nat /\ b.body # {} /\ b.end \in Nat /\ \A n \in b.body : n <= b.end
    BY <1>0, BlockOf
  <2> QED
    BY <2>1, LargestNat
<1>3. LastOf(b) \in b.body /\ \A q \in b.body : q <= LastOf(b)
  BY <1>1, <1>2 DEF LastOf
<1>4. NextOf(LastOf(b)) = b.end
  <2>1. NextOf(LastOf(b)) \in b.body \cup {b.end}
    BY <1>3, BlockOf DEF IsChain
  <2>2. NextOf(LastOf(b)) \notin b.body
    BY <1>3, BlockOf
  <2> QED
    BY <2>1, <2>2
<1>5. ASSUME NEW p \in b.body, NextOf(p) = b.end PROVE p = LastOf(b)
  <2>1. p <= LastOf(b) /\ p \in Nat /\ LastOf(b) \in Nat /\ LastOf(b) < b.end /\ b.end \in Nat
    BY <1>0, <1>3, BlockOf
  <2>2. p < LastOf(b) => NextOf(p) <= LastOf(b)
    BY <1>3, BlockOf DEF IsChain
  <2> QED
    BY <1>5, <2>1, <2>2
<1> QED
  BY <1>1, <1>3, <1>4, <1>5

(* Where control goes from the last instruction are the successors.        *)
LEMMA SuccessorsAreFlow ==
  ASSUME Consumable, status = "done", NEW b \in graph
  PROVE  Elements(b.successors) = { q \in Offsets : FlowsTo(LastOf(b), q) }
<1>1. Elements(b.successors) \subseteq Offsets
  BY BlockOf DEF Elements
<1>2. \A q \in Offsets : FlowsTo(LastOf(b), q) <=> q \in Elements(b.successors)
  BY LastIs, BlockOf DEF EndsAt
<1> QED
  BY <1>1, <1>2

LEMMA NoLowerError ==
  ASSUME Consumable, status = "done"
  PROVE  ~LowerError
<1>1. ~DuplicateStart
  BY DEF Consumable, Graph, FixedPoint, DuplicateStart
<1>2. { c.start : c \in graph } = starts
  BY DEF Consumable, Graph, FixedPoint
<1>3. ASSUME NEW b \in graph PROVE ~Dangling(b) /\ ~(Len(b.successors) > 2)
  <2>1. Elements(b.successors) \subseteq starts
    BY BlockOf
  <2>2. ~Dangling(b)
    BY <1>2, <2>1 DEF Dangling, Elements
  <2>3. Len(b.successors) \in Nat /\ Len(b.successors) <= 2
    BY BlockOf
  <2> QED
    BY <2>2, <2>3
<1> QED
  BY <1>1, <1>3 DEF LowerError

LEMMA NoRecoveryError ==
  ASSUME Consumable, status = "done"
  PROVE  ~RecoveryError
<1> SUFFICES ASSUME NEW b \in graph
             PROVE  /\ \A p \in Redecoded(b) : code.at[p] # Undecodable /\ ~(NextOf(p) > b.end)
                    /\ NextOf(LastOf(b)) = b.end
                    /\ code.at[LastOf(b)].kind = "call" => ~TargetOutside(LastOf(b))
  BY DEF RecoveryError
<1>1. ASSUME NEW p \in b.body PROVE code.at[p] # Undecodable /\ ~(NextOf(p) > b.end)
  <2>1. code.size \in Nat
    BY DEF Consumable, Graph, TypeOK, IsProgram
  <2>2. p \in Nat /\ NextOf(p) \in Nat /\ b.end \in Nat /\ LastOf(b) \in Nat
        /\ NextOf(p) \in b.body \cup {b.end}
    BY <2>1, BlockOf, LastIs DEF IsChain
  <2>3. NextOf(p) \in b.body => NextOf(p) < b.end
    BY BlockOf
  <2> QED
    BY <2>2, <2>3, BlockOf
<1>2. code.at[LastOf(b)].kind = "call" => ~TargetOutside(LastOf(b))
  <2>1. ~Faulty(LastOf(b))
    BY LastIs, BlockOf
  <2> QED
    BY <2>1 DEF Faulty, TargetOutside, TargetOf
<1> QED
  BY <1>1, <1>2, LastIs

(* Blocks overlap only where instructions do.                              *)
LEMMA AlignedDisjoint ==
  ASSUME Consumable, status = "done", Aligned
  PROVE  Disjoint
<1>0. code.size \in Nat
  BY DEF Consumable, Graph, TypeOK, IsProgram
<1>1. ASSUME NEW b \in graph, NEW c \in graph, b.start < c.start PROVE b.end <= c.start
  <2> DEFINE before == { p \in b.body : p <= c.start }
  <2> SUFFICES ASSUME c.start < b.end PROVE FALSE
    BY <1>0, BlockOf
  <2>1. b.start \in Nat /\ c.start \in Nat /\ b.end \in Nat /\ b.start \in before
    BY <1>0, <1>1, BlockOf
  <2>2. PICK p \in before : \A q \in before : q <= p
    <3>1. before \in SUBSET Nat /\ before # {} /\ \A q \in before : q <= c.start
      BY <2>1, BlockOf
    <3> HIDE DEF before
    <3> QED
      BY <2>1, <3>1, LargestNat
  <2>3. /\ p \in b.body /\ p \in Nat /\ NextOf(p) \in Nat /\ p < NextOf(p)
        /\ p <= c.start /\ NextOf(p) \in b.body \cup {b.end}
        /\ code.at[p] # Undecodable /\ p \in Reachable
    BY BlockOf DEF IsChain
  <2>4. c.start \notin b.body /\ c.start \in Reachable
    BY <1>1, <2>1, BlockOf
  <2>5. p < c.start
    BY <2>1, <2>3, <2>4
  <2>6. NextOf(p) > c.start
    <3>1. CASE NextOf(p) = b.end
      BY <3>1
    <3>2. CASE NextOf(p) \in b.body
      <4>1. NextOf(p) <= c.start => NextOf(p) <= p
        BY <2>2, <3>2
      <4> QED
        BY <2>1, <2>3, <4>1
    <3> QED
      BY <2>3, <3>1, <3>2
  <2>7. c.start < p + code.at[p].size
    BY <2>1, <2>3, <2>6 DEF NextOf
  <2> QED
    BY <2>3, <2>4, <2>5, <2>7 DEF Aligned
<1>2. ASSUME NEW b \in graph, NEW c \in graph, b # c
      PROVE  b.end <= c.start \/ c.end <= b.start
  <2>1. b.start # c.start
    BY <1>2 DEF Consumable, Graph, FixedPoint
  <2>2. b.start \in Nat /\ c.start \in Nat
    BY BlockOf
  <2>3. b.start < c.start \/ c.start < b.start
    BY <2>1, <2>2
  <2> QED
    BY <1>1, <2>3
<1> QED
  BY <1>2 DEF Disjoint

----------------------------------------------------------------------------
(* Numbering by rank: in a finite set whose members have different keys    *)
(* the numbers are 0 .. n - 1, and different members have different ones.  *)
Before(set, key) == { b \in set : b.start < key }

LEMMA RankNumbers ==
  ASSUME NEW set, IsFiniteSet(set), \A b \in set : b.start \in Nat,
         \A b, c \in set : b.start = c.start => b = c
  PROVE  /\ { Cardinality(Before(set, b.start)) : b \in set } = 0 .. Cardinality(set) - 1
         /\ \A b, c \in set : Cardinality(Before(set, b.start)) = Cardinality(Before(set, c.start))
                                 => b = c
<1> DEFINE Rank(b) == Cardinality(Before(set, b.start))
           n == Cardinality(set)
           rank == [b \in set |-> Rank(b)]
<1>1. n \in Nat
  BY FS_CardinalityType
<1>2. ASSUME NEW b \in set PROVE Rank(b) \in 0 .. n - 1
  <2>1. Before(set, b.start) \in SUBSET set /\ b \notin Before(set, b.start)
    BY DEF Before
  <2>2. /\ IsFiniteSet(Before(set, b.start)) /\ Rank(b) <= n
        /\ n = Rank(b) => set = Before(set, b.start)
    BY <2>1, FS_Subset
  <2>3. Rank(b) \in Nat /\ Rank(b) # n
    BY <2>1, <2>2, FS_CardinalityType
  <2> QED
    BY <2>2, <2>3, <1>1
<1>3. ASSUME NEW b \in set, NEW c \in set, b.start < c.start PROVE Rank(b) < Rank(c)
  <2>1. /\ Before(set, c.start) \in SUBSET set /\ Before(set, b.start) \in SUBSET Before(set, c.start)
        /\ b \in Before(set, c.start) /\ b \notin Before(set, b.start)
    BY <1>3 DEF Before
  <2>2. IsFiniteSet(Before(set, c.start))
    BY <2>1, FS_Subset
  <2>3. Rank(b) <= Rank(c) /\ (Rank(c) = Rank(b) => Before(set, c.start) = Before(set, b.start))
    BY <2>1, <2>2, FS_Subset
  <2>4. Rank(b) # Rank(c)
    BY <2>1, <2>3
  <2> QED
    BY <2>3, <2>4, <1>1, <1>2
<1>4. ASSUME NEW b \in set, NEW c \in set, Rank(b) = Rank(c) PROVE b = c
  <2>1. ~(b.start < c.start) /\ ~(c.start < b.start)
    BY <1>1, <1>2, <1>3, <1>4
  <2>2. b.start = c.start
    BY <2>1
  <2> QED
    BY <2>2
<1>5. { Rank(b) : b \in set } = 0 .. n - 1
  <2> HIDE DEF Rank, n
  <2>1. rank \in Injection(set, 0 .. n - 1)
    <3>1. rank \in [set -> 0 .. n - 1]
      BY <1>2
    <3>2. \A b, c \in set : rank[b] = rank[c] => b = c
      BY <1>4
    <3> QED
      BY <3>1, <3>2 DEF Injection, IsInjective
  <2>2. IsFiniteSet(0 .. n - 1) /\ Cardinality(0 .. n - 1) = n
    <3>1. 0 \in Int /\ n - 1 \in Int
      BY <1>1
    <3>2. IsFiniteSet(0 .. n - 1) /\ Cardinality(0 .. n - 1) = IF 0 > n - 1 THEN 0 ELSE n - 1 - 0 + 1
      BY <3>1, FS_Interval
    <3> QED
      BY <3>2, <1>1
  <2>3. Cardinality(set) = n
    BY DEF n
  <2> HIDE DEF rank
  <2>4. rank \in Surjection(set, 0 .. n - 1)
    BY <2>1, <2>2, <2>3, FS_Injection
  <2>5. \A i \in 0 .. n - 1 : \E b \in set : Rank(b) = i
    BY <2>4 DEF Surjection, rank
  <2> QED
    BY <2>5, <1>2
<1> HIDE DEF n
<1>6. { Cardinality(Before(set, b.start)) : b \in set } = 0 .. Cardinality(set) - 1
  BY <1>5 DEF n
<1> QED
  BY <1>4, <1>6

(* There are as many blocks as starts.                                    *)
LEMMA GraphFinite ==
  ASSUME Consumable, status = "done"
  PROVE  IsFiniteSet(graph)
<1> DEFINE startOf == [b \in graph |-> b.start]
<1>1. startOf \in Injection(graph, starts)
  <2>1. \A b \in graph : b.start \in starts
    BY BlockOf
  <2>2. \A b, c \in graph : b.start = c.start => b = c
    BY DEF Consumable, Graph, FixedPoint
  <2> QED
    BY <2>1, <2>2 DEF Injection, IsInjective
<1>2. IsFiniteSet(starts)
  <2>1. code.size \in Nat /\ starts \in SUBSET Offsets
    BY DEF Consumable, Graph, TypeOK, IsProgram
  <2>2. IsFiniteSet(Offsets)
    <3>1. 0 \in Int /\ code.size - 1 \in Int
      BY <2>1
    <3> QED
      BY <3>1, FS_Interval DEF Offsets
  <2> QED
    BY <2>1, <2>2, FS_Subset
<1> HIDE DEF startOf
<1> QED
  BY <1>1, <1>2, FS_Injection

(* Block ids are ranks.                                                    *)
LEMMA BlockIds ==
  ASSUME Consumable, status = "done"
  PROVE  /\ { BlockId(b.start) : b \in graph } = 0 .. Cardinality(graph) - 1
         /\ \A b, c \in graph : BlockId(b.start) = BlockId(c.start) => b = c
<1>1. /\ \A b \in graph : b.start \in Nat
      /\ \A b, c \in graph : b.start = c.start => b = c
  BY BlockOf DEF Consumable, Graph, FixedPoint
<1>2. \A s : BlockId(s) = Cardinality(Before(graph, s))
  BY DEF BlockId, Before
<1>3. /\ { Cardinality(Before(graph, b.start)) : b \in graph } = 0 .. Cardinality(graph) - 1
      /\ \A b, c \in graph : Cardinality(Before(graph, b.start)) = Cardinality(Before(graph, c.start))
                                => b = c
  BY <1>1, GraphFinite, RankNumbers
<1> QED
  BY <1>2, <1>3

LoweredBlock(b) ==
  [id |-> BlockId(b.start), source_start |-> b.start, terminator |-> TerminatorOf(b),
   successors |-> [i \in DOMAIN b.successors |-> BlockId(b.successors[i])]]

LEMMA LoweredIs == Lowered = { LoweredBlock(b) : b \in graph }
BY DEF Lowered, LoweredBlock

LEMMA LoweredFields ==
  ASSUME NEW b
  PROVE  /\ LoweredBlock(b).id = BlockId(b.start)
         /\ LoweredBlock(b).source_start = b.start
         /\ Elements(LoweredBlock(b).successors) = { BlockId(q) : q \in Elements(b.successors) }
<1>1. LoweredBlock(b).successors = [i \in DOMAIN b.successors |-> BlockId(b.successors[i])]
  BY DEF LoweredBlock
<1> QED
  BY <1>1 DEF LoweredBlock, Elements

LEMMA NumberingKeepsFlow ==
  ASSUME Consumable, status = "done"
  PROVE  LoweringKeepsFlow
<1>1. { l.id : l \in Lowered } = 0 .. Cardinality(graph) - 1
  <2>1. { l.id : l \in Lowered } = { BlockId(b.start) : b \in graph }
    BY LoweredIs, LoweredFields
  <2> QED
    BY <2>1, BlockIds
<1>2. ASSUME NEW b \in graph, NEW l \in Lowered, l.source_start = b.start
      PROVE  { m.source_start : m \in { n \in Lowered : n.id \in Elements(l.successors) } }
               = { q \in Offsets : FlowsTo(LastOf(b), q) }
  <2>1. PICK d \in graph : l = LoweredBlock(d)
    BY LoweredIs
  <2>2. d = b
    BY <1>2, <2>1, LoweredFields DEF Consumable, Graph, FixedPoint
  <2>3. Elements(l.successors) = { BlockId(q) : q \in Elements(b.successors) }
    BY <2>1, <2>2, LoweredFields
  <2>4. ASSUME NEW c \in graph
        PROVE  BlockId(c.start) \in Elements(l.successors) <=> c.start \in Elements(b.successors)
    <3>1. ASSUME NEW q \in Elements(b.successors), BlockId(c.start) = BlockId(q)
          PROVE  c.start = q
      <4>1. PICK e \in graph : e.start = q
        <5>1. q \in starts
          BY BlockOf
        <5>2. { e.start : e \in graph } = starts
          BY DEF Consumable, Graph, FixedPoint
        <5> QED
          BY <5>1, <5>2
      <4> QED
        BY <3>1, <4>1, BlockIds
    <3> QED
      BY <2>3, <3>1
  <2>5. { m.source_start : m \in { n \in Lowered : n.id \in Elements(l.successors) } }
          = { c.start : c \in { c \in graph : c.start \in Elements(b.successors) } }
    BY <2>4, LoweredIs, LoweredFields
  <2>6. { c.start : c \in { c \in graph : c.start \in Elements(b.successors) } }
          = Elements(b.successors)
    <3>1. \A q \in Elements(b.successors) : \E c \in graph : c.start = q
      BY BlockOf DEF Consumable, Graph, FixedPoint
    <3> QED
      BY <3>1
  <2> QED
    BY <2>5, <2>6, SuccessorsAreFlow
<1> QED
  BY <1>1, <1>2 DEF LoweringKeepsFlow

----------------------------------------------------------------------------
(* A reachable call is the last instruction of its block.                  *)
LEMMA CallSitesAre ==
  ASSUME Consumable, status = "done"
  PROVE  CallSites = { p \in Reachable : code.at[p].kind = "call" }
<1>1. ASSUME NEW b \in graph PROVE LastOf(b) \in Reachable
  BY LastIs, BlockOf
<1>2. ASSUME NEW p \in Reachable, code.at[p].kind = "call"
      PROVE  \E b \in graph : p = LastOf(b)
  <2>1. PICK b \in graph : p \in b.body
    BY DEF Consumable, Graph, CoversReachable
  <2>2. NextOf(p) = b.end
    BY <1>2, <2>1, BlockOf DEF EndsAt, ends_block
  <2> QED
    BY <2>1, <2>2, LastIs
<1> QED
  BY <1>1, <1>2 DEF CallSites

LEMMA FunctionsAreExact ==
  ASSUME Consumable, status = "done"
  PROVE  FunctionsExact
<1> DEFINE calls == { p \in Reachable : code.at[p].kind = "call" }
<1>1. ASSUME NEW p \in calls PROVE FlowsTo(p, TargetOf(p))
  <2>1. code.at[p] # Undecodable
    BY DEF Consumable, Graph, VerdictExact, Faulty
  <2> QED
    BY <2>1 DEF FlowsTo, TargetOf
<1>2. CallSites = calls
  BY CallSitesAre
<1> HIDE DEF calls
<1>3. \A f : { p \in CallSites : TargetOf(p) = f } = { p \in calls : FlowsTo(p, f) /\ TargetOf(p) = f }
  BY <1>1, <1>2
<1>4. RecoveredFunctions =
        { [entry |-> f, call_sites |-> { p \in calls : FlowsTo(p, f) /\ TargetOf(p) = f }] :
            f \in {entry} \cup { TargetOf(p) : p \in calls } }
  BY <1>2, <1>3 DEF RecoveredFunctions
<1> QED
  BY <1>4 DEF FunctionsExact, calls

(* In every cycle the block with the largest start is left backwards.      *)
LEMMA CyclesAreLatched ==
  ASSUME Consumable, status = "done"
  PROVE  CyclesHaveLatch
<1> DEFINE Edge(b, c) ==
             /\ c.start \in Elements(b.successors)
             /\ <<c.start, b.start>> \notin RecoveredLoops
             /\ ~(code.at[LastOf(b)].kind = "call" /\ TargetOf(LastOf(b)) = c.start)
<1>0. code.size \in Nat
  BY DEF Consumable, Graph, TypeOK, IsProgram
<1>1. ASSUME NEW b \in graph, NEW c \in graph, c.start <= b.start PROVE ~Edge(b, c)
  <2> SUFFICES ASSUME Edge(b, c) PROVE FALSE
    OBVIOUS
  <2>1. /\ b.start \in Nat /\ c.start \in Offsets /\ b.start < b.end /\ b.end \in Nat
        /\ c.start \in Nat
    BY <1>0, BlockOf
  <2>2. FlowsTo(LastOf(b), c.start)
    BY <2>1, SuccessorsAreFlow
  <2>3. CASE code.at[LastOf(b)].kind \in {"jump", "conditional_jump", "loop"}
    <3> DEFINE e == <<c.start, b.start>>
    <3>1. e[1] = c.start /\ e[2] = b.start
      OBVIOUS
    <3>2. e \in { <<target, d.start>> : target \in Offsets, d \in graph }
      BY <2>1
    <3>3. e \in RecoveredLoops
      BY <2>3, <3>1, <3>2, <1>1 DEF RecoveredLoops, Backward
    <3> QED
      BY <3>3
  <2>4. CASE code.at[LastOf(b)].kind \notin {"jump", "conditional_jump", "loop"}
    <3>1. c.start = NextOf(LastOf(b)) \/ (code.at[LastOf(b)].kind = "call" /\ c.start = TargetOf(LastOf(b)))
      BY <2>2, <2>4 DEF FlowsTo, NextOf, TargetOf
    <3>2. NextOf(LastOf(b)) = b.end
      BY LastIs
    <3> QED
      BY <1>1, <2>1, <3>1, <3>2
  <2> QED
    BY <2>3, <2>4
<1>2. ASSUME NEW cycle \in SUBSET graph, cycle # {}
      PROVE  \E b \in cycle : \A c \in cycle : ~Edge(b, c)
  <2> DEFINE S == { b.start : b \in cycle }
  <2>1. S \in SUBSET Nat /\ S # {} /\ \A s \in S : s <= code.size
    BY <1>0, <1>2, BlockOf
  <2>2. PICK s \in S : \A t \in S : t <= s
    BY <1>0, <2>1, LargestNat
  <2>3. PICK b \in cycle : b.start = s
    OBVIOUS
  <2>4. \A c \in cycle : c.start <= b.start
    BY <2>2, <2>3
  <2> HIDE DEF Edge
  <2> QED
    BY <2>4, <1>1
<1> QED
  BY <1>2 DEF CyclesHaveLatch

LEMMA ConsumableCorrect == Init /\ [][Next]_vars => []Consumable
<1>1. TypeOK /\ BuildInv => FixedPoint /\ CoversReachable /\ VerdictExact
  BY InvGivesFixedPoint, InvGivesCover, InvGivesVerdict
<1> QED
  BY <1>1, TypeInvariant, BuildInvCorrect, EndsInvCorrect, ChainInvCorrect, PTL
     DEF Consumable, Graph

(* For every program: lowering and the recovery passes accept every graph  *)
(* the builder returns, and its blocks overlap only where instructions do. *)
THEOREM ConsumersAcceptCorrect == Spec => []ConsumersAccept
<1>1. Consumable => ConsumersAccept
  BY NoLowerError, NoRecoveryError, AlignedDisjoint DEF ConsumersAccept
<1> QED
  BY <1>1, ConsumableCorrect, PTL DEF Spec

(* For every program: lowering numbers the blocks 0 .. n - 1, and the      *)
(* successor numbers lead where control goes.                              *)
THEOREM LoweringKeepsFlowCorrect == Spec => []LoweringKeepsFlow
<1>1. Consumable => LoweringKeepsFlow
  BY NumberingKeepsFlow DEF LoweringKeepsFlow
<1> QED
  BY <1>1, ConsumableCorrect, PTL DEF Spec

(* For every program: recovered functions are the entry and the targets of *)
(* the reachable calls with all their sites, and every cycle that is not a *)
(* recursion has a recovered latch.                                        *)
THEOREM RecoveryExactCorrect == Spec => []RecoveryExact
<1>1. Consumable => RecoveryExact
  BY FunctionsAreExact, CyclesAreLatched DEF RecoveryExact
<1> QED
  BY <1>1, ConsumableCorrect, PTL DEF Spec

----------------------------------------------------------------------------
(* The inductive invariant of the walk.                                    *)
WalksTheGraph ==
  /\ outcome \notin {"building", "no graph"} => status = "done"
  /\ outcome # "building" /\ status = "done" /\ ~pastInterrupt => at \in Reachable \cup {code.size}
  /\ outcome = "unresolved" => pastInterrupt \/ NextOf(at) = code.size
  /\ outcome \in {"building", "no graph"} => visited = {} /\ ~pastInterrupt
  /\ visited \subseteq BlockStarts

LEMMA WalkFixed ==
  ASSUME UNCHANGED vars
  PROVE  /\ BlockStarts' = BlockStarts /\ Reachable' = Reachable
         /\ \A p : NextOf(p)' = NextOf(p)
  BY ProgramFixed DEF vars, BlockStarts, NextOf

(* Entering a block, refused when it was visited.                          *)
LEMMA EnterKeepsWalk ==
  ASSUME Graph, WalksTheGraph, status = "done", UNCHANGED vars, NEW s \in BlockStarts,
         NEW from, NEW real, EnterBlock(s, from, real),
         outcome = "translating" \/ (outcome = "building" /\ visited = {})
  PROVE  WalksTheGraph'
<1>1. s \in Reachable /\ status' = "done" /\ code' = code
  BY GraphStarts DEF vars
<1>2. CASE AlreadyVisited(s) /\ Refuse("loop")
  BY <1>1, <1>2, WalkFixed DEF Refuse, AlreadyVisited, WalksTheGraph
<1>3. CASE ~AlreadyVisited(s) /\ outcome' = "translating" /\ visited' = visited \cup {s}
           /\ at' = s /\ UNCHANGED pastInterrupt
  BY <1>1, <1>3, WalkFixed DEF WalksTheGraph
<1> QED
  BY <1>2, <1>3 DEF EnterBlock

(* Any refusal but the one of an unresolved branch.                        *)
LEMMA RefuseKeepsWalk ==
  ASSUME WalksTheGraph, UNCHANGED vars, outcome = "translating",
         NEW why \in {"no exit", "undecodable", "exit", "unsupported", "untranslatable"}, Refuse(why)
  PROVE  WalksTheGraph'
<1>1. status = "done" /\ status' = "done" /\ code' = code
  BY DEF WalksTheGraph, vars
<1> QED
  BY <1>1, WalkFixed DEF Refuse, WalksTheGraph

LEMMA TranslateKeepsWalk ==
  ASSUME Graph, WalksTheGraph, Translate, UNCHANGED vars
  PROVE  WalksTheGraph'
<1>1. /\ status' = status /\ code' = code
      /\ Translating => status = "done" /\ outcome = "translating"
      /\ Translating /\ ~pastInterrupt => at \in Reachable
  <2>1. code.size \notin Offsets
    BY DEF Graph, TypeOK, IsProgram, Offsets
  <2> QED
    BY <2>1 DEF vars, Translating, WalksTheGraph
<1>2. CASE BuildFails
  BY <1>1, <1>2, WalkFixed DEF BuildFails, Refuse, WalksTheGraph
<1>3. CASE Begin
  BY <1>3, GraphStarts, EnterKeepsWalk DEF Begin, WalksTheGraph
<1>4. CASE LeavesCode \/ DecodeFails
  BY <1>4, RefuseKeepsWalk DEF LeavesCode, DecodeFails
<1>5. CASE ExitInterrupt \/ UnsupportedInterrupt \/ Return \/ TranslateFails
  BY <1>1, <1>5, RefuseKeepsWalk DEF ExitInterrupt, UnsupportedInterrupt, Return, TranslateFails
<1>6. CASE ServiceInterrupt
  BY <1>1, <1>6, WalkFixed DEF ServiceInterrupt, Advance, WalksTheGraph
<1>7. CASE JumpIntoBlock
  BY <1>1, <1>7, EnterKeepsWalk DEF JumpIntoBlock, StartsBlock
<1>8. CASE JumpOutsideGraph
  <2>1. ~pastInterrupt => at' \in Reachable
    BY <1>1, <1>8, ReachableInstruction DEF JumpOutsideGraph, Advance, Kind
  <2> QED
    BY <1>1, <1>8, <2>1, WalkFixed DEF JumpOutsideGraph, Advance, WalksTheGraph
<1>9. CASE UnresolvedBranch
  <2>1. ~pastInterrupt => NextOf(at) = code.size
    <3>1. Kind \in {"conditional_jump", "loop"} /\ ~(BothWays \subseteq BlockStarts) /\ Translating
      BY <1>9 DEF UnresolvedBranch
    <3>2. BlockStarts = starts
      BY <1>1, <3>1, GraphStarts
    <3> QED
      BY <1>1, <3>1, <3>2, ReachableInstruction DEF Kind, BothWays
  <2> QED
    BY <1>1, <1>9, <2>1, WalkFixed DEF UnresolvedBranch, Refuse, WalksTheGraph
<1>10. CASE Branch
  <2>1. PICK s \in BothWays : EnterBlock(s, at, s)
    BY <1>10 DEF Branch
  <2> QED
    BY <1>1, <1>10, <2>1, EnterKeepsWalk DEF Branch
<1>11. CASE LoopBranch
  <2>1. PICK real \in BothWays : EnterBlock(NextOf(at), at, real)
    BY <1>11 DEF LoopBranch
  <2>2. NextOf(at) \in BlockStarts
    BY <1>11 DEF LoopBranch, BothWays
  <2> QED
    BY <1>1, <1>11, <2>1, <2>2, EnterKeepsWalk DEF LoopBranch
<1>12. CASE TranslateInstruction
  <2>1. ~pastInterrupt => at' \in Reachable \cup {code.size}
    BY <1>1, <1>12, ReachableInstruction DEF TranslateInstruction, Ordinary, Advance, Kind
  <2> QED
    BY <1>1, <1>12, <2>1, WalkFixed DEF TranslateInstruction, Advance, WalksTheGraph
<1> QED
  BY <1>2, <1>3, <1>4, <1>5, <1>6, <1>7, <1>8, <1>9, <1>10, <1>11, <1>12 DEF Translate

LEMMA WalkStep == Graph /\ WalksTheGraph /\ [StraightLineNext]_allvars => WalksTheGraph'
<1> SUFFICES ASSUME Graph, WalksTheGraph, [StraightLineNext]_allvars PROVE WalksTheGraph'
  OBVIOUS
<1>1. CASE Build
  BY <1>1 DEF Build, walk, WalksTheGraph
<1>2. CASE Translate /\ UNCHANGED vars
  BY <1>2, TranslateKeepsWalk
<1>3. CASE UNCHANGED allvars
  BY <1>3, WalkFixed DEF allvars, vars, walk, WalksTheGraph
<1> QED
  BY <1>1, <1>2, <1>3 DEF StraightLineNext, CompileReturned

(* The compiler builds the graph and leaves it alone.                      *)
LEMMA CompilerBuilds == StraightLineSpec => []Graph
<1>1. StraightLineInit => Init
  BY DEF StraightLineInit
<1>2. [StraightLineNext]_allvars => [Next]_vars
  BY DEF StraightLineNext, Build, CompileReturned, allvars
<1>3. TypeOK /\ BuildInv => FixedPoint /\ CoversReachable /\ VerdictExact
  BY InvGivesFixedPoint, InvGivesCover, InvGivesVerdict
<1> QED
  BY <1>1, <1>2, <1>3, TypeInvariant, BuildInvCorrect, EndsInvCorrect, PTL
     DEF StraightLineSpec, Graph

(* For every program: as long as no interrupt is passed, the walk stays in *)
(* the code the graph holds and never meets a branch it cannot resolve,    *)
(* unless the code ends there.                                             *)
THEOREM TranslatesTheGraphCorrect == StraightLineSpec => []TranslatesTheGraph
<1>1. StraightLineInit => WalksTheGraph
  BY DEF StraightLineInit, WalksTheGraph
<1>2. Graph /\ WalksTheGraph => TranslatesTheGraph
  BY DEF Graph, CoversReachable, WalksTheGraph, TranslatesTheGraph
<1> QED
  BY <1>1, <1>2, WalkStep, CompilerBuilds, PTL DEF StraightLineSpec
=============================================================================
