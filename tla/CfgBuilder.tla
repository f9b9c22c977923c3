----------------------------- MODULE CfgBuilder -----------------------------
(***************************************************************************)
(* cfg_builder::build: recovery of the basic blocks reachable from an      *)
(* entry offset.                                                           *)
(*                                                                         *)
(* The builder keeps an ordered set of block starts.  One pass visits the  *)
(* starts in ascending order, walking each block to its end and inserting  *)
(* the targets it meets into the set it is iterating over, so a pass also  *)
(* visits the larger starts it discovers itself.  Passes repeat, from an   *)
(* empty graph, until one discovers nothing.                               *)
(*                                                                         *)
(* The decoder is a parameter: a program maps every offset of the code     *)
(* image to what decode_at returns there.                                  *)
(*                                                                         *)
(* A definition marked "slip" is used nowhere: it is the wrong version of  *)
(* the definition after it, which some property below must tell apart.     *)
(***************************************************************************)
EXTENDS Integers, Sequences

CONSTANTS
  Programs,      \* the programs analysed
  Undecodable    \* decode_at's error

Kinds == {"nop", "move_immediate", "move", "arithmetic", "compare", "stack",
          "flags", "string", "io", "coprocessor", "interrupt", "call", "jump",
          "conditional_jump", "loop", "return"}

(* A decoded instruction, as far as the builder looks at it, lies inside   *)
(* the image: decode_at checks its length against the bytes that remain.   *)
IsInstruction(i, offset, size) ==
  /\ i.kind \in Kinds
  /\ i.size \in 1 .. size - offset
  /\ i.relative \in Int

IsProgram(p) ==
  /\ p.size \in Nat
  /\ DOMAIN p.at = 0 .. p.size - 1
  /\ \A offset \in 0 .. p.size - 1 :
       p.at[offset] = Undecodable \/ IsInstruction(p.at[offset], offset, p.size)

ASSUME ProgramsAssumption == \A p \in Programs : IsProgram(p)

VARIABLES
  code,          \* the program
  entry,         \* entry_offset
  starts,        \* the ordered set of block starts
  changed,       \* has this pass inserted a start?
  graph,         \* the blocks this pass has completed
  start,         \* the start of the block being walked
  position,      \* the offset the walk has reached
  body,          \* auxiliary: the offsets decoded in this block
  status

vars == <<code, entry, starts, changed, graph, start, position, body, status>>

Offsets == 0 .. code.size - 1

----------------------------------------------------------------------------
ends_block(kind) ==
  kind \in {"call", "jump", "conditional_jump", "loop", "return", "interrupt"}

has_direct_target(kind) == kind \notin {"return", "interrupt"}

JumpFallsThrough(kind) == kind \in {"call", "jump", "conditional_jump", "loop"}  \* slip
CallDoesNotReturn(kind) == kind \in {"conditional_jump", "loop"}  \* slip
falls_through(kind) == kind \in {"call", "conditional_jump", "loop"}

TargetFromStart(offset) == offset + code.at[offset].relative  \* slip
TargetOf(offset) == offset + code.at[offset].size + code.at[offset].relative
NextOf(offset) == offset + code.at[offset].size

TargetOutside(offset) == TargetOf(offset) \notin Offsets

(* The successors pushed for the control-flow instruction that ends a      *)
(* block: its target first, then the instruction after it.                 *)
SuccessorsOf(offset) ==
  LET taken == has_direct_target(code.at[offset].kind)
      falls == falls_through(code.at[offset].kind) /\ NextOf(offset) < code.size
  IN  IF taken
      THEN IF falls THEN <<TargetOf(offset), NextOf(offset)>> ELSE <<TargetOf(offset)>>
      ELSE IF falls THEN <<NextOf(offset)>> ELSE <<>>

Elements(seq) == { seq[i] : i \in DOMAIN seq }

----------------------------------------------------------------------------
Init ==
  /\ code \in Programs
  /\ entry \in 0 .. code.size
  /\ starts = {entry}
  /\ changed = FALSE
  /\ graph = {}
  /\ start = entry
  /\ position = entry
  /\ body = {}
  /\ status = IF entry >= code.size THEN "error" ELSE "walking"

(* The block [start, end) is complete: push it and let the iterator move   *)
(* to the next larger start, one found just now included.                  *)
Smallest(s) == CHOOSE x \in s : \A y \in s : x <= y

VisitNext(found) ==
  LET later == { s \in starts \cup found : s > start }
  IN  IF later = {}
      THEN status' = "pass_complete" /\ UNCHANGED <<start, position>>
      ELSE /\ start' = Smallest(later)
           /\ position' = start'
           /\ UNCHANGED status

ForgetEarlierChange(found) == ~(found \subseteq starts)  \* slip
EveryTargetChanges(found) == changed \/ found # {}  \* slip
InsertChanges(found) == changed \/ ~(found \subseteq starts)

PushBlock(end, successors, found, offsets) ==
  /\ graph' = graph \cup {[start |-> start, end |-> end,
                           successors |-> successors, body |-> offsets]}
  /\ starts' = starts \cup found
  /\ changed' = InsertChanges(found)
  /\ body' = {}
  /\ VisitNext(found)
  /\ UNCHANGED <<code, entry>>

(* The walk ran into another block's start: it falls through into it.      *)
AtOtherStart == position # start /\ position \in starts

SplitAtStart ==
  /\ status = "walking"
  /\ AtOtherStart
  /\ PushBlock(position, <<position>>, {}, body)

Walking(offset) ==
  /\ status = "walking"
  /\ ~AtOtherStart
  /\ offset = position
  /\ code.at[offset] # Undecodable

(* Any other instruction: the walk goes on behind it ...                   *)
WalkOn ==
  /\ Walking(position)
  /\ ~ends_block(code.at[position].kind)
  /\ NextOf(position) # code.size
  /\ position' = NextOf(position)
  /\ body' = body \cup {position}
  /\ UNCHANGED <<code, entry, starts, changed, graph, start, status>>

(* ... or stops at the end of the image, with no successor.                *)
RunOffEnd ==
  /\ Walking(position)
  /\ ~ends_block(code.at[position].kind)
  /\ NextOf(position) = code.size
  /\ PushBlock(code.size, <<>>, {}, body \cup {position})

(* A control-flow instruction ends the block.                              *)
EndBlock ==
  /\ Walking(position)
  /\ ends_block(code.at[position].kind)
  /\ has_direct_target(code.at[position].kind) => ~TargetOutside(position)
  /\ PushBlock(NextOf(position), SuccessorsOf(position),
               Elements(SuccessorsOf(position)), body \cup {position})

(* A decoder failure or a target outside the image fails the whole build.  *)
Fail ==
  /\ status = "walking"
  /\ ~AtOtherStart
  /\ \/ code.at[position] = Undecodable
     \/ /\ ends_block(code.at[position].kind)
        /\ has_direct_target(code.at[position].kind)
        /\ TargetOutside(position)
  /\ status' = "error"
  /\ UNCHANGED <<code, entry, starts, changed, graph, start, position, body>>

(* The pass inserted a start: discard the graph and begin again.           *)
Rescan ==
  /\ status = "pass_complete"
  /\ changed
  /\ changed' = FALSE
  /\ graph' = {}
  /\ start' = Smallest(starts)
  /\ position' = start'
  /\ status' = "walking"
  /\ UNCHANGED <<code, entry, starts, body>>

Finish ==
  /\ status = "pass_complete"
  /\ ~changed
  /\ status' = "done"
  /\ UNCHANGED <<code, entry, starts, changed, graph, start, position, body>>

(* build has returned.                                                     *)
Returned == status \in {"done", "error"} /\ UNCHANGED vars

Next ==
  \/ SplitAtStart \/ WalkOn \/ RunOffEnd \/ EndBlock \/ Fail
  \/ Rescan \/ Finish \/ Returned

(* build is a plain loop in one thread: it takes its next step.            *)
Fairness == WF_vars(Next)
Spec == Init /\ [][Next]_vars /\ Fairness

----------------------------------------------------------------------------
(* The program's control flow, stated without the builder: where control   *)
(* can be after the instruction at p.                                      *)
FlowsTo(p, q) ==
  /\ code.at[p] # Undecodable
  /\ \/ /\ q = p + code.at[p].size
        /\ code.at[p].kind \notin {"jump", "return", "interrupt"}
     \/ /\ q = p + code.at[p].size + code.at[p].relative
        /\ code.at[p].kind \in {"call", "jump", "conditional_jump", "loop"}

ClosedUnderFlow(set) == \A p \in set, q \in Offsets : FlowsTo(p, q) => q \in set

(* The offsets in every closed set that holds the entry.                   *)
Reachable ==
  { p \in Offsets :
      \A set \in SUBSET Offsets :
        entry \in set /\ ClosedUnderFlow(set) => p \in set }

TypeOK ==
  /\ IsProgram(code)
  /\ entry \in 0 .. code.size
  /\ entry \in starts
  /\ entry < code.size => starts \subseteq Offsets /\ position \in Offsets
  /\ start \in starts /\ start <= position
  /\ changed \in BOOLEAN
  /\ graph \subseteq [start : Offsets, end : 1 .. code.size, successors : Seq(Offsets),
                     body : SUBSET Offsets]
  /\ body \subseteq Offsets
  /\ status \in {"walking", "pass_complete", "done", "error"}
  /\ entry >= code.size => status = "error"

(* The builder decodes and splits only where control can get from the      *)
(* entry: no start, no walk and no block invents code.                     *)
OnlyReachable ==
  /\ TypeOK
  /\ status # "error" =>
       /\ starts \subseteq Reachable
       /\ position \in Reachable
       /\ body \subseteq Reachable
       /\ \A b \in graph : b.body \subseteq Reachable

(* When the build succeeds no block is left from before a later split:     *)
(* every start has exactly one block, no other start lies on an            *)
(* instruction boundary inside a block, and every successor is a start.    *)
FixedPoint ==
  status = "done" =>
    /\ { b.start : b \in graph } = starts
    /\ \A b \in graph :
         /\ b.body \cap starts = {b.start}
         /\ Elements(b.successors) \subseteq starts
         /\ \A c \in graph : c.start = b.start => c = b

(* When the build succeeds the blocks hold every reachable instruction.    *)
CoversReachable ==
  status = "done" => UNION { b.body : b \in graph } = Reachable

(* The verdict is exact: an error has a reachable cause, and success means *)
(* that every reachable instruction decodes and stays inside the image.    *)
Faulty(p) ==
  \/ code.at[p] = Undecodable
  \/ /\ code.at[p].kind \in {"call", "jump", "conditional_jump", "loop"}
     /\ p + code.at[p].size + code.at[p].relative \notin Offsets

VerdictExact ==
  /\ status = "error" /\ entry < code.size => \E p \in Reachable : Faulty(p)
  /\ status = "done" => \A p \in Reachable : ~Faulty(p)

(* The inductive invariant behind the properties above, in three parts.    *)
(* What has been found is reachable, and an error has its cause.           *)
ReachInv ==
  entry < code.size =>
    /\ starts \subseteq Reachable
    /\ position \in Reachable
    /\ body \subseteq Reachable
    /\ \A b \in graph : b.body \subseteq Reachable
    /\ status = "error" => Faulty(position)

(* The walk of a block: straight-line code from its start to the position. *)
FlowsWithin(offsets, exits) ==
  \A p \in offsets : ~Faulty(p) /\ \A q \in Offsets : FlowsTo(p, q) => q \in offsets \cup exits

WalkInv ==
  status = "walking" =>
    /\ \A p \in body : p < position
    /\ position # start => start \in body
    /\ body \cap starts \subseteq {start}
    /\ FlowsWithin(body, {position})

(* The blocks of this pass: final as long as the pass has changed nothing. *)
GraphInv ==
  /\ \A b \in graph :
       /\ b.start \in b.body
       /\ Elements(b.successors) \subseteq starts
       /\ FlowsWithin(b.body, Elements(b.successors))
       /\ status = "walking" => b.start < start
       /\ ~changed => b.body \cap starts = {b.start}
  /\ \A b, c \in graph : b.start = c.start => b = c
  /\ ~changed /\ status = "walking" => \A s \in starts : s < start => \E b \in graph : b.start = s
  /\ ~changed /\ status \in {"pass_complete", "done"} => \A s \in starts : \E b \in graph : b.start = s
  /\ status = "done" => ~changed
  /\ status = "pass_complete" => body = {}

BuildInv == ReachInv /\ WalkInv /\ GraphInv

(* The restart loop ends, on a graph or on an error.                       *)
Terminates == <>(status \in {"done", "error"})

(* Reachable instructions overlap when one begins inside another.          *)
Aligned ==
  \A p, q \in Reachable :
    code.at[p] # Undecodable => ~(p < q /\ q < p + code.at[p].size)

Disjoint == \A b, c \in graph : b # c => b.end <= c.start \/ c.end <= b.start

(* "A branch into the middle of a sequential region causes a proper split  *)
(* rather than overlapping blocks", whatever the branch leads into.        *)
BlocksDisjoint == status = "done" => Disjoint

(* "Indirect calls/jumps remain unsupported": no graph is returned for a   *)
(* program whose reachable code holds one.                                 *)
IndirectUnsupported ==
  status = "done" => \A p \in Reachable : ~code.at[p].indirect
=============================================================================
