--------------------------- MODULE GraphConsumers ---------------------------
(***************************************************************************)
(* The passes that consume a finished control-flow graph, as operators on  *)
(* it: control_flow_lowerer::lower, function_recovery::recover and         *)
(* loop_recovery::recover.                                                 *)
(*                                                                         *)
(* A definition marked "slip" is used nowhere: it is a plausible mistake   *)
(* in the definition after it, which some property must tell apart.        *)
(***************************************************************************)
EXTENDS CfgBuilder, FiniteSets

----------------------------------------------------------------------------
(* lower numbers the blocks in the order of the vector, which the builder  *)
(* filled in ascending order of start, and maps successors to numbers.     *)
BlockIdInclusive(offset) == Cardinality({ b \in graph : b.start <= offset })  \* slip
BlockId(offset) == Cardinality({ b \in graph : b.start < offset })

TerminatorOf(b) ==
  CASE Len(b.successors) = 0 -> "stop"
    [] Len(b.successors) = 1 -> "jump"
    [] Len(b.successors) = 2 -> "branch"

DuplicateStart == \E b, c \in graph : b # c /\ b.start = c.start
Dangling(b) == \E i \in DOMAIN b.successors : b.successors[i] \notin { c.start : c \in graph }
LowerError == DuplicateStart \/ \E b \in graph : Dangling(b) \/ Len(b.successors) > 2

Lowered ==
  { [id |-> BlockId(b.start), source_start |-> b.start, terminator |-> TerminatorOf(b),
     successors |-> [i \in DOMAIN b.successors |-> BlockId(b.successors[i])]] : b \in graph }

(* Both recovery passes decode each block again from its start to its end. *)
Redecoded(b) ==
  LET walk[p \in 0 .. code.size] ==
        IF p >= b.end THEN {}
        ELSE {p} \cup (IF code.at[p] = Undecodable THEN {} ELSE walk[NextOf(p)])
  IN  walk[b.start]
LastOf(b) == CHOOSE p \in Redecoded(b) : \A q \in Redecoded(b) : q <= p

RecoveryError ==
  \E b \in graph :
    \/ \E p \in Redecoded(b) : code.at[p] = Undecodable \/ NextOf(p) > b.end
    \/ NextOf(LastOf(b)) # b.end
    \/ code.at[LastOf(b)].kind = "call" /\ TargetOutside(LastOf(b))

(* The blocks' last instructions that are calls.                           *)
CallAnywhere == { p \in UNION { Redecoded(b) : b \in graph } :  \* slip
                    code.at[p].kind \in {"call", "jump"} }
CallSites == { p \in { LastOf(b) : b \in graph } : code.at[p].kind = "call" }

(* functions[target].push_back(site), on top of the entry itself.          *)
RecoveredFunctions ==
  { [entry |-> f, call_sites |-> { p \in CallSites : TargetOf(p) = f }] :
      f \in {entry} \cup { TargetOf(p) : p \in CallSites } }

StrictlyBackward(target, from) == target < from  \* slip
Backward(target, from) == target <= from

RecoveredLoops ==
  { e \in { <<target, b.start>> : target \in Offsets, b \in graph } :
      \E b \in graph :
        /\ b.start = e[2]
        /\ code.at[LastOf(b)].kind \in {"jump", "conditional_jump", "loop"}
        /\ e[1] \in Elements(b.successors)
        /\ Backward(e[1], b.start) }

----------------------------------------------------------------------------
(* Every graph build returns is accepted by its consumers: none of their   *)
(* error checks (duplicate start, dangling or third successor, an end off  *)
(* an instruction boundary) can fire on it, and its blocks are the         *)
(* disjoint regions they take them for, unless a branch leads into the     *)
(* middle of an instruction.                                               *)
ConsumersAccept == status = "done" => ~LowerError /\ ~RecoveryError /\ (Aligned => Disjoint)

(* Numbering loses nothing: ids are exactly 0 .. n-1, and following a      *)
(* lowered block's successor ids leads to the blocks that the program's    *)
(* own control flow leads to from the block's last instruction.            *)
LoweringKeepsFlow ==
  status = "done" =>
    /\ { l.id : l \in Lowered } = 0 .. Cardinality(graph) - 1
    /\ \A b \in graph : \A l \in Lowered :
         l.source_start = b.start =>
           { m.source_start : m \in { n \in Lowered : n.id \in Elements(l.successors) } }
             = { q \in Offsets : FlowsTo(LastOf(b), q) }

(* Functions are the entry and the targets of the reachable calls, each    *)
(* with all of its reachable call sites; no jump makes a function.         *)
FunctionsExact ==
  LET calls == { p \in Reachable : code.at[p].kind = "call" }
  IN  RecoveredFunctions =
        { [entry |-> f, call_sites |-> { p \in calls : FlowsTo(p, f) /\ TargetOf(p) = f }] :
            f \in {entry} \cup { TargetOf(p) : p \in calls } }

(* Every cycle of the graph that is not a recursion has a recovered latch: *)
(* without the recovered back edges and the edges into called functions,   *)
(* no set of blocks leads back into itself.                                *)
CyclesHaveLatch ==
  LET Edge(b, c) ==
        /\ c.start \in Elements(b.successors)
        /\ <<c.start, b.start>> \notin RecoveredLoops
        /\ ~(code.at[LastOf(b)].kind = "call" /\ TargetOf(LastOf(b)) = c.start)
  IN  \A cycle \in SUBSET graph :
        cycle # {} => \E b \in cycle : \A c \in cycle : ~Edge(b, c)

(* What function and loop recovery say of a finished graph is what the     *)
(* program does.                                                           *)
RecoveryExact == status = "done" => FunctionsExact /\ CyclesHaveLatch
=============================================================================
