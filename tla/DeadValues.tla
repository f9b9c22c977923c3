------------------------------ MODULE DeadValues ------------------------------
(***************************************************************************)
(* dead_value_elimination::analyze: from the roots, a worklist marks every *)
(* value another live one takes as input.                                  *)
(*                                                                         *)
(* A table of values is the sequence of their inputs: a value's id is its  *)
(* place in it.                                                            *)
(*                                                                         *)
(* A definition marked "slip" is used nowhere: it is a plausible mistake   *)
(* in the definition after it, which some property must tell apart.        *)
(***************************************************************************)
EXTENDS Integers, Sequences

VARIABLES
  table,     \* the values' inputs
  roots,     \* the roots of this call
  pending,   \* the stack of ids to visit
  live,      \* the ids marked
  liveness   \* "idle", "working", "returned" or "error"

liveness_vars == <<table, roots, pending, live, liveness>>

Ids == DOMAIN table
Elements(seq) == { seq[i] : i \in DOMAIN seq }

LivenessIdle ==
  table = <<>> /\ roots = <<>> /\ pending = <<>> /\ live = {} /\ liveness = "idle"

(* The call.                                                               *)
AnalyzeLiveness(inputs, ids) ==
  /\ table' = inputs /\ roots' = ids /\ pending' = ids
  /\ live' = {} /\ liveness' = "working"

Working == liveness = "working" /\ pending # <<>> /\ UNCHANGED <<table, roots>>
Back == pending[Len(pending)]
Popped == SubSeq(pending, 1, Len(pending) - 1)

OutsideRoot == Working /\ Back \notin Ids /\ liveness' = "error" /\ UNCHANGED <<pending, live>>

SkipLive == Working /\ Back \in live /\ pending' = Popped /\ UNCHANGED <<live, liveness>>

FirstInput(inputs) == IF inputs = <<>> THEN <<>> ELSE <<inputs[1]>>  \* slip
PushedInputs(inputs) == inputs

Mark ==
  /\ Working /\ Back \in Ids \ live
  /\ live' = live \cup {Back}
  /\ IF Elements(table[Back]) \subseteq Ids
     THEN pending' = Popped \o PushedInputs(table[Back]) /\ UNCHANGED liveness
     ELSE pending' = Popped /\ liveness' = "error"

ReturnLive ==
  /\ liveness = "working" /\ pending = <<>> /\ liveness' = "returned"
  /\ UNCHANGED <<table, roots, pending, live>>

LivenessStep == OutsideRoot \/ SkipLive \/ Mark \/ ReturnLive

(* Calls follow one another, with any table and any roots.                 *)
LivenessNext ==
  \/ /\ liveness # "working"
     /\ \E inputs \in Seq(Seq(Nat)), ids \in Seq(Nat) : AnalyzeLiveness(inputs, ids)
  \/ LivenessStep
LivenessSpec == LivenessIdle /\ [][LivenessNext]_liveness_vars

----------------------------------------------------------------------------
ClosedUnderInputs(set) == \A v \in set : Elements(table[v]) \subseteq set

(* A result marks the values the roots need, directly or through others,   *)
(* and no value else: what it leaves unmarked can be removed, and a value  *)
(* that only unmarked ones take is not kept.                               *)
LiveExact ==
  liveness = "returned" =>
    /\ Elements(roots) \subseteq live /\ live \subseteq Ids /\ ClosedUnderInputs(live)
    /\ \A set \in SUBSET live :
         Elements(roots) \subseteq set /\ ClosedUnderInputs(set) => set = live
=============================================================================
