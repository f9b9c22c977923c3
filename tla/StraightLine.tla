---------------------------- MODULE StraightLine ----------------------------
(***************************************************************************)
(* The control of straight_line_compiler::compile: once the control-flow   *)
(* graph is built, translate_block follows one path through the program at *)
(* compile time, entering a block per jump by recursion and translating    *)
(* whatever follows an interrupt, until the program exits or the path is   *)
(* rejected.                                                               *)
(*                                                                         *)
(* Registers, flags and memory decide which way a conditional jump goes,   *)
(* whether an interrupt is an exit, a supported service or an error, and   *)
(* whether an instruction translates; here each of these is free.          *)
(*                                                                         *)
(* A definition marked "slip" is used nowhere: it is a plausible mistake   *)
(* in the definition after it, which some property must tell apart.        *)
(***************************************************************************)
EXTENDS CfgBuilder

VARIABLES
  outcome,       \* "building", "translating", "exit", or the error returned
  at,            \* position in the innermost translate_block
  visited,       \* the starts of the blocks marked in visited_block
  pastInterrupt, \* auxiliary: has the walk gone on behind an interrupt?
  last           \* auxiliary: the last control transfer and what the program does there

walk == <<outcome, at, visited, pastInterrupt, last>>
allvars == <<vars, walk>>

NoTransfer == [from |-> -1, real |-> -1]
Returns == outcome \notin {"building", "translating"}

StraightLineInit ==
  /\ Init
  /\ outcome = "building" /\ at = 0 /\ visited = {}
  /\ pastInterrupt = FALSE /\ last = NoTransfer

----------------------------------------------------------------------------
BlockStarts == { b.start : b \in graph }

Refuse(why) ==
  /\ outcome' = why
  /\ UNCHANGED <<at, visited, pastInterrupt, last>>

UncheckedBlock(s) == FALSE  \* slip
AlreadyVisited(s) == s \in visited

(* The call translate_block(graph.blocks[...]) for the block at s; the     *)
(* program itself would be at real.                                        *)
EnterBlock(s, from, real) ==
  \/ AlreadyVisited(s) /\ Refuse("loop")
  \/ /\ ~AlreadyVisited(s)
     /\ outcome' = "translating"
     /\ visited' = visited \cup {s}
     /\ at' = s
     /\ last' = [from |-> from, real |-> real]
     /\ UNCHANGED pastInterrupt

Advance(from, to, real) ==
  /\ at' = to
  /\ last' = [from |-> from, real |-> real]
  /\ UNCHANGED <<outcome, visited>>

(* compile: build the graph and translate blocks[0], the lowest one.       *)
BuildFails ==
  /\ outcome = "building" /\ status = "error"
  /\ Refuse("no graph")

Begin ==
  /\ outcome = "building" /\ status = "done"
  /\ EnterBlock(Smallest(BlockStarts), NoTransfer.from, entry)

----------------------------------------------------------------------------
StartsBlock(t) == t \in BlockStarts

Translating == outcome = "translating" /\ at \in Offsets /\ code.at[at] # Undecodable
Kind == code.at[at].kind

LeavesCode ==
  /\ outcome = "translating" /\ at \notin Offsets
  /\ Refuse("no exit")

DecodeFails ==
  /\ outcome = "translating" /\ at \in Offsets /\ code.at[at] = Undecodable
  /\ Refuse("undecodable")

(* INT with AH = 4Ch, whatever the number.                                 *)
ExitInterrupt ==
  /\ Translating /\ Kind = "interrupt"
  /\ Refuse("exit")

(* Any other supported service: the walk goes on behind the interrupt.     *)
ServiceInterrupt ==
  /\ Translating /\ Kind = "interrupt"
  /\ Advance(at, NextOf(at), NextOf(at))
  /\ pastInterrupt' = TRUE

UnsupportedInterrupt ==
  /\ Translating /\ Kind = "interrupt"
  /\ Refuse("unsupported")

Return ==
  /\ Translating /\ Kind = "return"
  /\ Refuse("no exit")

(* A jump to a block's start enters the block.  A jump anywhere else only  *)
(* moves the position: that code lies behind an interrupt, where the graph *)
(* ends.                                                                   *)
JumpIntoBlock ==
  /\ Translating /\ Kind = "jump"
  /\ StartsBlock(TargetOf(at))
  /\ EnterBlock(TargetOf(at), at, TargetOf(at))

JumpOutsideGraph ==
  /\ Translating /\ Kind = "jump"
  /\ ~StartsBlock(TargetOf(at))
  /\ Advance(at, TargetOf(at), TargetOf(at))
  /\ UNCHANGED pastInterrupt

BothWays == {TargetOf(at), NextOf(at)}

UnresolvedBranch ==
  /\ Translating /\ Kind \in {"conditional_jump", "loop"}
  /\ ~(BothWays \subseteq BlockStarts)
  /\ Refuse("unresolved")

Branch ==
  /\ Translating /\ Kind = "conditional_jump"
  /\ BothWays \subseteq BlockStarts
  /\ \E s \in BothWays : EnterBlock(s, at, s)

(* The conditions of LOOP, LOOPE, LOOPNE and JCXZ are not among those of   *)
(* evaluate_condition: the branch is never taken, whatever CX is.          *)
LoopBranch ==
  /\ Translating /\ Kind = "loop"
  /\ BothWays \subseteq BlockStarts
  /\ \E real \in BothWays : EnterBlock(NextOf(at), at, real)

(* Everything else goes to the instruction translator.  For a near CALL    *)
(* that pushes the return address, and the walk goes on behind the call.   *)
Ordinary == Kind \notin {"interrupt", "return", "jump", "conditional_jump", "loop"}

TranslateInstruction ==
  /\ Translating /\ Ordinary
  /\ Advance(at, NextOf(at), IF Kind = "call" THEN TargetOf(at) ELSE NextOf(at))
  /\ UNCHANGED pastInterrupt

TranslateFails ==
  /\ Translating /\ Ordinary
  /\ Refuse("untranslatable")

CompileReturned == Returns /\ UNCHANGED allvars

Translate ==
  \/ BuildFails \/ Begin \/ LeavesCode \/ DecodeFails
  \/ ExitInterrupt \/ ServiceInterrupt \/ UnsupportedInterrupt \/ Return
  \/ JumpIntoBlock \/ JumpOutsideGraph \/ UnresolvedBranch \/ Branch \/ LoopBranch
  \/ TranslateInstruction \/ TranslateFails

Build == outcome = "building" /\ Next /\ UNCHANGED walk

StraightLineNext == Build \/ (Translate /\ UNCHANGED vars) \/ CompileReturned

(* One thread: the compiler takes its next step.                           *)
StraightLineSpec ==
  /\ StraightLineInit /\ [][StraightLineNext]_allvars
  /\ WF_allvars(StraightLineNext)

----------------------------------------------------------------------------
(* Until the walk goes on behind an interrupt it translates only code the  *)
(* graph holds, and its position never leaves the image except by running  *)
(* off the end of it; and a branch cannot be resolved only behind an       *)
(* interrupt or when the code ends with the branch, because elsewhere the  *)
(* builder made both ways block starts.                                    *)
TranslatesTheGraph ==
  /\ outcome # "building" /\ status = "done" /\ ~pastInterrupt =>
       at \in (UNION { b.body : b \in graph }) \cup {code.size}
  /\ outcome = "unresolved" => pastInterrupt \/ NextOf(at) = code.size
  /\ outcome \in {"building", "no graph"} => visited = {} /\ ~pastInterrupt
  /\ visited \subseteq BlockStarts

(* The walk ends, unless it keeps jumping through code outside the graph:  *)
(* no other path through a program, loops included, hangs the compiler.    *)
OutsideGraph ==
  /\ outcome = "translating" /\ at \in Offsets /\ code.at[at] # Undecodable
  /\ Kind = "jump" /\ TargetOf(at) \notin BlockStarts

EndsOrLeavesGraph == <>(Returns \/ OutsideGraph)

(* "straight-line compiler does not support loops": a program that loops   *)
(* is rejected, so the compiler always returns.                            *)
CompileTerminates == <>Returns

(* The walk begins at the offset entry_offset() gives, where the program   *)
(* begins.                                                                 *)
BeginsAtEntry == outcome = "translating" /\ last.from = NoTransfer.from => at = entry

(* After a CALL the walk is where the program is: in the called function.  *)
EntersCalls ==
  outcome = "translating" /\ last.from \in Offsets =>
    (code.at[last.from].kind = "call" => at = last.real)

(* A LOOP whose outcome is not known when compiling is rejected, so the    *)
(* walk never goes another way than the program.                           *)
LoopsDecided ==
  outcome = "translating" /\ last.from \in Offsets =>
    (code.at[last.from].kind = "loop" => at = last.real)
=============================================================================
