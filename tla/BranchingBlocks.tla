--------------------------- MODULE BranchingBlocks ---------------------------
(***************************************************************************)
(* The control of branching_compiler: collect_block_starts, the functions  *)
(* emit_block_at writes, one per start, and the run of the program they    *)
(* make, next to what the DOS program does.                                *)
(*                                                                         *)
(* An emitted function runs its instructions up to one that transfers      *)
(* control and then calls the function of the next block.  Nothing follows *)
(* such a call except the while of a loop the emitter has recovered, so a  *)
(* function that ends without a call unwinds to the innermost open loop,   *)
(* or to main, which returns 0.                                            *)
(*                                                                         *)
(* Registers, flags and memory decide conditions, the service an interrupt *)
(* asks for and where an indirect jump leads; here each of these is free.  *)
(*                                                                         *)
(* A definition marked "slip" is used nowhere: it is a plausible mistake   *)
(* in the definition after it, which some property must tell apart.        *)
(***************************************************************************)
EXTENDS Integers, Sequences, FiniteSets

CONSTANTS
  Programs,      \* size, at: what decode_at returns, last_interrupt: the last INT 21h
  Undecodable,   \* decode_at's error
  StartLimit,    \* the sweep over the head of the image adds no start beyond this many
  MaxDepth       \* bound: entries of call_stack in use, do-whiles open in one another

ASSUME LimitAssumption == StartLimit \in Nat /\ MaxDepth \in Nat

(* decode_at reads at least one byte and none behind the image.            *)
ASSUME ProgramsAssumption ==
  \A c \in Programs :
    /\ c.size \in Nat
    /\ \A p \in 0 .. c.size - 1 :
         c.at[p] # Undecodable =>
           /\ c.at[p].size \in Nat \ {0} /\ p + c.at[p].size <= c.size
           /\ c.at[p].relative \in Int

VARIABLES
  code, entry,
  starts,        \* the block starts collected
  todo,          \* the starts the current pass has yet to walk
  changed,       \* has this pass inserted a start?
  followed,      \* auxiliary: the starts of the passes, all of which they have walked
  phase,
  block, at,     \* the emitted function that runs, and the instruction in it
  call_stack,
  loops,         \* the do-while blocks open below the running function
  last           \* auxiliary: the last transfer and where the DOS program went

collectVars == <<starts, todo, changed, followed>>
runVars == <<block, at, call_stack, loops, last>>
vars == <<code, entry, collectVars, phase, runVars>>

Offsets == 0 .. code.size - 1
Kind(p) == code.at[p].kind
NextOf(p) == p + code.at[p].size
TargetOf(p) == NextOf(p) + code.at[p].relative

Init ==
  /\ code \in Programs
  /\ entry \in 0 .. code.size - 1
  /\ starts = {entry} /\ todo = {entry} /\ changed = FALSE /\ followed = {}
  /\ phase = "collecting"
  /\ block = entry /\ at = entry
  /\ call_stack = <<>> /\ loops = <<>>
  /\ last = [from |-> -1, real |-> entry]

----------------------------------------------------------------------------
(* collect_block_starts.                                                   *)
terminates(kind) == kind \in {"jump", "conditional_jump", "return", "interrupt", "call"}
is_branch(kind) == kind \in {"jump", "conditional_jump", "call"}

InterruptsEndPrograms(p) == Kind(p) \in {"conditional_jump", "call"}  \* slip
falls_through(p) ==
  \/ Kind(p) \in {"conditional_jump", "call"}
  \/ Kind(p) = "interrupt" /\ p # code.last_interrupt

(* The offsets the walk from a start decodes.                              *)
Walk(s) ==
  LET walk[p \in 0 .. code.size] ==
        IF p >= code.size THEN {}
        ELSE {p} \cup (IF code.at[p] = Undecodable \/ terminates(Kind(p)) THEN {}
                       ELSE walk[NextOf(p)])
  IN  IF s \in Offsets THEN walk[s] ELSE {}

Fails(s) == \E p \in Walk(s) : code.at[p] = Undecodable

Found(s) ==
  { TargetOf(p) : p \in { q \in Walk(s) : is_branch(Kind(q)) } }
    \cup { NextOf(p) : p \in { q \in Walk(s) : falls_through(q) /\ NextOf(q) < code.size } }

EveryTargetChanges(found) == changed \/ found # {}  \* slip
ForgetEarlierChange(found) == ~(found \subseteq starts)  \* slip
InsertChanges(found) == changed \/ ~(found \subseteq starts)

(* The next start of the pass, in ascending order of the copied set.       *)
WalkStart ==
  /\ phase = "collecting"
  /\ \E s \in todo :
       /\ \A t \in todo : s <= t
       /\ IF Fails(s)
          THEN phase' = "rejected" /\ UNCHANGED collectVars
          ELSE /\ todo' = todo \ {s}
               /\ starts' = starts \cup Found(s)
               /\ changed' = InsertChanges(Found(s))
               /\ UNCHANGED <<followed, phase>>
  /\ UNCHANGED <<code, entry, runVars>>

NextPass ==
  /\ phase = "collecting" /\ todo = {} /\ changed
  /\ todo' = starts /\ changed' = FALSE
  /\ UNCHANGED <<code, entry, starts, followed, phase, runVars>>

(* Every instruction from offset 0 to the first interrupt, met linearly,   *)
(* becomes a start as well, until there are StartLimit of them.            *)
Swept ==
  LET met[p \in 0 .. code.size] ==
        IF p >= code.size THEN {}
        ELSE IF code.at[p] = Undecodable THEN {}
        ELSE {p} \cup (IF Kind(p) = "interrupt" THEN {} ELSE met[NextOf(p)])
  IN  { p \in Offsets \cap met[0] :
          Cardinality(starts \cup { q \in met[0] : q < p }) < StartLimit }

Sweep ==
  /\ phase = "collecting" /\ todo = {} /\ ~changed
  /\ starts' = starts \cup Swept
  /\ followed' = starts
  /\ phase' = "emitting"
  /\ UNCHANGED <<code, entry, todo, changed, runVars>>

----------------------------------------------------------------------------
(* emit_block_at: a block that ends with a conditional jump back to its    *)
(* own start becomes a do-while; 0 stands for none, as in the source.      *)
LoopsBackTo(s, p) ==
  /\ p # s /\ code.at[p] # Undecodable
  /\ Kind(p) = "conditional_jump" /\ TargetOf(p) = s

AnyBackwardJump(s) ==  \* slip
  LET back == { p \in Walk(s) : /\ p # s /\ code.at[p] # Undecodable
                                /\ Kind(p) = "conditional_jump" /\ TargetOf(p) <= s }
  IN  IF back = {} THEN 0 ELSE CHOOSE p \in back : TRUE
LoopEnd(s) ==
  LET back == { p \in Walk(s) : LoopsBackTo(s, p) }
  IN  IF back = {} THEN 0 ELSE CHOOSE p \in back : TRUE

HasLoop(s) == LoopEnd(s) # 0
AtLoopEnd == HasLoop(block) /\ at = LoopEnd(block)

(* emit_block_body ends at a string instruction too, and before the jump   *)
(* of a recovered loop.                                                    *)
Body(s) == { p \in Walk(s) : /\ ~(HasLoop(s) /\ p = LoopEnd(s))
                             /\ \A q \in Walk(s) : q < p => Kind(q) # "string" }
BodyFails(s) == \E p \in Body(s) : code.at[p] = Undecodable

(* The functions a block calls by name.                                    *)
Labels(s) ==
  UNION { CASE Kind(p) \in {"jump", "call"} ->
                 IF code.at[p].indirect THEN {} ELSE {TargetOf(p)}
            [] Kind(p) = "conditional_jump" -> {TargetOf(p), NextOf(p)}
            [] OTHER -> {} : p \in Body(s) }

(* The emitted source compiles only if every function it calls is          *)
(* declared; otherwise compile returns an error, as it does for a start    *)
(* whose body does not decode.                                             *)
Emit ==
  /\ phase = "emitting"
  /\ phase' = IF \E s \in starts : BodyFails(s) THEN "rejected"
              ELSE IF \E s \in starts : ~(Labels(s) \subseteq starts) THEN "undeclared"
              ELSE "running"
  /\ UNCHANGED <<code, entry, collectVars, runVars>>

----------------------------------------------------------------------------
(* The emitted program runs.                                               *)
Running(kind) ==
  /\ phase = "running" /\ at \in Offsets
  /\ Kind(at) = kind
  /\ UNCHANGED <<code, entry, collectVars>>

(* The call of another block's function; the DOS program is at real.       *)
EnterBlock(s, real) ==
  /\ block' = s /\ at' = s
  /\ last' = [from |-> at, real |-> real]
  /\ UNCHANGED phase

Exit ==
  /\ phase' = "exited"
  /\ last' = [from |-> at, real |-> at]
  /\ UNCHANGED <<block, at, call_stack, loops>>

(* The running function ends.                                              *)
Unwind(real) ==
  \/ /\ loops = <<>>
     /\ phase' = "ended"
     /\ last' = [from |-> at, real |-> real]
     /\ UNCHANGED <<block, at, call_stack, loops>>
  \/ /\ loops # <<>>
     /\ block' = Head(loops)
     /\ at' = LoopEnd(Head(loops))
     /\ loops' = Tail(loops)
     /\ last' = [from |-> at, real |-> real]
     /\ UNCHANGED <<phase, call_stack>>

OpenLoops == IF HasLoop(block) THEN <<block>> \o loops ELSE loops

(* Behind an interrupt and behind a string instruction the next block is   *)
(* called only if it is one.                                               *)
CallNextIfBlock ==
  IF NextOf(at) < code.size /\ NextOf(at) \in starts
  THEN EnterBlock(NextOf(at), NextOf(at)) /\ UNCHANGED <<call_stack, loops>>
  ELSE Unwind(NextOf(at))

ServiceReturns == Running("interrupt") /\ code.at[at].service /\ CallNextIfBlock
InterruptExits == Running("interrupt") /\ Exit

StringInstruction ==
  /\ Running("string")
  /\ IF NextOf(at) < code.size /\ NextOf(at) \in starts
     THEN /\ Len(OpenLoops) <= MaxDepth
          /\ EnterBlock(NextOf(at), NextOf(at))
          /\ loops' = OpenLoops
          /\ UNCHANGED call_stack
     ELSE IF HasLoop(block)
     THEN /\ at' = LoopEnd(block)
          /\ last' = [from |-> at, real |-> NextOf(at)]
          /\ UNCHANGED <<phase, block, call_stack, loops>>
     ELSE Unwind(NextOf(at))

Jump ==
  /\ Running("jump") /\ ~code.at[at].indirect
  /\ EnterBlock(TargetOf(at), TargetOf(at))
  /\ UNCHANGED <<call_stack, loops>>

(* Through a register: dispatch; through memory: exit with 1.              *)
IndirectJump ==
  /\ Running("jump") /\ code.at[at].indirect
  /\ \/ \E s \in starts : EnterBlock(s, s) /\ UNCHANGED <<call_stack, loops>>
     \/ Exit

Call ==
  /\ Running("call") /\ ~code.at[at].indirect
  /\ Len(call_stack) < MaxDepth
  /\ call_stack' = <<NextOf(at)>> \o call_stack
  /\ EnterBlock(TargetOf(at), TargetOf(at))
  /\ UNCHANGED loops

IndirectCall == Running("call") /\ code.at[at].indirect /\ Exit

(* With an empty call_stack RET exits; otherwise it dispatches.            *)
Return ==
  /\ Running("return")
  /\ IF call_stack = <<>> THEN Exit
     ELSE IF Head(call_stack) \in starts
     THEN /\ EnterBlock(Head(call_stack), Head(call_stack))
          /\ call_stack' = Tail(call_stack)
          /\ UNCHANGED loops
     ELSE Exit

Branch ==
  /\ Running("conditional_jump") /\ ~AtLoopEnd
  /\ \E s \in {TargetOf(at), NextOf(at)} : EnterBlock(s, s)
  /\ UNCHANGED <<call_stack, loops>>

(* The while of a recovered loop: round again, or the function ends.       *)
LoopAgain ==
  /\ Running("conditional_jump") /\ AtLoopEnd
  /\ EnterBlock(block, TargetOf(at))
  /\ UNCHANGED <<call_stack, loops>>
LoopDone ==
  /\ Running("conditional_jump") /\ AtLoopEnd
  /\ Unwind(NextOf(at))

(* Instructions the emitter knows, and those it turns into exit(1).        *)
Ordinary == {"move_immediate", "move", "arithmetic", "compare", "flags"}
OrdinaryInstruction ==
  /\ \E kind \in Ordinary : Running(kind)
  /\ at' = NextOf(at)
  /\ last' = [from |-> at, real |-> NextOf(at)]
  /\ UNCHANGED <<phase, block, call_stack, loops>>
UnsupportedInstruction ==
  /\ \E kind \in {"nop", "stack", "io", "coprocessor", "loop", "flags"} : Running(kind)
  /\ Exit

(* The emitted function, as the image, has come to its end.                *)
OffTheEnd ==
  /\ phase = "running" /\ at \notin Offsets
  /\ Unwind(at)
  /\ UNCHANGED <<code, entry, collectVars>>

Stopped == phase \in {"rejected", "undeclared", "exited", "ended"} /\ UNCHANGED vars
DepthReached ==
  /\ \/ Running("call") /\ ~code.at[at].indirect /\ Len(call_stack) = MaxDepth
     \/ Running("string") /\ Len(OpenLoops) > MaxDepth
  /\ UNCHANGED vars

Next ==
  \/ WalkStart \/ NextPass \/ Sweep \/ Emit
  \/ ServiceReturns \/ InterruptExits \/ StringInstruction
  \/ Jump \/ IndirectJump \/ Call \/ IndirectCall \/ Return
  \/ Branch \/ LoopAgain \/ LoopDone
  \/ OrdinaryInstruction \/ UnsupportedInstruction \/ OffTheEnd
  \/ Stopped \/ DepthReached

(* The compiler is one thread and takes its next step.                     *)
Spec == Init /\ [][Next]_vars /\ WF_vars(WalkStart \/ NextPass \/ Sweep \/ Emit)

----------------------------------------------------------------------------
(* Types; the function that runs is a start, and only do-whiles are open.  *)
TypeOK ==
  /\ starts \subseteq Int /\ todo \subseteq starts /\ changed \in BOOLEAN
  /\ phase \in {"collecting", "emitting", "running", "rejected", "undeclared", "exited", "ended"}
  /\ block \in starts
  /\ phase = "running" => at \in Nat \/ at \in starts
  /\ Len(call_stack) <= MaxDepth /\ Len(loops) <= MaxDepth
  /\ \A i \in DOMAIN loops : HasLoop(loops[i])

(* Before the sweep, the starts are closed under the program's control     *)
(* flow: every way out of a collected block that is not behind the last    *)
(* INT 21h leads to a collected block, however discovery and walking have  *)
(* interleaved in the passes.                                              *)
CollectionClosed ==
  phase = "collecting" /\ todo = {} /\ ~changed =>
    \A s \in starts : Found(s) \subseteq starts

(* The passes over the starts end, for loops and for targets outside.      *)
CollectionEnds == <>(phase # "collecting")

(* Without string instructions, the emitted program is always at the       *)
(* instruction the DOS program is at: calls between functions, the         *)
(* do-whiles and the dispatched returns add no detour.                     *)
StringFree == \A p \in Offsets : Kind(p) # "string"
FollowsProgram == phase = "running" /\ StringFree => at = last.real

(* A block the passes have walked stops short of the DOS program's end     *)
(* only behind the last INT 21h, a string instruction or a recovered loop: *)
(* wherever else it ends, the collection has made a block of what follows. *)
(* Nobody has looked behind the blocks only the sweep has added.           *)
StopsShort ==
  phase = "ended" /\ last.real \in Offsets /\ code.at[last.real] # Undecodable
EndsOnlyThere ==
  TypeOK /\ (StopsShort /\ StringFree =>
    \/ block \notin followed
    \/ last.from = code.last_interrupt
    \/ Kind(last.from) = "conditional_jump" /\ AtLoopEnd)

----------------------------------------------------------------------------
(* What the class comment promises, "a native x86_64 executable with       *)
(* proper control flow": the program goes on behind a loop that ends.      *)
LoopsAreLeft == StopsShort => Kind(last.from) # "conditional_jump"

(* ... behind every interrupt that returns ...                             *)
InterruptsReturn == StopsShort => Kind(last.from) # "interrupt"

(* ... and behind every string instruction.                                *)
StringsContinue == StopsShort => Kind(last.from) # "string"

(* "The compiler walks the CFG and translates each basic block": a program *)
(* whose collected blocks decode and branch inside the image compiles,     *)
(* whatever data lies between them.                                        *)
Accepted ==
  phase = "undeclared" =>
    \E s \in starts : Fails(s) \/ ~(Found(s) \subseteq Offsets)

(* Every emitted function is always_inline, so that none may reach itself  *)
(* through another one.                                                    *)
CallsFrom(s) == (Labels(s) \cap starts) \ {s}
Reaches(s) ==
  LET Grow[n \in 0 .. Cardinality(starts)] ==
        IF n = 0 THEN CallsFrom(s) ELSE Grow[n - 1] \cup UNION { CallsFrom(t) : t \in Grow[n - 1] }
  IN  Grow[Cardinality(starts)]
InlinesAll == phase = "running" => \A s \in starts : s \notin Reaches(s)
=============================================================================
