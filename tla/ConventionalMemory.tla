------------------------- MODULE ConventionalMemory -------------------------
(***************************************************************************)
(* conventional_memory and the INT 21h dispatcher in front of it.          *)
(*                                                                         *)
(* blocks_ is a vector; here it is a set of blocks, whose order is that of *)
(* their starts.  The vector has that order too: it begins with one block, *)
(* a split inserts the remainder right behind the block it cuts, and       *)
(* nothing else inserts.  The element at index + 1 is then the block with  *)
(* the next larger start.                                                  *)
(*                                                                         *)
(* allocate is one step.  release marks its block free in one step and     *)
(* then runs its loop over the whole vector, one comparison per step,      *)
(* before it returns.                                                      *)
(*                                                                         *)
(* A definition marked "slip" is used nowhere: it is a plausible mistake   *)
(* in the definition after it, which some property must tell apart.        *)
(***************************************************************************)
EXTENDS Integers, FiniteSets

CONSTANTS
  Paragraphs,            \* the constructor's argument
  Requests,              \* the sizes programs ask for (BX)
  Segments               \* the segments programs release (ES)

MaxWord == 65535
Words == 0 .. MaxWord

ASSUME MemoryAssumption ==
  /\ Paragraphs \in Words
  /\ Requests \subseteq Words
  /\ Segments \subseteq Words

VARIABLES
  blocks,                \* blocks_
  cursor,                \* the start of release's "current" block, or Idle
  result                 \* the last call, its argument and what it returned

vars == <<blocks, cursor, result>>

Idle == -1
uint16(x) == x % 65536
Answer(call, argument, ok, segment) ==
  [call |-> call, argument |-> argument, ok |-> ok, segment |-> segment]

Block(start, size, free) == [start |-> start, size |-> size, free |-> free]

Init ==
  /\ blocks = IF Paragraphs = 0 THEN {} ELSE {Block(0, Paragraphs, TRUE)}
  /\ cursor = Idle
  /\ result = Answer("none", 0, TRUE, 0)

----------------------------------------------------------------------------
ExactlyFitting(n) == { b \in blocks : b.free /\ b.size = n }  \* slip
Fitting(n) == { b \in blocks : b.free /\ b.size >= n }

(* The first block of the vector that fits is cut in two.                  *)
CutBlock(b, n) ==
  IF b.size = n THEN {Block(b.start, n, FALSE)}
  ELSE {Block(b.start, n, FALSE), Block(uint16(b.start + n), uint16(b.size - n), TRUE)}

Allocate(n) ==
  /\ cursor = Idle
  /\ \/ /\ n = 0 \/ Fitting(n) = {}
        /\ result' = Answer("allocate", n, FALSE, 0)
        /\ UNCHANGED blocks
     \/ /\ n # 0
        /\ \E b \in Fitting(n) :
             /\ \A c \in Fitting(n) : b.start <= c.start
             /\ blocks' = (blocks \ {b}) \cup CutBlock(b, n)
             /\ result' = Answer("allocate", n, TRUE, b.start)
  /\ UNCHANGED cursor

NextTo(b, c) ==
  /\ b.start < c.start
  /\ \A d \in blocks : d.start <= b.start \/ c.start <= d.start

(* The coalescing loop begins with the block at index 0; in the slip, with *)
(* the block just freed.                                                   *)
LoopFromFreed(freed, b) == b.start = freed.start  \* slip
LoopStart(freed, b) == \A c \in blocks : b.start <= c.start

ReleaseError(s) ==
  /\ cursor = Idle
  /\ ~\E b \in blocks : b.start = s /\ ~b.free
  /\ result' = Answer("release", s, FALSE, 0)
  /\ UNCHANGED <<blocks, cursor>>

Release(s) ==
  /\ cursor = Idle
  /\ \E b \in blocks :
       /\ b.start = s /\ ~b.free
       /\ blocks' = (blocks \ {b}) \cup {Block(b.start, b.size, TRUE)}
       /\ \E first \in blocks : LoopStart(b, first) /\ cursor' = first.start
  /\ result' = Answer("release", s, TRUE, 0)

(* Two neighbours are free: the first absorbs the second, and is compared  *)
(* again.                                                                  *)
FirstSizeOnly(b, c) == b.size  \* slip
MergedSize(b, c) == uint16(b.size + c.size)

Merge ==
  \E b, c \in blocks :
    /\ b.start = cursor /\ NextTo(b, c)
    /\ b.free /\ c.free
    /\ blocks' = (blocks \ {b, c}) \cup {Block(b.start, MergedSize(b, c), TRUE)}
    /\ UNCHANGED <<cursor, result>>

(* Otherwise ++index; the loop ends at the last block.                     *)
OnlyPastOwned(b, c) == IF b.free THEN b.start ELSE c.start  \* slip
NextIndex(b, c) == c.start

Step ==
  \E b, c \in blocks :
    /\ b.start = cursor /\ NextTo(b, c)
    /\ ~(b.free /\ c.free)
    /\ cursor' = NextIndex(b, c)
    /\ UNCHANGED <<blocks, result>>

LoopEnd ==
  /\ \E b \in blocks : b.start = cursor /\ \A c \in blocks : c.start <= b.start
  /\ cursor' = Idle
  /\ UNCHANGED <<blocks, result>>

(* AH other than 48h and 49h: "unsupported INT 21h memory function".       *)
Unsupported ==
  /\ cursor = Idle
  /\ result' = Answer("none", 0, FALSE, 0)
  /\ UNCHANGED <<blocks, cursor>>

Next ==
  \/ \E n \in Requests : Allocate(n)
  \/ \E s \in Segments : Release(s) \/ ReleaseError(s)
  \/ Merge \/ Step \/ LoopEnd
  \/ Unsupported

(* Once entered, the loop of release runs; programs need not call.         *)
Fairness == WF_vars(Merge \/ Step \/ LoopEnd)
Spec == Init /\ [][Next]_vars /\ Fairness

largest_free_block ==
  LET sizes == { b.size : b \in { c \in blocks : c.free } } \cup {0}
  IN  CHOOSE n \in sizes : \A m \in sizes : m <= n

----------------------------------------------------------------------------
(* The blocks tile the pool: each paragraph belongs to exactly one block,  *)
(* no block is empty, no 16-bit sum has wrapped.                           *)
TypeOK ==
  /\ blocks \subseteq [start : Words, size : Words \ {0}, free : BOOLEAN]
  /\ cursor \in {Idle} \cup { b.start : b \in blocks }
  /\ result \in [call : {"allocate", "release", "none"}, argument : Words,
                 ok : BOOLEAN, segment : Words]

Tiling ==
  /\ TypeOK
  /\ \A b \in blocks : b.start + b.size <= Paragraphs
  /\ \A b, c \in blocks : b # c => b.start + b.size <= c.start \/ c.start + c.size <= b.start
  /\ \A x \in 0 .. Paragraphs - 1 : \E b \in blocks : b.start <= x /\ x < b.start + b.size

(* Between calls no two neighbours are free, so a request fails only when  *)
(* the paragraphs are really taken, however the pool was fragmented.       *)
Coalesced ==
  cursor = Idle =>
    \A b, c \in blocks : b.free /\ c.free => b.start + b.size # c.start

(* A release always returns: the loop erases or advances in every turn.    *)
ReleaseReturns == cursor # Idle ~> cursor = Idle

(* The block list implements the pool of extents.                          *)
Owned == { [start |-> b.start, size |-> b.size] : b \in { c \in blocks : ~c.free } }
Pool == INSTANCE ParagraphPool WITH owned <- Owned
ImplementsPool == Pool!PoolSpec
=============================================================================
