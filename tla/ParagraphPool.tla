---------------------------- MODULE ParagraphPool ----------------------------
(***************************************************************************)
(* What the conventional-memory allocator promises, without its block      *)
(* list: a pool of paragraphs out of which disjoint extents are handed.    *)
(* An allocation takes the lowest place where it fits and fails only when  *)
(* it fits nowhere; a release gives back exactly the extent that starts at *)
(* the segment, and fails when none does.                                  *)
(***************************************************************************)
EXTENDS Integers

CONSTANTS
  Paragraphs,            \* the size of the pool, at most 65535
  Requests,              \* the sizes asked for
  Segments               \* the segments released

VARIABLES
  owned,                 \* the extents handed out: [start, size] records
  result                 \* the last call, its argument and what it returned

Answer(call, argument, ok, segment) ==
  [call |-> call, argument |-> argument, ok |-> ok, segment |-> segment]

(* The paragraphs s .. s+n-1 are inside the pool and nobody's.             *)
Fits(s, n) ==
  /\ s + n <= Paragraphs
  /\ \A e \in owned : s + n <= e.start \/ e.start + e.size <= s

Places(n) == { s \in 0 .. Paragraphs : Fits(s, n) }

PoolInit == owned = {} /\ result = Answer("none", 0, TRUE, 0)

PoolAllocate(n) ==
  \/ /\ n = 0 \/ Places(n) = {}
     /\ result' = Answer("allocate", n, FALSE, 0)
     /\ UNCHANGED owned
  \/ /\ n # 0
     /\ \E s \in Places(n) :
          /\ \A t \in Places(n) : s <= t
          /\ owned' = owned \cup {[start |-> s, size |-> n]}
          /\ result' = Answer("allocate", n, TRUE, s)

PoolRelease(s) ==
  \/ /\ ~\E e \in owned : e.start = s
     /\ result' = Answer("release", s, FALSE, 0)
     /\ UNCHANGED owned
  \/ \E e \in owned :
       /\ e.start = s
       /\ owned' = owned \ {e}
       /\ result' = Answer("release", s, TRUE, 0)

PoolRefuse == result' = Answer("none", 0, FALSE, 0) /\ UNCHANGED owned

PoolNext ==
  \/ \E n \in Requests : PoolAllocate(n)
  \/ \E s \in Segments : PoolRelease(s)
  \/ PoolRefuse

PoolSpec == PoolInit /\ [][PoolNext]_<<owned, result>>
=============================================================================
