------------------------ MODULE MCConventionalMemory ------------------------
(***************************************************************************)
(* A pool small enough to enumerate every fragmentation.                   *)
(***************************************************************************)
EXTENDS ConventionalMemory

(* Requests from the rejected zero to one more than the pool holds, and    *)
(* segments inside and just outside the pool.                              *)
MCRequests == 0 .. Paragraphs + 1
MCSegments == 0 .. Paragraphs
=============================================================================
