------------------------- MODULE MCVirtualFileSystem -------------------------
(***************************************************************************)
(* Two files, two handles, files of up to MaxLength bytes, seeks of one    *)
(* place to either side of every origin.                                   *)
(***************************************************************************)
EXTENDS VirtualFileSystem, TLC

MCCounts == {1, 2}
MCOffsets == {-1, 0, 1}
MCData == {7}
MCSymmetry == Permutations(Files)
=============================================================================
