---------------------------- MODULE MCFileActions ----------------------------
(***************************************************************************)
(* Programs of a few calls on two files.  Handles run from 1, which is     *)
(* standard output, to one more than the opens can give out.               *)
(***************************************************************************)
EXTENDS FileActions

MCHandles == {1} \cup 3 .. 5
=============================================================================
