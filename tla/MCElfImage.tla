----------------------------- MODULE MCElfImage -----------------------------
(***************************************************************************)
(* Every sequence of a few actions; an empty payload (a write of no bytes) *)
(* is among them.                                                          *)
(***************************************************************************)
EXTENDS ElfImage
=============================================================================
