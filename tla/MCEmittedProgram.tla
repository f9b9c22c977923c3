--------------------------- MODULE MCEmittedProgram ---------------------------
(***************************************************************************)
(* Words of four bits, paragraphs of two bytes, pages of four, a header of *)
(* three: every header around those bounds, two relocation entries that    *)
(* may overlap.  Memory calls come from a COM program and from MZ programs *)
(* that end below the first block and above it; every comparison of        *)
(* four-bit words and two-bit bytes, and string instructions on two        *)
(* contents of memory, from another COM program.                           *)
(***************************************************************************)
EXTENDS EmittedProgram, Bitwise, TLC

Entries == [segment : {0, 1}, offset : {0, 1, 2}]
Mz(size, tail, pages, count, paragraphs, ip, cs, table, entries, fill) ==
  [mz |-> TRUE, size |-> size, last_page |-> tail, pages |-> pages, count |-> count,
   paragraphs |-> paragraphs, ip |-> ip, cs |-> cs, table |-> table, entries |-> entries, fill |-> fill]
Entry(offset) == [segment |-> 0, offset |-> offset]
Twice(e) == <<e, e>>
Long == Mz(16, 0, 4, 0, 2, 0, 0, 2, <<>>, 2)
Com(size) == [Mz(size, 0, 0, 0, 0, 0, 0, 0, <<>>, 1) EXCEPT !.mz = FALSE]

MCFiles ==
  { Mz(8, tail, pages, 2, 2, ip, cs, 2, <<e, d>>, 3) :
      tail \in {0, 3, 4}, pages \in {1, 2}, ip \in {0, 3, 4}, cs \in {0, 2}, e \in Entries, d \in Entries }
  \cup { Mz(size, tail, pages, count, paragraphs, 0, 0, table, Twice(Entry(0)), 2) :
      size \in {2, 3, 7, 8}, tail \in {0, 1, 3, 5}, pages \in 0 .. 2, count \in 0 .. 2,
      paragraphs \in 1 .. 4, table \in {2, 3, 5} }
  \cup { Com(size) : size \in {0, 2, 3, 15, 16} } \cup { Long }
MCFileCallers == { Com(2) }
MCBlockCallers == { Com(15), Long, Mz(8, 0, 2, 1, 2, 0, 0, 2, Twice(Entry(0)), 2) }
MCFlagCallers == { Com(3) }
MCWants == {0, 1, 3, 15}
MCBitAnd(l, r) == l & r
MCRams == { [i \in 0 .. 16 |-> (i \div 2) % 4], [i \in 0 .. 16 |-> IF i \in {2, 14} THEN 3 ELSE 1] }
MCSymmetry == Permutations(Names)
=============================================================================
