----------------------------- MODULE MCDecoder ------------------------------
(***************************************************************************)
(* Images for the decoder: every opcode, each followed by ModR/M bytes of  *)
(* every addressing mode and every FF/F6 extension the code distinguishes, *)
(* cut at every length, plain and after prefixes.                          *)
(***************************************************************************)
EXTENDS DecoderSweep, Sequences

CONSTANT Width           \* the longest image without prefixes

(* mod 00/01/10/11, r/m 6 or not, extensions 0, 2, 3, 4, 6 and 7.          *)
ModRms == {\h00, \h06, \h16, \h26, \h40, \h56, \h66, \h5e, \h80, \h92, \ha6, \hb8, \hc0, \hd6, \hfe}
Tails == {\h02, \hfd}

AsImage(bytes) == [i \in 0 .. Len(bytes) - 1 |-> bytes[i + 1]]

PlainBytes ==
  { SubSeq(<<op, modrm, t, \h90, t, \hf3>>, 1, n) :
      op \in Byte, modrm \in ModRms, t \in Tails, n \in 1 .. Width }

Prefixes ==
  { <<\hf3>>, <<\hf2, \hf3>>, <<\h2e, \h66>>,
    [i \in 1 .. 12 |-> \h26], [i \in 1 .. 14 |-> \hf0], [i \in 1 .. 16 |-> \h36] }

PrefixedBytes ==
  { p \o b : p \in Prefixes,
             b \in { <<>>, <<\h90>>, <<\heb, \hfd>>, <<\h74, \h02>>, <<\he8, \h02, \hff>>,
                     <<\ha6>>, <<\h81, \h86, \h02, \hfd, \h01, \h00>>, <<\h8b, \h46, \h02>>, <<\hff>> } }

MCImages == { AsImage(b) : b \in PlainBytes \cup PrefixedBytes }
=============================================================================
