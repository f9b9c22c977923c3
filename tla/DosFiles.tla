------------------------------- MODULE DosFiles -------------------------------
(***************************************************************************)
(* What INT 21h/3Ch, 3Dh, 3Eh, 3Fh, 40h and 42h promise a program whose    *)
(* open handles are independent: files hold bytes, a handle stands at one  *)
(* place in one file, every call takes effect at once, and a refused call  *)
(* has no effect -- except the two refusals that come too late, where the  *)
(* promise is only that nothing else changes.                              *)
(***************************************************************************)
EXTENDS Integers, Sequences

CONSTANTS Files, Data, Handles, Counts, SeekOffsets, MaxPosition, NoFile

VARIABLES
  contents, \* contents[f]: the bytes of file f, or NoFile
  open,     \* open[h]: the file, mode and place of handle h, for the open handles
  returned  \* what the last call returned

vars == <<contents, open, returned>>

Ok(value) == [ok |-> TRUE, value |-> value]
Refused == [ok |-> FALSE, value |-> <<>>]

(* The bytes from a place on, and the bytes with data put at a place; a    *)
(* gap before the place is filled with zeros.                              *)
BytesFrom(bytes, place) == SubSeq(bytes, place + 1, Len(bytes))
PutAt(bytes, place, data) ==
  IF data = <<>> THEN bytes
  ELSE [i \in 1 .. (IF place + Len(data) > Len(bytes) THEN place + Len(data) ELSE Len(bytes)) |->
          IF i > place /\ i <= place + Len(data) THEN data[i - place]
          ELSE IF i <= Len(bytes) THEN bytes[i] ELSE 0]

FreeHandles == Handles \ DOMAIN open
LowestFree == CHOOSE h \in FreeHandles : \A g \in FreeHandles : h <= g
Extended(h, entry) == [g \in DOMAIN open \cup {h} |-> IF g = h THEN entry ELSE open[g]]

----------------------------------------------------------------------------
Init == contents \in [Files -> {NoFile} \cup { <<d>> : d \in Data }] /\ open = <<>> /\ returned = Refused

Refuse == returned' = Refused /\ UNCHANGED <<contents, open>>

Opens(f, writable) ==
  /\ FreeHandles # {}
  /\ open' = Extended(LowestFree, [file |-> f, writable |-> writable, place |-> 0])
  /\ returned' = Ok(<<LowestFree>>)

Create(f) ==
  \/ Opens(f, TRUE) /\ contents' = [contents EXCEPT ![f] = <<>>]
  \/ Refuse
  \/ FreeHandles = {} /\ returned' = Refused /\ UNCHANGED open
     /\ contents' = [contents EXCEPT ![f] = <<>>]

Open(f) ==
  \/ contents[f] # NoFile /\ Opens(f, FALSE) /\ UNCHANGED contents
  \/ Refuse

Read(h, count) ==
  LET rest == BytesFrom(contents[open[h].file], open[h].place)
      got  == IF count < Len(rest) THEN count ELSE Len(rest)
  IN  /\ ~open[h].writable
      /\ returned' = Ok(SubSeq(rest, 1, got))
      /\ open' = [open EXCEPT ![h].place = @ + got]
      /\ UNCHANGED contents

Write(h, data) ==
  /\ open[h].writable
  /\ contents' = [contents EXCEPT ![open[h].file] = PutAt(@, open[h].place, data)]
  /\ open' = [open EXCEPT ![h].place = @ + Len(data)]
  /\ returned' = Ok(<<Len(data)>>)

Seek(h, offset, origin) ==
  LET place == offset + (CASE origin = 0 -> 0 [] origin = 1 -> open[h].place
                           [] origin = 2 -> Len(contents[open[h].file]))
  IN  /\ place >= 0
      /\ open' = [open EXCEPT ![h].place = place]
      /\ returned' = IF place <= MaxPosition THEN Ok(<<place>>) ELSE Refused
      /\ UNCHANGED contents

Close(h) ==
  /\ open' = [g \in DOMAIN open \ {h} |-> open[g]]
  /\ returned' = Ok(<<>>)
  /\ UNCHANGED contents

Next ==
  \/ \E f \in Files : Create(f) \/ Open(f)
  \/ \E h \in DOMAIN open :
       \/ \E n \in Counts : Read(h, n)
       \/ \E d \in { <<>> } \cup { <<d>> : d \in Data } : Write(h, d)
       \/ \E o \in SeekOffsets, origin \in 0 .. 2 : Seek(h, o, origin)
       \/ Close(h)
  \/ Refuse

Spec == Init /\ [][Next]_vars
=============================================================================
