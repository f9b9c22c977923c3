-------------------------- MODULE VirtualFileSystem --------------------------
(***************************************************************************)
(* virtual_file_system and the INT 21h file dispatcher over it: a table of *)
(* handles, each owning a std::fstream.  A stream reads ahead of its       *)
(* reader and keeps what was written to it until a later write, a seek or  *)
(* the close passes it on; a read that meets the end fails the stream, and *)
(* a failed stream reads nothing until a seek clears it.                   *)
(*                                                                         *)
(* How far a stream reads ahead and when a write passes its bytes on       *)
(* depend on the size of the buffer, which is free here.  The host accepts *)
(* every write.  MaxLength bounds the files.                               *)
(*                                                                         *)
(* A definition marked "slip" is used nowhere: it is a plausible mistake   *)
(* in the definition after it, which some property must tell apart.        *)
(***************************************************************************)
EXTENDS Integers, Sequences

CONSTANTS
  Files,        \* paths that resolve below the drive's root
  Data,         \* byte values
  LastHandle,   \* the largest handle number, 65535 in the code
  Counts,       \* how many bytes a program asks for
  SeekOffsets,
  MaxPosition,  \* the largest place seek reports, 2^32 - 1 in the code
  MaxLength,    \* bound of the model: no write ends past it
  NoFile

ASSUME HandleAssumption == LastHandle \in Nat /\ LastHandle >= 5

ASSUME FilesAssumption ==
  /\ NoFile \notin Seq(Data \cup {0})
  /\ Counts \subseteq Nat /\ SeekOffsets \subseteq Int /\ MaxPosition \in Nat /\ MaxLength \in Nat

VARIABLES
  disk,     \* disk[f]: the bytes the host has for f, or NoFile
  files,    \* files_: the stream of every open handle
  returned, \* what the last call returned
  mixed     \* auxiliary: files that a writer has shared with another handle
            \* since they were last closed by all

fileVars == <<disk, files, returned, mixed>>

Handles == 5 .. LastHandle

(* The promise, for what a program sees of this table.                     *)
Place(s) == s.at - Len(s.ahead) + Len(s.behind)
Writers(f) == { h \in DOMAIN files : files[h].file = f /\ files[h].writable }
P == INSTANCE DosFiles WITH contents <- disk, open <- files
Flushed(f, s) == IF s.behind = <<>> THEN disk[f] ELSE P!PutAt(disk[f], s.at, s.behind)
Seen(f) == IF Writers(f) = {} THEN disk[f] ELSE Flushed(f, files[CHOOSE h \in Writers(f) : TRUE])
Dos == INSTANCE DosFiles WITH
  contents <- [f \in Files |-> Seen(f)],
  open <- [h \in DOMAIN files |->
            [file |-> files[h].file, writable |-> files[h].writable, place |-> Place(files[h])]]

FilesInit ==
  /\ disk \in [Files -> {NoFile} \cup { <<d>> : d \in Data }]
  /\ files = <<>> /\ returned = P!Refused /\ mixed = {}

----------------------------------------------------------------------------
Holders(f, table) == { h \in DOMAIN table : table[h].file = f }
Shared(table) ==
  { f \in Files : \E h, g \in Holders(f, table) : h # g /\ table[h].writable }
Mixing(disturbed, table) ==
  mixed' = { f \in mixed \cup disturbed \cup Shared(table) : Holders(f, table) # {} }

LowestFree(table) == CHOOSE h \in Handles \ table : \A g \in Handles \ table : h <= g

Stream(f, writable) ==
  [file |-> f, writable |-> writable, at |-> 0, ahead |-> <<>>, behind |-> <<>>, failed |-> FALSE]

Refuse == returned' = P!Refused /\ UNCHANGED <<disk, files, mixed>>
Update(h, s) == files' = [files EXCEPT ![h] = s] /\ UNCHANGED mixed

Emplace(f, writable) ==
  LET h == LowestFree(DOMAIN files)
  IN  /\ files' = [g \in DOMAIN files \cup {h} |-> IF g = h THEN Stream(f, writable) ELSE files[g]]
      /\ returned' = P!Ok(<<h>>)
      /\ Mixing({}, files')

(* 3Dh.                                                                    *)
open_read(f) ==
  \/ disk[f] = NoFile /\ Refuse
  \/ disk[f] # NoFile /\ Handles \subseteq DOMAIN files /\ Refuse
  \/ disk[f] # NoFile /\ ~(Handles \subseteq DOMAIN files) /\ Emplace(f, FALSE) /\ UNCHANGED disk

(* 3Ch: the file is emptied before the table is searched.                  *)
open_write(f) ==
  /\ disk' = [disk EXCEPT ![f] = <<>>]
  /\ \/ ~(Handles \subseteq DOMAIN files) /\ Emplace(f, TRUE)
     \/ /\ Handles \subseteq DOMAIN files
        /\ returned' = P!Refused /\ UNCHANGED files
        /\ Mixing({f}, files)

(* A path that does not resolve, or that the host does not open.           *)
open_fails == Refuse

(* 3Fh.  What is missing in the read-ahead is fetched from the host, and   *)
(* perhaps more; a stream that cannot fetch enough fails.                  *)
PlaceAfter(at, fetched, count) == at + count  \* slip
FetchedTo(at, fetched, count) == at + fetched

read(h, count) ==
  LET s    == files[h]
      rest == P!BytesFrom(disk[s.file], s.at)
  IN  /\ UNCHANGED disk
      /\ \/ s.writable /\ Refuse
         \/ ~s.writable /\ s.failed /\ returned' = P!Ok(<<>>) /\ UNCHANGED <<files, mixed>>
         \/ /\ ~s.writable /\ ~s.failed /\ count <= Len(s.ahead)
            /\ returned' = P!Ok(SubSeq(s.ahead, 1, count))
            /\ Update(h, [s EXCEPT !.ahead = P!BytesFrom(@, count)])
         \/ /\ ~s.writable /\ ~s.failed /\ count > Len(s.ahead)
            /\ \E fetched \in 0 .. Len(rest) :
                 LET all == s.ahead \o SubSeq(rest, 1, fetched)
                 IN  /\ fetched = Len(rest) \/ count <= Len(all)
                     /\ returned' = P!Ok(IF count <= Len(all) THEN SubSeq(all, 1, count) ELSE all)
                     /\ Update(h, [s EXCEPT !.ahead = P!BytesFrom(all, count), !.at = FetchedTo(@, fetched, count),
                                            !.failed = count > Len(all)])

(* 40h.                                                                    *)
write(h, data) ==
  LET s == [files[h] EXCEPT !.behind = @ \o data]
  IN  \/ ~s.writable /\ Refuse
      \/ /\ s.writable /\ Place(s) <= MaxLength
         /\ returned' = P!Ok(<<Len(data)>>)
         /\ \/ Update(h, s) /\ UNCHANGED disk
            \/ /\ disk' = [disk EXCEPT ![s.file] = Flushed(s.file, s)]
               /\ Update(h, [s EXCEPT !.at = Place(s), !.behind = <<>>])

(* 42h.  A seek clears the stream; one that moves passes on what was       *)
(* written and forgets what was read ahead, whatever it then reports; the  *)
(* host refuses to move before the start.                                  *)
Forgetful(s) == s  \* slip
Cleared(s) == [s EXCEPT !.failed = FALSE]

seek(h, offset, origin) ==
  LET s      == Cleared(files[h])
      moves  == ~(origin = 1 /\ offset = 0)
      bytes  == IF moves THEN Flushed(s.file, s) ELSE disk[s.file]
      target == offset + (CASE origin = 0 -> 0 [] origin = 1 -> Place(s) [] origin = 2 -> Len(bytes))
  IN  /\ disk' = [disk EXCEPT ![s.file] = bytes]
      /\ returned' = IF 0 <= target /\ target <= MaxPosition THEN P!Ok(<<target>>) ELSE P!Refused
      /\ Update(h, IF ~moves THEN s
                   ELSE IF target >= 0 THEN [s EXCEPT !.at = target, !.ahead = <<>>, !.behind = <<>>]
                   ELSE IF s.writable THEN [s EXCEPT !.at = Place(s), !.behind = <<>>] ELSE s)

(* 3Eh: the stream is destroyed, which passes on what was written.         *)
Final(h) == Flushed(files[h].file, files[h])

close(h) ==
  /\ disk' = [disk EXCEPT ![files[h].file] = Final(h)]
  /\ files' = [g \in DOMAIN files \ {h} |-> files[g]]
  /\ returned' = P!Ok(<<>>)
  /\ Mixing({}, files')

(* A handle that is not in the table, an origin above 2, another function. *)
InvalidRequest == Refuse

FilesNext ==
  \/ \E f \in Files : open_read(f) \/ open_write(f)
  \/ open_fails
  \/ \E h \in DOMAIN files :
       \/ \E n \in Counts : read(h, n)
       \/ \E d \in { <<>> } \cup { <<d>> : d \in Data } : write(h, d)
       \/ \E o \in SeekOffsets, origin \in 0 .. 2 : Place(files[h]) + o <= MaxPosition + 1 /\ seek(h, o, origin)
       \/ close(h)
  \/ InvalidRequest

FilesSpec == FilesInit /\ [][FilesNext]_fileVars

----------------------------------------------------------------------------
(* As long as no file is shared with a writer, the buffers are true: what  *)
(* a stream has read ahead is what the file has there, a failed stream is  *)
(* at the end, and nothing is written behind by a reader or read ahead by  *)
(* a writer; and every open file exists.                                   *)
StreamsAgree ==
  \A h \in DOMAIN files :
    LET s == files[h]
    IN  /\ h \in Handles /\ disk[s.file] # NoFile
        /\ s.ahead = <<>> \/ s.behind = <<>>
        /\ s.behind # <<>> => s.writable
        /\ s.ahead # <<>> \/ s.failed => ~s.writable
        /\ s.file \notin mixed /\ s.ahead # <<>> =>
             /\ s.at <= Len(disk[s.file])
             /\ s.ahead = SubSeq(disk[s.file], s.at - Len(s.ahead) + 1, s.at)
        /\ s.file \notin mixed /\ s.failed => s.ahead = <<>> /\ s.at >= Len(disk[s.file])

(* Whatever the buffers hold back, a program whose handles do not share a  *)
(* file with a writer sees files and places as if every call took effect   *)
(* at once: what it writes is there when it closes and opens again, reads  *)
(* return the bytes at the handle's place, and refused calls have no       *)
(* effect, but for the two late refusals.                                  *)
ImplementsDosFiles == Dos!Init /\ [][mixed \cup mixed' = {} => [Dos!Next]_(Dos!vars)]_fileVars

(* A refused call has no effect: neither creating a file when no handle is *)
(* left, nor a seek past the largest position, changes anything.           *)
RefusalsHarmless ==
  [][returned' = P!Refused => UNCHANGED disk /\ \A h \in DOMAIN files : Place(files'[h]) = Place(files[h])]_fileVars
=============================================================================
