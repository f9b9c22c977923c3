-------------------------------- MODULE Loader --------------------------------
(***************************************************************************)
(* binary_loader: which files load_bytes accepts, the image it makes of    *)
(* them, and the relocation of an MZ image to a load segment.              *)
(*                                                                         *)
(* A file is its size, the header fields parse_mz reads, the entries of    *)
(* the relocation table, and one byte value that fills the rest.  The      *)
(* units of the format are constants.                                      *)
(*                                                                         *)
(* A definition marked "slip" is used nowhere: it is a plausible mistake   *)
(* in the definition after it, which some property must tell apart.        *)
(***************************************************************************)
EXTENDS Integers, Sequences

CONSTANTS
  InputFiles,
  Byte,          \* values of a byte, 256; a word has Byte * Byte
  Paragraph,     \* bytes in a paragraph, 16
  PageSize,      \* bytes in a page, 512
  MinimumHeader, \* bytes of the fixed header, 28
  EntrySize,     \* bytes of a relocation entry, 4
  NoImage        \* what load_bytes returns instead of an image

ASSUME UnitsAssumption ==
  /\ Byte \in Nat \ {0, 1} /\ Paragraph \in Nat \ {0} /\ PageSize \in Nat \ {0}
  /\ MinimumHeader \in Nat \ {0} /\ EntrySize \in Nat \ {0}

Addresses == [segment : Nat, offset : Nat]

(* A file has an entry for each that its header counts, read or not.       *)
ASSUME FilesAssumption ==
  \A f \in InputFiles :
    /\ f \in [mz : BOOLEAN, size : Nat, last_page : Nat, pages : Nat, count : Nat,
               paragraphs : Nat, ip : Nat, cs : Nat, table : Nat, entries : Seq(Addresses),
               fill : 0 .. Byte - 1]
    /\ f.count <= Len(f.entries)

VARIABLES file, image

Word == Byte * Byte

----------------------------------------------------------------------------
DeclaredSize(f) == (f.pages - 1) * PageSize + (IF f.last_page = 0 THEN PageSize ELSE f.last_page)
HeaderSize(f) == f.paragraphs * Paragraph
ModuleSize(f) == DeclaredSize(f) - HeaderSize(f)
Linear(address) == address.segment * Paragraph + address.offset

ByteOutside(offset, size) == offset > size \/ size - offset < 1  \* slip
WordOutside(offset, size) == offset > size \/ size - offset < 2

parse_mz_fails(f) ==
  \/ f.size < MinimumHeader
  \/ f.last_page > PageSize \/ f.pages = 0 \/ (f.pages = 1 /\ f.last_page = 0)
  \/ DeclaredSize(f) > f.size \/ HeaderSize(f) < MinimumHeader \/ HeaderSize(f) > DeclaredSize(f)
  \/ f.table > HeaderSize(f) \/ f.count > (HeaderSize(f) - f.table) \div EntrySize
  \/ \E i \in 1 .. f.count : WordOutside(Linear(f.entries[i]), ModuleSize(f))
  \/ f.ip >= ModuleSize(f)

load_bytes_fails(f) ==
  \/ f.size = 0
  \/ f.mz /\ parse_mz_fails(f)
  \/ ~f.mz /\ f.size > Word - 1

Image(f) ==
  IF f.mz
  THEN [mz |-> TRUE, bytes |-> [i \in 0 .. ModuleSize(f) - 1 |-> f.fill],
        entry |-> [segment |-> f.cs, offset |-> f.ip], paragraphs |-> f.paragraphs,
        relocations |-> SubSeq(f.entries, 1, f.count)]
  ELSE [mz |-> FALSE, bytes |-> [i \in 0 .. f.size - 1 |-> f.fill],
        entry |-> [segment |-> 0, offset |-> 0], paragraphs |-> 0, relocations |-> <<>>]

ASSUME ImageAssumption == \A f \in InputFiles : NoImage # Image(f)

(* program_image::entry_offset: an index into the bytes.                   *)
entry_offset(i) == Linear(i.entry)

load_bytes ==
  /\ image = NoImage /\ ~load_bytes_fails(file)
  /\ image' = Image(file) /\ UNCHANGED file

(* The word at a place plus a segment, without the carry out of the word.  *)
Relocate(bytes, at, segment) ==
  LET value == (bytes[at] + Byte * bytes[at + 1] + segment) % Word
  IN  [bytes EXCEPT ![at] = value % Byte, ![at + 1] = value \div Byte]

(* The entries of the table one after another: words may overlap.          *)
apply_relocations(i, segment) ==
  LET after[k \in 0 .. Len(i.relocations)] ==
        IF k = 0 THEN i.bytes
        ELSE Relocate(after[k - 1], Linear(i.relocations[k]), segment)
  IN  after[Len(i.relocations)]

----------------------------------------------------------------------------
(* What load_bytes accepts it has read within the file, and relocating     *)
(* what it returns keeps within the module: the relocation table lies in   *)
(* the header, the header in the file, every relocated word in the bytes.  *)
LoadsInBounds ==
  image # NoImage /\ image.mz =>
    /\ MinimumHeader <= HeaderSize(file) /\ HeaderSize(file) < file.size
    /\ file.table + file.count * EntrySize <= HeaderSize(file)
    /\ \A i \in DOMAIN image.relocations :
         {Linear(image.relocations[i]), Linear(image.relocations[i]) + 1} \subseteq DOMAIN image.bytes

(* The loader validates "the initial MZ entry point": the code of an       *)
(* accepted image begins inside its bytes.                                 *)
EntryInModule == image # NoImage => entry_offset(image) \in DOMAIN image.bytes
=============================================================================
