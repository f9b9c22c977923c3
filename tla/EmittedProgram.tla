---------------------------- MODULE EmittedProgram ----------------------------
(***************************************************************************)
(* The program the branching compiler emits, from main() on: it copies and *)
(* relocates the image (write_main), and then its code calls the emitted   *)
(* INT 21h services for files and memory (emit_int21_runtime) and executes *)
(* comparisons and string instructions on the emitted flag word.           *)
(*                                                                         *)
(* The kernel gives an open the lowest free descriptor, or none.  File     *)
(* calls are followed for the programs in FileCallers only, memory calls   *)
(* for those in BlockCallers, instructions for those in FlagCallers.       *)
(*                                                                         *)
(* A definition marked "slip" is used nowhere: it is a plausible mistake   *)
(* in the definition after it, which some property must tell apart.        *)
(***************************************************************************)
EXTENDS Loader, StringOps, FiniteSets

CONSTANTS
  PspSegment,   \* mz_load_segment, 1000h
  ComOrigin,    \* where a COM image is copied to, 100h
  MemorySize,   \* dos_memory_size
  FirstBlock,   \* the first segment 48h grants, 2000h
  TableSize,    \* entries of handle_to_fd, 16
  HandleMask,   \* handles are taken modulo 256
  Names,        \* files a program opens
  Wants,        \* sizes it asks 48h and 4Ah for, in paragraphs
  FileCallers,  \* bound of the model
  BlockCallers, \* bound of the model
  FlagCallers,  \* bound of the model
  MaxOpens,     \* bound of the model: opens of a program
  MaxGrants     \* bound of the model: blocks granted to a program

ASSUME ServicesAssumption ==
  /\ TableSize \in Nat /\ TableSize > 3 /\ HandleMask \in Nat /\ HandleMask >= TableSize
  /\ PspSegment \in Nat /\ ComOrigin \in Nat /\ FirstBlock \in 1 .. Byte * Byte - 1
  /\ -1 \notin Names /\ Wants \subseteq Nat
  /\ MaxOpens \in Nat /\ MaxGrants \in Nat

VARIABLES
  mem,          \* the bytes of mem[] that are set, by address
  done,         \* relocations main() has applied; -1 before the copy
  next_handle,  \* next_fake_handle
  handle_to_fd,
  kernel,       \* descriptor -> name, for the open descriptors above 2
  opened,       \* auxiliary: [name, live] of every handle an open returned
  next_seg,     \* where 48h grants next
  blocks        \* auxiliary: the blocks granted, as the program has resized them

startup == <<file, image, mem, done>>
files == <<next_handle, handle_to_fd, kernel, opened>>
memory == <<next_seg, blocks>>
machine == <<vars, string>>
emitted == <<startup, files, memory, machine>>

Nowhere == -1

EmittedInit ==
  /\ file \in InputFiles /\ image = NoImage /\ mem = <<>> /\ done = -1
  /\ next_handle = 3 /\ handle_to_fd = [h \in 0 .. TableSize - 1 |-> -1]
  /\ kernel = <<>> /\ opened = <<>>
  /\ next_seg = FirstBlock /\ blocks = <<>>
  /\ StringsInit

----------------------------------------------------------------------------
(* write_main.                                                             *)
LoadSegment(i) == (PspSegment + i.paragraphs) % Word
Base(i) == IF i.mz THEN LoadSegment(i) * Paragraph ELSE ComOrigin

copy_image ==
  /\ image # NoImage /\ done = -1 /\ done' = 0
  /\ mem' = [a \in { Base(image) + k : k \in DOMAIN image.bytes } |-> image.bytes[a - Base(image)]]
  /\ UNCHANGED <<file, image, files, memory, machine>>

AddSegment(segment) == segment - PspSegment  \* slip
Added(segment) == segment

relocate_word ==
  /\ done >= 0 /\ done < Len(image.relocations) /\ done' = done + 1
  /\ mem' = Relocate(mem, Linear(image.relocations[done + 1]) + Base(image), Added(LoadSegment(image)))
  /\ UNCHANGED <<file, image, files, memory, machine>>

Running == image # NoImage /\ done = Len(image.relocations)
Within(callers) == Running /\ file \in callers /\ UNCHANGED startup
Calls(callers) == Within(callers) /\ UNCHANGED machine

----------------------------------------------------------------------------
(* 3Dh: a handle is numbered and returned whether or not the open worked.  *)
FreeDescriptor == CHOOSE d \in 3 .. 3 + MaxOpens :
                    d \notin DOMAIN kernel /\ \A e \in 3 .. d - 1 : e \in DOMAIN kernel
Entered(fd) == IF next_handle < TableSize THEN [handle_to_fd EXCEPT ![next_handle] = fd] ELSE handle_to_fd
Numbered(name) ==
  /\ opened' = [h \in DOMAIN opened \cup {next_handle} |->
                  IF h = next_handle THEN [name |-> name, live |-> TRUE] ELSE opened[h]]
  /\ next_handle' = next_handle + 1

open(name) ==
  /\ Calls(FileCallers) /\ next_handle < 3 + MaxOpens /\ UNCHANGED memory
  /\ \/ /\ kernel' = [d \in DOMAIN kernel \cup {FreeDescriptor} |->
                        IF d = FreeDescriptor THEN name ELSE kernel[d]]
        /\ handle_to_fd' = Entered(FreeDescriptor) /\ Numbered(name)
     \/ handle_to_fd' = Entered(-1) /\ Numbered(Nowhere) /\ UNCHANGED kernel

(* 3Eh.                                                                    *)
KeepsEntry(h) == handle_to_fd  \* slip
Dropped(h) == [handle_to_fd EXCEPT ![h] = -1]

close(handle) ==
  LET h == handle % HandleMask
  IN  /\ Calls(FileCallers) /\ UNCHANGED <<memory, next_handle>>
      /\ opened' = [opened EXCEPT ![handle].live = FALSE]
      /\ IF h >= 3 /\ h < TableSize /\ handle_to_fd[h] >= 0
         THEN /\ kernel' = [d \in DOMAIN kernel \ {handle_to_fd[h]} |-> kernel[d]]
              /\ handle_to_fd' = Dropped(h)
         ELSE UNCHANGED <<kernel, handle_to_fd>>

(* 3Fh and 40h: the descriptor a transfer goes to, -1 for none.            *)
ReadsFrom(handle) ==
  LET h == handle % HandleMask IN IF h >= 3 /\ h < TableSize THEN handle_to_fd[h] ELSE 0
WritesTo(handle) ==
  LET h == handle % HandleMask
  IN  IF h = 2 THEN 2 ELSE IF h >= 3 /\ h < TableSize THEN handle_to_fd[h] ELSE 1

(* 48h: never refused but for a size of zero; 49h frees nothing; 4Ah       *)
(* agrees to every size.                                                   *)
OneShort(want) == want - 1  \* slip
Advance(want) == want

allocate(want) ==
  /\ Calls(BlockCallers) /\ UNCHANGED files
  /\ IF want = 0 THEN UNCHANGED memory
     ELSE /\ Len(blocks) < MaxGrants
          /\ blocks' = Append(blocks, [segment |-> next_seg, size |-> want, granted |-> want])
          /\ next_seg' = (next_seg + Advance(want)) % Word

release == Calls(BlockCallers) /\ UNCHANGED <<files, memory>>

resize(b, want) ==
  /\ Calls(BlockCallers) /\ UNCHANGED <<files, next_seg>>
  /\ blocks' = [blocks EXCEPT ![b].size = want]

(* Everything else the program executes.                                   *)
Execute == Within(FlagCallers) /\ StringsNext /\ UNCHANGED <<files, memory>>

EmittedNext ==
  \/ load_bytes /\ UNCHANGED <<mem, done, files, memory, machine>>
  \/ copy_image \/ relocate_word
  \/ \E name \in Names : open(name)
  \/ \E handle \in DOMAIN opened : close(handle)
  \/ \E want \in Wants : allocate(want)
  \/ release
  \/ \E b \in DOMAIN blocks, want \in Wants : resize(b, want)
  \/ Execute

EmittedSpec == EmittedInit /\ [][EmittedNext]_emitted

----------------------------------------------------------------------------
(* When main() enters the program, memory holds what apply_relocations     *)
(* makes of the image for the same segment, overlapping entries included:  *)
(* every word of the table that overlaps no other has moved by the segment *)
(* once per entry, and every byte outside these words is the file's.       *)
MainRelocates ==
  Running =>
    LET Place(i) == Base(image) + Linear(image.relocations[i])
        Entries == DOMAIN image.relocations
        Times(i) == Cardinality({ j \in Entries : Place(j) = Place(i) })
    IN  /\ DOMAIN mem = { Base(image) + k : k \in DOMAIN image.bytes }
        /\ image.mz => \A k \in DOMAIN image.bytes :
             mem[Base(image) + k] = apply_relocations(image, LoadSegment(image))[k]
        /\ \A i \in Entries :
             (\A j \in Entries : Place(j) - Place(i) \notin {-1, 1}) =>
               mem[Place(i)] + Byte * mem[Place(i) + 1] =
                 (file.fill + Byte * file.fill + Times(i) * (PspSegment + file.paragraphs)) % Word
        /\ \A a \in DOMAIN mem :
             (\A i \in Entries : a \notin {Place(i), Place(i) + 1}) => mem[a] = file.fill

(* A handle in the table reaches the file it was returned for until it is  *)
(* closed, a failed or closed one reaches nothing whatever is opened later *)
(* on the same descriptor, and only handles beyond the table leave theirs  *)
(* open -- until handles are numbered so high that they alias these.       *)
HandlesReachTheirFiles ==
  next_handle <= HandleMask + 3 =>
  /\ \A h \in DOMAIN opened :
       h < TableSize =>
         /\ ReadsFrom(h) = WritesTo(h)
         /\ IF opened[h].live /\ opened[h].name # Nowhere
            THEN ReadsFrom(h) \in DOMAIN kernel /\ kernel[ReadsFrom(h)] = opened[h].name
            ELSE ReadsFrom(h) = -1
         /\ \A g \in DOMAIN opened \ {h} : g < TableSize /\ ReadsFrom(h) # -1 => ReadsFrom(g) # ReadsFrom(h)
  /\ Cardinality(DOMAIN kernel) =
       Cardinality({ h \in DOMAIN opened :
                       opened[h].name # Nowhere /\ (opened[h].live \/ h >= TableSize) })

(* The blocks a program holds do not overlap each other or its image, as   *)
(* long as it grows none, no grant has wrapped around, and the image ends  *)
(* below the first of them.                                                *)
Span(b) == b.segment .. b.segment + b.size - 1
BlocksApart ==
  /\ \A i \in DOMAIN blocks : blocks[i].size <= blocks[i].granted
  /\ \A i \in DOMAIN blocks : FirstBlock <= blocks[i].segment /\ blocks[i].segment + blocks[i].granted <= Word
  /\ \A a \in DOMAIN mem : a < FirstBlock * Paragraph
  =>
  \A i, j \in DOMAIN blocks :
    /\ i # j => Span(blocks[i]) \cap Span(blocks[j]) = {}
    /\ \A a \in DOMAIN mem : a \div Paragraph \notin Span(blocks[i])

(* mem has dos_memory_size bytes: the image and the blocks are in it.      *)
InMemory ==
  /\ \A a \in DOMAIN mem : a < MemorySize
  /\ \A i \in DOMAIN blocks : (blocks[i].segment + blocks[i].size) * Paragraph <= MemorySize

(* A handle beyond the table reaches the file it was returned for.         *)
AllHandlesReach ==
  \A h \in DOMAIN opened : opened[h].live /\ opened[h].name # Nowhere => ReadsFrom(h) >= 3
=============================================================================
