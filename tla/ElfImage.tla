------------------------------ MODULE ElfImage ------------------------------
(***************************************************************************)
(* elf_writer: the layout of an emitted executable.                        *)
(*                                                                         *)
(* emit_action_program_executable goes over its actions twice: once to     *)
(* size the image (headers, code, the code that exits, payloads), once to  *)
(* copy each action's code and payload to where two cursors have got.  The *)
(* copies are unchecked, so the two passes must agree.                     *)
(* emit_syscall_program_executable does the same for writes, then reads.   *)
(*                                                                         *)
(* A definition marked "slip" is used nowhere: it is a plausible mistake   *)
(* in the definition after it, which some property must tell apart.        *)
(***************************************************************************)
EXTENDS Integers, Sequences, SequencesExt

CONSTANTS
  Payloads,      \* the payload sizes of the actions
  MaxActions     \* bound: actions in a program

ASSUME PayloadsAssumption == Payloads \subseteq Nat /\ MaxActions \in Nat

Kinds == {"write", "read", "open", "close"}

VARIABLES
  actions,
  pass,          \* "sizing", "copying", "done"
  index,
  code_size, total_payload,
  current_code, current_payload,
  copied         \* auxiliary: the byte ranges written so far, and what for

layoutVars == <<actions, pass, index, code_size, total_payload, current_code, current_payload, copied>>

code_offset == 64 + 56
exit_code_size == 12
fd_move_code_size == 3

BlockSize(kind) == IF kind = "close" THEN 12 ELSE 24

(* A file name is stored with the NUL that ends it.                        *)
PayloadWithoutNul(a) == IF a.kind = "close" THEN 0 ELSE a.size  \* slip
action_payload_size(a) ==
  CASE a.kind = "close" -> 0
    [] a.kind = "open" -> a.size + 1
    [] OTHER -> a.size

action_code_size(a) == BlockSize(a.kind) + (IF a.kind = "open" THEN fd_move_code_size ELSE 0)

Bytes(from, size, use) == [from |-> from, to |-> from + size, use |-> use, of |-> index]
Overlap(r, s) == r.from < s.to /\ s.from < r.to

payload_start == code_offset + code_size + exit_code_size
image_size == payload_start + total_payload

LayoutInit ==
  /\ actions \in SeqOf([kind : Kinds, size : Payloads], MaxActions)
  /\ pass = "sizing" /\ index = 1
  /\ code_size = 0 /\ total_payload = 0
  /\ current_code = code_offset /\ current_payload = 0
  /\ copied = {}

Size ==
  /\ pass = "sizing" /\ index <= Len(actions)
  /\ code_size' = code_size + action_code_size(actions[index])
  /\ total_payload' = total_payload + action_payload_size(actions[index])
  /\ index' = index + 1
  /\ UNCHANGED <<actions, pass, current_code, current_payload, copied>>

Allocate ==
  /\ pass = "sizing" /\ index > Len(actions)
  /\ pass' = "copying" /\ index' = 1
  /\ current_payload' = payload_start
  /\ copied' = {Bytes(0, code_offset, "header")}
  /\ UNCHANGED <<actions, code_size, total_payload, current_code>>

(* The block's instruction that addresses the payload holds the distance   *)
(* from the byte behind its displacement: 12 into an open, 17 otherwise.   *)
Displaced(a) == IF a.kind = "open" THEN 12 ELSE 17
displacement(a) == current_payload - (current_code + Displaced(a))

(* The bytes copied for an action: its block, for an open the fd move      *)
(* behind it, and what the block addresses.  A read only reserves.         *)
CopiedBytes(a) ==
  {Bytes(current_code, BlockSize(a.kind), "code")}
    \cup (IF a.kind = "open"
          THEN {Bytes(current_code + BlockSize(a.kind), fd_move_code_size, "code")} ELSE {})
    \cup (IF a.kind = "close" THEN {}
          ELSE {Bytes(current_code + Displaced(a) + displacement(a),
                      a.size + (IF a.kind = "open" THEN 1 ELSE 0), "data")})

Copy ==
  /\ pass = "copying" /\ index <= Len(actions)
  /\ LET a == actions[index]
     IN  /\ copied' = copied \cup CopiedBytes(a)
         /\ current_code' = current_code + BlockSize(a.kind)
                              + (IF a.kind = "open" THEN fd_move_code_size ELSE 0)
         /\ current_payload' = current_payload + action_payload_size(a)
  /\ index' = index + 1
  /\ UNCHANGED <<actions, pass, code_size, total_payload>>

CopyExit ==
  /\ pass = "copying" /\ index > Len(actions)
  /\ copied' = copied \cup {Bytes(current_code, exit_code_size, "code")}
  /\ current_code' = current_code + exit_code_size
  /\ pass' = "done"
  /\ UNCHANGED <<actions, index, code_size, total_payload, current_payload>>

Emitted == pass = "done" /\ UNCHANGED layoutVars

LayoutNext == Size \/ Allocate \/ Copy \/ CopyExit \/ Emitted
LayoutSpec == LayoutInit /\ [][LayoutNext]_layoutVars

----------------------------------------------------------------------------
TypeOK ==
  /\ \A i \in DOMAIN actions : actions[i].kind \in Kinds /\ actions[i].size \in Payloads
  /\ pass \in {"sizing", "copying", "done"}
  /\ index \in 1 .. Len(actions) + 1
  /\ code_size \in 0 .. 27 * Len(actions)
  /\ total_payload \in Nat
  /\ current_code \in code_offset .. payload_start
  /\ pass # "sizing" => current_payload \in payload_start .. image_size

(* Every copy stays inside the image the first pass sized, and no copy     *)
(* overwrites what another has written.                                    *)
CopiesFit ==
  /\ TypeOK
  /\ \A r \in copied : 0 <= r.from /\ r.to <= image_size
  /\ \A r, s \in copied : r # s => ~Overlap(r, s)

=============================================================================
