---------------------------- MODULE FileActions ----------------------------
(***************************************************************************)
(* File and console services of the straight-line compiler, from the       *)
(* interrupt the compiler meets to the system call the recompiled program  *)
(* makes.                                                                  *)
(*                                                                         *)
(* While compiling, translate_block answers DOS calls itself: an open gets *)
(* the next "fake" handle at once and leaves an open action behind, a      *)
(* write leaves a write action whose descriptor is the fake handle, a      *)
(* close and a read leave nothing.  Characters for the console are kept in *)
(* a list of their own.  compile then emits the actions if there are any,  *)
(* and the console list otherwise.                                         *)
(*                                                                         *)
(* The running program executes its actions in order and ignores every     *)
(* result.  Linux answers an open with the lowest free descriptor, or      *)
(* fails.                                                                  *)
(*                                                                         *)
(* A definition marked "slip" is used nowhere: it is a plausible mistake   *)
(* in the definition after it, which some property must tell apart.        *)
(***************************************************************************)
EXTENDS Integers, Sequences, FiniteSets

CONSTANTS
  Files,          \* the names opened
  HandleValues,   \* the values of BX when a service is called
  MaxCalls        \* bound: DOS calls a program makes before it exits

ASSUME CallsAssumption == MaxCalls \in Nat

VARIABLES
  phase,          \* "compiling", "rejected", "running", "exited"
  calls,          \* DOS calls so far
  actions,        \* ts.actions
  writes,         \* ts.writes: console output
  handles,        \* handle_for_bx: its keys, with what each one names
  nextFake,       \* next_fake_handle
  payloads,       \* the keys of read_payloads
  pc,             \* actions (or console writes) already executed
  fds,            \* the process's descriptor table: what each one names
  returned,       \* what the last open system call returned
  wanted,         \* auxiliary: the output the DOS program makes
  delivered       \* auxiliary: the output the recompiled program makes

compileVars == <<calls, actions, writes, handles, nextFake, payloads, wanted>>
runVars == <<pc, fds, returned, delivered>>
vars == <<phase, compileVars, runVars>>

stdout == 1
stderr == 2
Failed == -1
FirstFake == 3

(* A payload is named by the number of the call that made it.              *)
Output(to, data) == [to |-> to, data |-> data]
Open(file, writable) == [kind |-> "open", file |-> file, writable |-> writable]
Write(fd, data) == [kind |-> "write", fd |-> fd, data |-> data]
Named(file, writable) == [file |-> file, writable |-> writable]
Entered(table, key, name) == [k \in DOMAIN table \cup {key} |-> IF k = key THEN name ELSE table[k]]

Init ==
  /\ phase = "compiling" /\ calls = 0
  /\ actions = <<>> /\ writes = <<>>
  /\ handles = <<>> /\ nextFake = FirstFake /\ payloads = {}
  /\ pc = 0 /\ returned = 0
  /\ fds = [fd \in 0 .. 2 |-> Named(fd, TRUE)]
  /\ wanted = <<>> /\ delivered = <<>>

----------------------------------------------------------------------------
(* The compiler meets INT 21h or INT 10h.                                  *)
Call ==
  /\ phase = "compiling"
  /\ calls < MaxCalls
  /\ calls' = calls + 1
  /\ UNCHANGED runVars

(* AH=3Dh.  AL=0 also loads the file if it is there when compiling.        *)
ReusedHandle == CHOOSE h \in FirstFake .. nextFake :  \* slip
                  h \notin DOMAIN handles /\ FirstFake .. h - 1 \subseteq DOMAIN handles
FakeHandle == nextFake

OpenFile(file, writable, present) ==
  /\ Call
  /\ actions' = Append(actions, Open(file, writable))
  /\ handles' = Entered(handles, FakeHandle, Named(file, writable))
  /\ nextFake' = nextFake + 1
  /\ payloads' = IF ~writable /\ present THEN payloads \cup {FakeHandle} ELSE payloads
  /\ UNCHANGED <<phase, writes, wanted>>

(* AH=3Eh.  No action is left for the recompiled program.                  *)
CloseHandle(h) ==
  /\ Call
  /\ \/ /\ h \in {stdout, stderr}
        /\ UNCHANGED <<phase, handles>>
     \/ /\ h \in DOMAIN handles
        /\ handles' = [k \in DOMAIN handles \ {h} |-> handles[k]]
        /\ UNCHANGED phase
     \/ /\ h \notin DOMAIN handles \cup {stdout, stderr}
        /\ phase' = "rejected"
        /\ UNCHANGED handles
  /\ UNCHANGED <<actions, writes, nextFake, payloads, wanted>>

(* What handle h names for the DOS program.                                *)
Meant(h) == IF h \in {stdout, stderr} THEN Named(h, TRUE) ELSE handles[h]

(* AH=40h.                                                                 *)
WriteHandle(h) ==
  /\ Call
  /\ \/ /\ h \in DOMAIN handles \cup {stdout, stderr}
        /\ actions' = Append(actions, Write(h, calls))
        /\ wanted' = IF Meant(h).writable THEN Append(wanted, Output(Meant(h).file, calls)) ELSE wanted
        /\ UNCHANGED phase
     \/ /\ h \notin DOMAIN handles \cup {stdout, stderr}
        /\ phase' = "rejected"
        /\ UNCHANGED <<actions, wanted>>
  /\ UNCHANGED <<writes, handles, nextFake, payloads>>

(* AH=3Fh: answered from the bytes loaded when the file was opened, also   *)
(* after the handle was closed.                                            *)
ReadHandle(h, count) ==
  /\ Call
  /\ phase' = IF count = 0 \/ h \notin payloads THEN "rejected" ELSE phase
  /\ UNCHANGED <<actions, writes, handles, nextFake, payloads, wanted>>

(* INT 21h AH=09h, INT 10h AH=0Eh to descriptor 1, INT 21h AH=02h to 2.    *)
Console(fd) ==
  /\ Call
  /\ writes' = Append(writes, Write(fd, calls))
  /\ wanted' = Append(wanted, Output(fd, calls))
  /\ UNCHANGED <<phase, actions, handles, nextFake, payloads>>

(* Any other service, and a string without its end.                        *)
Unsupported ==
  /\ Call
  /\ phase' = "rejected"
  /\ UNCHANGED <<actions, writes, handles, nextFake, payloads, wanted>>

(* AH=4Ch: compile emits the program; here it starts to run.               *)
Emitted == IF actions # <<>> THEN actions ELSE writes

Exit ==
  /\ phase = "compiling"
  /\ phase' = "running"
  /\ UNCHANGED <<compileVars, runVars>>

----------------------------------------------------------------------------
(* The recompiled program.                                                 *)
Running(kind) == phase = "running" /\ pc < Len(Emitted) /\ Emitted[pc + 1].kind = kind
Action == Emitted[pc + 1]
Proceed == pc' = pc + 1 /\ UNCHANGED <<phase, compileVars>>

LowestFree == CHOOSE fd \in 0 .. Cardinality(DOMAIN fds) :
                fd \notin DOMAIN fds /\ \A e \in 0 .. fd - 1 : e \in DOMAIN fds

OpenSyscall ==
  /\ Running("open")
  /\ fds' = Entered(fds, LowestFree, Named(Action.file, Action.writable))
  /\ returned' = LowestFree
  /\ Proceed /\ UNCHANGED delivered

OpenSyscallFails ==
  /\ Running("open")
  /\ returned' = Failed
  /\ Proceed /\ UNCHANGED <<fds, delivered>>

(* emit_write_block loads the action's descriptor as an immediate, over    *)
(* the register that emit_fd_move has just filled.                         *)
WriteSyscall ==
  /\ Running("write")
  /\ delivered' = IF Action.fd \in DOMAIN fds /\ fds[Action.fd].writable
                  THEN Append(delivered, Output(fds[Action.fd].file, Action.data))
                  ELSE delivered
  /\ Proceed /\ UNCHANGED <<fds, returned>>

ExitSyscall ==
  /\ phase = "running" /\ pc = Len(Emitted)
  /\ phase' = "exited"
  /\ UNCHANGED <<compileVars, runVars>>

Stopped == phase \in {"rejected", "exited"} /\ UNCHANGED vars

Next ==
  \/ \E file \in Files, writable, present \in BOOLEAN : OpenFile(file, writable, present)
  \/ \E h \in HandleValues : CloseHandle(h) \/ WriteHandle(h)
  \/ \E h \in HandleValues, count \in {0, 1} : ReadHandle(h, count)
  \/ \E fd \in {stdout, stderr} : Console(fd)
  \/ Unsupported \/ Exit
  \/ OpenSyscall \/ OpenSyscallFails \/ WriteSyscall \/ ExitSyscall
  \/ Stopped

Spec == Init /\ [][Next]_vars

----------------------------------------------------------------------------
TypeOK ==
  /\ phase \in {"compiling", "rejected", "running", "exited"}
  /\ calls \in 0 .. MaxCalls
  /\ DOMAIN handles \cup payloads \subseteq FirstFake .. nextFake - 1
  /\ nextFake \in FirstFake .. FirstFake + MaxCalls
  /\ \A i \in DOMAIN actions : actions[i].kind = "write" => actions[i].fd \in 1 .. nextFake - 1
  /\ pc \in 0 .. Len(Emitted)
  /\ 0 .. 2 \subseteq DOMAIN fds

OpensIn(list) == { i \in DOMAIN list : list[i].kind = "open" }
NoOpenFailed == Cardinality(DOMAIN fds) = 3 + Cardinality(OpensIn(actions))

(* The handles invented when compiling are the descriptors Linux hands out *)
(* when the program runs: if no open failed, what a handle named for the   *)
(* DOS program is what the descriptor of that number names.  No close      *)
(* reaches the recompiled program and no handle is given out twice: either *)
(* alone would break it.                                                   *)
HandlesAreDescriptors ==
  TypeOK /\ (phase = "exited" /\ NoOpenFailed =>
    \A h \in DOMAIN handles : h \in DOMAIN fds /\ fds[h] = handles[h])

(* A run in which every open succeeds makes the DOS program's output, in   *)
(* the DOS program's order, when that program used either file services or *)
(* console services.                                                       *)
OutputPreserved ==
  phase = "exited" /\ NoOpenFailed /\ (actions = <<>> \/ writes = <<>>) => delivered = wanted

(* "The fd returned by an open action is threaded into the next            *)
(* write/close action": the write behind an open uses what open returned.  *)
DescriptorThreaded ==
  Running("write") /\ pc > 0 /\ Emitted[pc].kind = "open" /\ Action.fd \notin {stdout, stderr}
    => Action.fd = returned

(* Console services are supported in the same programs as file services:   *)
(* what the program printed is printed.                                    *)
ConsoleKept ==
  phase = "exited" =>
    \A i \in DOMAIN writes : \E j \in DOMAIN delivered : delivered[j].data = writes[i].data
=============================================================================
