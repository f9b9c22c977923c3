----------------------------- MODULE CommandLine -----------------------------
(***************************************************************************)
(* Processes that run main() on inputs of their own: load the input,       *)
(* compile it with the branching compiler -- through a C++ source and an   *)
(* executable whose names in the temporary directory are the same for all  *)
(* of them -- or else with the straight-line compiler, and write the       *)
(* output.  Every step that touches a file is an action.                   *)
(*                                                                         *)
(* What is in a file is told apart by the program it comes from.  Whether  *)
(* a compiler accepts a program, and whether the host grants an access, is *)
(* free.  The C++ compiler accepts no source that is cut short or mixed.   *)
(*                                                                         *)
(* A definition marked "slip" is used nowhere: it is a plausible mistake   *)
(* in the definition after it, which some property must tell apart.        *)
(***************************************************************************)
EXTENDS FiniteSets

CONSTANTS
  Procs,   \* processes
  Jobs,    \* what they are asked: functions from Procs to [input, output, keep]
  Paths,   \* of inputs, outputs and kept sources
  CppOf,   \* output_path.replace_extension(".cpp"), a function on Paths
  Nothing, \* the content of a file that is absent or empty
  Broken   \* the content of a file that is incomplete or mixed

ASSUME JobsAssumption ==
  /\ Jobs \subseteq [Procs -> [input : Paths, output : Paths, keep : BOOLEAN]]
  /\ CppOf \in [Paths -> Paths]
  /\ \A j \in Jobs, p \in Procs : \A q \in Procs \ {p} :  \* none reads what another writes
       j[q].input \notin {j[p].output, CppOf[j[p].output]}
  /\ Nothing \notin Paths /\ Broken \notin Paths /\ Nothing # Broken

VARIABLES
  job,        \* the command lines
  pc,         \* how far each process is
  executable, \* executable_bytes: the program they are the code of
  source,     \* dosrecomp_branching.cpp: the program it is the translation of
  elf,        \* dosrecomp_branching.elf: its program and the process that created it
  parsed,     \* what each process's g++ has read
  outputs,    \* outputs[path]: the program whose executable is there
  runnable,   \* paths with the execute permission
  crossed     \* auxiliary: processes that were inside compile() with another

vars == <<job, pc, executable, source, elf, parsed, outputs, runnable, crossed>>

(* A program is named by the path of its input.                            *)
Program(p) == job[p].input
Compiling == {"removed", "opened", "written", "parsed", "linking", "linked"}
Inside == { p \in Procs : pc[p] \in Compiling }

Init ==
  /\ job \in Jobs
  /\ pc = [p \in Procs |-> "start"]
  /\ executable = [p \in Procs |-> Nothing] /\ parsed = [p \in Procs |-> Nothing]
  /\ source = Nothing /\ elf = [what |-> Nothing, by |-> Nothing]
  /\ outputs = [path \in Paths |-> Nothing] /\ runnable = {} /\ crossed = {}

Goes(p, from, to) == pc[p] = from /\ pc' = [pc EXCEPT ![p] = to]
SameTemporaries == UNCHANGED <<source, elf, parsed, crossed>>
SameOutputs == UNCHANGED <<outputs, runnable>>
SameResult == UNCHANGED <<job, executable>>

----------------------------------------------------------------------------
(* load_file and emit_c_runtime: the input is read, and translated to C++. *)
load_file(p) == (Goes(p, "start", "loaded") \/ Goes(p, "start", "failed"))
                /\ SameTemporaries /\ SameOutputs /\ SameResult
emit_c_runtime(p) == (Goes(p, "loaded", "emitted") \/ Goes(p, "loaded", "fallback"))
                     /\ SameTemporaries /\ SameOutputs /\ SameResult

(* The old executable is removed; that this fails is not noticed.          *)
remove_elf(p) ==
  /\ Goes(p, "emitted", "removed")
  /\ elf' \in {elf, [what |-> Nothing, by |-> Nothing]}
  /\ crossed' = IF Inside = {} THEN crossed ELSE crossed \cup Inside \cup {p}
  /\ UNCHANGED <<source, parsed>> /\ SameOutputs /\ SameResult

open_source(p) ==
  /\ \/ Goes(p, "removed", "opened") /\ source' = Nothing
     \/ Goes(p, "removed", "fallback") /\ UNCHANGED source
  /\ UNCHANGED <<elf, parsed, crossed>> /\ SameOutputs /\ SameResult

(* Written over what another process has put there meanwhile, a source may *)
(* end with the rest of the other.  A failed write is not noticed.         *)
write_source(p) ==
  /\ Goes(p, "opened", "written")
  /\ source' \in {Program(p), Broken}
  /\ UNCHANGED <<elf, parsed, crossed>> /\ SameOutputs /\ SameResult

(* g++ reads the source, creates the executable and fills it, unless it    *)
(* was removed or created anew meanwhile; it may fail at any point.        *)
gpp_reads(p) ==
  /\ Goes(p, "written", "parsed")
  /\ parsed' = [parsed EXCEPT ![p] = source]
  /\ UNCHANGED <<source, elf, crossed>> /\ SameOutputs /\ SameResult

gpp_creates(p) ==
  /\ Goes(p, "parsed", "linking") /\ parsed[p] \notin {Nothing, Broken}
  /\ elf' = [what |-> Broken, by |-> p]
  /\ UNCHANGED <<source, parsed, crossed>> /\ SameOutputs /\ SameResult

gpp_fills(p) ==
  /\ Goes(p, "linking", "linked")
  /\ elf' = IF elf.by = p THEN [elf EXCEPT !.what = parsed[p]] ELSE elf
  /\ UNCHANGED <<source, parsed, crossed>> /\ SameOutputs /\ SameResult

UncheckedStatus == "linked"  \* slip
TryAgain == "emitted"        \* slip
AfterFailure == "fallback"

gpp_fails(p) ==
  /\ \E from \in {"written", "parsed", "linking"} : Goes(p, from, AfterFailure)
  /\ elf' \in {elf} \cup (IF elf.by = p THEN {[what |-> Nothing, by |-> Nothing]} ELSE {})
  /\ UNCHANGED <<source, parsed, crossed>> /\ SameOutputs /\ SameResult

read_elf(p) ==
  /\ \/ /\ elf.what # Nothing /\ Goes(p, "linked", "compiled")
        /\ executable' = [executable EXCEPT ![p] = elf.what]
     \/ Goes(p, "linked", "fallback") /\ UNCHANGED executable
  /\ UNCHANGED job /\ SameTemporaries /\ SameOutputs

(* straight_line_compiler::compile, when the branching compiler failed.    *)
fall_back(p) ==
  /\ \/ Goes(p, "fallback", "compiled") /\ executable' = [executable EXCEPT ![p] = Program(p)]
     \/ Goes(p, "fallback", "failed") /\ UNCHANGED executable
  /\ UNCHANGED job /\ SameTemporaries /\ SameOutputs

----------------------------------------------------------------------------
(* The output is emptied, written and made executable.  The end of it may  *)
(* wait in the stream until close(), and that this fails is not noticed.   *)
open_output(p) ==
  /\ \/ Goes(p, "compiled", "emptied") /\ outputs' = [outputs EXCEPT ![job[p].output] = Nothing]
     \/ Goes(p, "compiled", "failed") /\ UNCHANGED outputs
  /\ UNCHANGED runnable /\ SameTemporaries /\ SameResult

write_output(p) ==
  /\ \/ \E written \in {executable[p], Broken} :
          Goes(p, "emptied", "filled") /\ outputs' = [outputs EXCEPT ![job[p].output] = written]
     \/ Goes(p, "emptied", "failed") /\ outputs' = [outputs EXCEPT ![job[p].output] = Broken]
  /\ UNCHANGED runnable /\ SameTemporaries /\ SameResult

permissions(p) ==
  /\ \/ Goes(p, "filled", "wrote") /\ runnable' = runnable \cup {job[p].output}
     \/ Goes(p, "filled", "failed") /\ UNCHANGED runnable
  /\ UNCHANGED outputs /\ SameTemporaries /\ SameResult

(* --keep-cpp: the source goes beside the output, unless it cannot be      *)
(* emitted or opened, which is not an error.                               *)
KeptAs(p) == job[p].output  \* slip
SourcePath(p) == CppOf[job[p].output]

keep_cpp(p) ==
  /\ Goes(p, "wrote", "done")
  /\ \/ UNCHANGED outputs
     \/ job[p].keep /\ outputs' = [outputs EXCEPT ![SourcePath(p)] = Nothing]
  /\ UNCHANGED runnable /\ SameTemporaries /\ SameResult

Step(p) ==
  \/ load_file(p) \/ emit_c_runtime(p) \/ remove_elf(p) \/ open_source(p) \/ write_source(p)
  \/ gpp_reads(p) \/ gpp_creates(p) \/ gpp_fills(p) \/ gpp_fails(p) \/ read_elf(p) \/ fall_back(p)
  \/ open_output(p) \/ write_output(p) \/ permissions(p) \/ keep_cpp(p)

Ended == (\A p \in Procs : pc[p] \in {"failed", "done"}) /\ UNCHANGED vars
Next == (\E p \in Procs : Step(p)) \/ Ended
Spec == Init /\ [][Next]_vars /\ \A p \in Procs : WF_vars(Step(p))

----------------------------------------------------------------------------
(* A process that was alone in compile() -- before and after any others,   *)
(* whatever they left in the temporary files and whichever removals and    *)
(* writes failed unnoticed -- has the code of its own program.             *)
OwnProgram ==
  \A p \in Procs \ crossed :
    pc[p] \in {"compiled", "emptied", "filled", "wrote", "done"} => executable[p] = Program(p)

(* "Wrote" is true: unless another process writes that path or its own     *)
(* kept source has the same name, the output is runnable and what the      *)
(* process compiled, if not cut short when the stream was closed.          *)
Untouched(path, p) ==
  /\ job[p].keep => CppOf[job[p].output] # path
  /\ \A q \in Procs \ {p} : job[q].output # path /\ (job[q].keep => CppOf[job[q].output] # path)
WroteMeansRunnable ==
  \A p \in Procs :
    pc[p] \in {"wrote", "done"} /\ Untouched(job[p].output, p) =>
      outputs[job[p].output] \in {executable[p], Broken} /\ job[p].output \in runnable

(* Every process comes to an end, whatever the others do to its files.     *)
AllEnd == \A p \in Procs : <>(pc[p] \in {"failed", "done"})

(* "Wrote" is true of every byte.                                          *)
WroteMeansWhole ==
  \A p \in Procs :
    pc[p] \in {"wrote", "done"} /\ Untouched(job[p].output, p) =>
      outputs[job[p].output] = executable[p]

(* A process ends with the program of its input, however runs overlap.     *)
OutputIsInput == \A p \in Procs : pc[p] = "done" => executable[p] = Program(p)

(* Compiling does not destroy the input.                                   *)
InputKept == \A p \in Procs : pc[p] = "done" => job[p].output # job[p].input
=============================================================================
