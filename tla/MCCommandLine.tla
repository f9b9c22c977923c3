---------------------------- MODULE MCCommandLine ----------------------------
(***************************************************************************)
(* Two processes: on a.com and b.com; on a.com and a.exe, which share the  *)
(* output a; on an input without extension; and with the source kept under *)
(* the name of the output.                                                 *)
(***************************************************************************)
EXTENDS CommandLine, TLC

CONSTANTS one, two

MCPaths == {"a.com", "a.exe", "b.com", "a", "b", "c", "a.cpp", "b.cpp", "c.cpp"}
MCCppOf ==
  [path \in MCPaths |-> CASE path \in {"a.com", "a.exe", "a", "a.cpp"} -> "a.cpp"
                          [] path \in {"b.com", "b", "b.cpp"} -> "b.cpp"
                          [] path \in {"c", "c.cpp"} -> "c.cpp"]
Job(input, output, keep) == [input |-> input, output |-> output, keep |-> keep]
MCJobs == { one :> x @@ two :> y : x \in {Job("a.com", "a", TRUE), Job("c", "c", FALSE)},
              y \in {Job("b.com", "b", FALSE), Job("a.exe", "a", TRUE), Job("b.com", "b.cpp", TRUE)} }
=============================================================================
