SPECIFICATION Spec
CONSTANTS
  one = one
  two = two
  Procs = {one, two}
  Jobs <- MCJobs
  Paths <- MCPaths
  CppOf <- MCCppOf
  Nothing = Nothing
  Broken = Broken
INVARIANTS
  OwnProgram
  WroteMeansRunnable

  
