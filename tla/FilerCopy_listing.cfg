SPECIFICATION Spec
CONSTANTS
  Names = {"A", "f"}
  Files = {"f1", "f2", "f3"}
  NoFile = NoFile
  Trees <- NewTree
  Limited <- SameNames
  MAX_RECURSE = 3
  Faults = {"list"}
  MaxJobs = 2
INVARIANT CopiedErrorFree
CHECK_DEADLOCK FALSE
