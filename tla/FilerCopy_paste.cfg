SPECIFICATION Spec
CONSTANTS
  Names = {"A", "f"}
  Files = {"f1", "f2", "f3"}
  NoFile = NoFile
  Trees <- OldTree
  Limited <- SameNames
  MAX_RECURSE = 3
  Faults = {"stack", "mkdir", "list", "open", "create", "data", "clean", "close", "remove"}
  MaxJobs = 3
INVARIANTS
  NoFileLost PurgeOnlyCopied FlagsInBounds NoPartialLeft
PROPERTY JobEnds
CHECK_DEADLOCK FALSE
