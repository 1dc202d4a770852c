SPECIFICATION Spec
CONSTANTS
  x1 = x1  x2 = x2
  n1 = n1  n2 = n2
  Units = 9
  PartMax = 4
  MergeMax = 4
  APA_MAXSUB = 2
  Names = {n1, n2}
  SystemNames <- Net
  NoName = NoName
  Slots = {x1, x2}
  FaultSteps = {"append", "strip"}
  MaxFaults = 1
  MaxParts = 4
INVARIANTS
  NextIsPartition
