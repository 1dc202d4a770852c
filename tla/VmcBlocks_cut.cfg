SPECIFICATION Spec
CONSTANTS
  Blocks = {1, 2}
  backup_block1 = 3
  backup_block2 = 4
  PerBlock = 2
  MAX_CACHEENTRY = 2
  Calls <- MCCalls
  MaxVersion = 1
  MaxCuts = 1
INVARIANT RecoveryNamesBlock
CHECK_DEADLOCK FALSE
