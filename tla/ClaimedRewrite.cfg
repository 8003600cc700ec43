SPECIFICATION Spec
CONSTANTS
  Source = {s1}
  MaxLen = 2
  MaxInc = 2
  MaxId = 2
  MaxFaults = 1
  OutboxLimit = 1
INVARIANT ClaimedFilesIntact
CHECK_DEADLOCK FALSE
