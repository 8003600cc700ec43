SPECIFICATION FairSpec
CONSTANTS
  Source = {s1, s2}
  MaxLen = 1
  MaxInc = 2
  MaxId = 3
  MaxFaults = 1
  OutboxLimit = 1
INVARIANTS
  CheckpointCovered
  NothingSkipped
  RecoverySound
PROPERTIES
  RefinesDelivery
  EveryRecordDelivered
CHECK_DEADLOCK FALSE
