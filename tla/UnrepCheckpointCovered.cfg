SPECIFICATION Spec
CONSTANTS
  NumSources = 1
  MaxLen = 3
  Classes = {"event", "refused", "unrepresentable"}
  BatchSize = 2
  QueueCapacity = 2
  MaxFaults = 0
INVARIANTS
  CheckpointCoveredAlways
