SPECIFICATION FairSpec
CONSTANTS
  NumSources = 2
  MaxLen = 3
  Classes = {"event", "refused", "unrepresentable"}
  BatchSize = 2
  QueueCapacity = 2
  MaxFaults = 1
INVARIANTS
  PipelineInOrder
  CheckpointCovered
  ShutdownSound
PROPERTIES
  EveryReadRecordPublished
