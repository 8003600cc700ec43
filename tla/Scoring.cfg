SPECIFICATION Spec
CONSTANTS
  Job <- MCJob
  Version = {"v1", "v2"}
  Vector = {"full"}
  Raw <- MCRaw
  RawMin = 0
  RawMax = 15
  Threshold = 700
  BatchSize = 1
  FailureThreshold = 2
  Cooldown = 2
  SuccessThreshold = 2
INVARIANT
  EngineShielded
  ScoresKept
PROPERTY
  BreakerRecovers
