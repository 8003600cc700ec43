\* No rejection satisfies the schema of rejections.
CONSTANTS
  \* FeatureHistory
  Worker = {w1, w2}
  Minute = 1
  TenMinutes = 2
  Hour = 3
  Day = 4
  Week = 5
  Instants = {0, 2, 5}
  MaxFaults = 1
  Scenario <- MCScenario
  \* RuleLanguage
  Selection = {"a", "b"}
  RuleNesting = 1
  Word = {"a", "b", "x"}
  MaxTokens = 5
  RuleEvents = 4
  \* UnifiedAlerts
  MaxEvidence = 4
  CompiledRule <- MCRule
  Meaning <- MCMeaning
  Candidate <- MCCandidate
  Gap = {0, 1, 2}
  Comparable <- MCValue
  Evidence <- MCEvidence
  EventFields <- MCEventFields
  Asset <- MCAsset
  \* CollectorContract
  MaxLines = 3
  Line <- MCLine
  FirstInstant <- MCFirst
  Trusted = {k1}
  Key = {k1, k2}
  MaxNesting = 6
  MaxRecord = 10
  MaxBatch = 16
  MaxEvents = 3
  MaxName = 4
  MaxMessage = 5
  MaxHost = 4
  Second = 2
  LastInstant = 10
  Envelope = 3
  EventOverhead = 1
  Radix = 2
  \* CollectorMessages
  MaxCapture = 2
  Overhead = 8
  MaxSafe = 11
  Bytes = {0, 2, 3, 10, 11}
  MaxClock = 1
SPECIFICATION Spec
SYMMETRY Workers
INVARIANT
  RejectionConforms
CHECK_DEADLOCK FALSE
