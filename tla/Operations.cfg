CONSTANTS
  \* RuleReload
  s1 = s1
  s2 = s2
  n1 = n1
  n2 = n2
  Api = {p1}
  Sigma = {s1, s2}
  Name = {n1, n2}
  Imports <- OneImport
  MaxRules = 3
  MaxChanges = 2
  PageSize = 1
  Subscribed = TRUE
  Faults = TRUE
  \* NotificationDispatch
  Worker = {w1, w2}
  Notice = {m1, m2}
  MaxAttempts = 2
  BatchSize = 2
  MaxFaults = 3
  \* RealtimeGateway
  Socket = {c1, c2}
  Session = {u1, u2}
  MaxPerSession = 1
  MaxRotations = 1
  \* HeartbeatMonitor
  StaleAfter = 1
  MaxClock = 3
  MaxNumbers = 2
  Skews <- AroundZero
  MaxFutureSkew = 1
SPECIFICATION Spec
INVARIANT
  RulesAudited
  LoadedAsStored
  SentOnce
  HubExact
  NoCollision
PROPERTY
  EveryNoticeSettles
  EndedSessionLeaves
  HeartbeatsAdvance
CHECK_DEADLOCK FALSE
