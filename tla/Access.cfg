CONSTANTS
  r1 = r1
  r2 = r2
  Request = {r1, r2}
  NewAccount <- SharedMail
  Ttl = 2
  RefreshWindow = 1
  MaxSession = 3
  LockAttempts = 2
  LockTime = 1
  RateLimit = 2
  RateWindow = 1
  MaxTime = 4
  MaxRequests = 4
SPECIFICATION Spec
SYMMETRY Symmetry
INVARIANTS
  UniqueAccounts
  SessionsSound
  LocksInTime
CHECK_DEADLOCK FALSE
