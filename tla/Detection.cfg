SPECIFICATION FairSpec
CONSTANTS
  Size <- MCOneAndTwo
  MatchEvents <- MCFirst
  Threshold = 2
  Window = 1
  Cooldown = 2
  Workers = 2
  MaxFaults = 1
INVARIANTS
  NoAlertLost
PROPERTIES
  CooldownHeld
