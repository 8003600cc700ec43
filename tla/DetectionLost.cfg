SPECIFICATION Spec
CONSTANTS
  Size <- MCThree
  MatchEvents <- NoEvents
  Threshold = 2
  Window = 2
  Cooldown = 2
  Workers = 1
  MaxFaults = 1
INVARIANTS
  NoAlertLostAlways
