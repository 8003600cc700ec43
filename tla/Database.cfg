CONSTANTS
  o1 = o1
  o2 = o2
  Operator = {o1, o2}
  MonthWeeks = 2
  MonthsAhead = 1
  WeeksAhead = 1
  MonthsKept = 1
  WeeksKept = 1
  Destructive = TRUE
  Expected <- TwoCollections
  Server <- SingleServer
  DemoWeek = 4
  FirstWeek = 4
  LastWeek = 8
  MonthsMigrated = 1
  WeeksMigrated = 2
  MaxRuns = 3
SPECIFICATION DatabaseSpec
SYMMETRY Symmetry
INVARIANTS
  SetupAccepted
  PartitionsCover
PROPERTIES
  NothingTakenAway
CHECK_DEADLOCK FALSE
