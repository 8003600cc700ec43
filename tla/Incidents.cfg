SPECIFICATION FairSpec
CONSTANTS
  a1 = a1  a2 = a2  a3 = a3  a4 = a4  a5 = a5
  j1 = j1  j2 = j2  j3 = j3
  e1 = e1  e2 = e2  e3 = e3  e4 = e4  e5 = e5
  x = x  y = y  z = z  u1 = u1
  Job <- MCJob
  AlertsOf <- MCAlertsOf
  Entities <- MCEntities
  Correlating <- MCCorrelating
  Primary <- MCPrimary
  Source <- MCSource
  EventsOf <- MCEventsOf
  TimeOf <- MCTimeOf
  User = {u1}
  TimeWindow = 1
  MaxDuration = 2
  MaxAlerts = 2
  MaxTries = 2
  Workers = 2
  MaxTime = 2
  MaxFaults = 1
  MaxCommands = 1
INVARIANTS
  IncidentsAgree
  Serializable
PROPERTIES
  EveryAlertAttached
