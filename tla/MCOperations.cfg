SPECIFICATION FairSpec
CONSTANTS
  Null = Null
  EventIds = {1, 2, 3}
  Purgers = {p1, p2}
  Retention = 1
  BatchSize = 1
  PageSize = 1
  MaxTime = 2
  MaxPages = 3
  DevActivities = {a1, a2, a3}
  AdminEmails <- MCAdminEmails
  MaxDay = 1
  MaxStops = 1
  MaxEdits = 1
  MaxRequests = 2
  MaxSignals = 2
  DayLength = 4
  ZoneOffset <- MCZoneOffset
  Dates <- MCDates
  FirstNow <- MCFirstNow
  LastNow = 14
INVARIANTS
  TemporalCutsAgree
  PagesAreComplete
  ErasuresAreAccounted
PROPERTIES
  StatusOnlyAdvances
  SeedsConverge
  ShutdownIsGraceful
CHECK_DEADLOCK FALSE
