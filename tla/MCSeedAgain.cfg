SPECIFICATION Spec
CONSTANTS
  Null = Null
  EventIds = {}
  Purgers = {}
  Retention = 1
  BatchSize = 1
  PageSize = 1
  MaxTime = 1
  MaxPages = 0
  DevActivities = {}
  AdminEmails = {"admin@utp"}
  MaxDay = 1
  MaxStops = 0
  MaxEdits = 0
  MaxRequests = 0
  MaxSignals = 0
  DayLength = 2
  ZoneOffset = 0
  Dates = {0}
  FirstNow = 0
  LastNow = 0
INVARIANT
  SeedsCanRunAgain
CHECK_DEADLOCK FALSE
