SPECIFICATION Spec
CONSTANTS
  u1 = u1  d1 = d1  p1 = p1  r1 = r1  w1 = w1  w2 = w2
  Null = Null
  Undefined = Undefined
  Units = {u1}
  Programs = {d1, p1}
  Activities = {a1}
  Classrooms = {}
  Workers = {w1, w2}
  Reasons = {ill}
  Dates = {0, 1}
  Times = {0, 1, 2}
  DayLength = 3
  ZoneOffset <- MCZoneOffset
  Owner <- MCOwner
  DefaultProgram <- MCDefaultProgram
  NewActivities <- LifecycleDrafts
  ActivityPatches <- LifecyclePatches
  ProgramRanges <- LifecycleRanges
  ProgramPatches <- LifecycleProgramPatches
  MaxNow = 6
INVARIANTS
  TypeOK
  ActivitiesWithinProgram
  DefaultProgramFollowsUnit
  AuditMatchesStatus
  RetainedActivitiesSurvive
  ArchivedHoldsNothingLater
PROPERTIES
  OnlyReactivationRevives
SYMMETRY RequestSymmetry
CHECK_DEADLOCK FALSE
