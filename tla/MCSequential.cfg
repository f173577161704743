SPECIFICATION Spec
CONSTANTS
  u1 = u1  d1 = d1  p1 = p1  r1 = r1  w1 = w1  w2 = w2
  Null = Null
  Undefined = Undefined
  Units = {u1}
  Programs = {d1, p1}
  Activities = {a1}
  Classrooms = {r1}
  Workers = {w1}
  Reasons = {ill}
  Dates = {0, 1}
  Times = {0, 1, 2}
  DayLength = 3
  ZoneOffset <- MCZoneOffset
  Owner <- MCOwner
  DefaultProgram <- MCDefaultProgram
  NewActivities <- SequentialDrafts
  ActivityPatches <- SequentialPatches
  ProgramRanges <- SequentialRanges
  ProgramPatches <- SequentialProgramPatches
  MaxNow = 6
INVARIANTS
  ClosedIsQuiet
  PublicViewsAgree
PROPERTIES
  CancellationIsFinal
  ArchivalFreezes
CHECK_DEADLOCK FALSE
