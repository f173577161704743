SPECIFICATION Spec
CONSTANTS
  u1 = u1  d1 = d1  p1 = p1  r1 = r1  w1 = w1  w2 = w2
  Null = Null
  Undefined = Undefined
  Units = {u1}
  Programs = {d1}
  Activities = {a1, a2}
  Classrooms = {r1}
  Workers = {w1, w2}
  Reasons = {}
  Dates = {0}
  Times = {0, 1, 2}
  DayLength = 3
  ZoneOffset <- MCZoneOffset
  Owner <- MCOwner
  DefaultProgram <- MCDefaultProgram
  NewActivities <- BookingDrafts
  ActivityPatches <- BookingPatches
  ProgramRanges = {}
  ProgramPatches = {}
  MaxNow = 2
INVARIANTS
  NoDoubleBooking
PROPERTIES
  ImplementsCalendar
SYMMETRY BookingSymmetry
CHECK_DEADLOCK FALSE
