SPECIFICATION SpeakersSpec
CONSTANTS
  r1 = r1  wifi = wifi  WIFI = WIFI  ana = ana  luis = luis
  Null = Null
  Classrooms = {r1}
  Windows = {n1, n2, n3}
  Activities = {a1, a2}
  Dates = {0, 1}
  FirstDayOfWeek = 7
  Capacities = {1, 2}
  Amenities = {wifi, WIFI}
  Speakers = {s1, s2, s3, s4}
  Addresses = {ana, luis}
  Names = {"Ana", "A.", "Eva", "Luis"}
  Folded <- MCFolded
  Workers = {w1, w2}
  Clients <- MCClients
  DayLength = 4
  ZoneOffset <- MCZoneOffset
SYMMETRY RowSymmetry
INVARIANTS
  ResourceTables
  OfferedIsBookable
  RoomLogReplays
PROPERTIES
  LineupChangesAreTold
CHECK_DEADLOCK FALSE
