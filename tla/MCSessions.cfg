SPECIFICATION Spec
CONSTANTS
  ana = ana  root = root
  Null = Null  Undefined = Undefined
  Users = {ana, root}
  Careers = {otros}
  Sessions = {s1, s2}
  Units = {}
  Faculties = {}
  Codes = {"OTROS"}
  OTROS = "OTROS"
  Emails = {"root", "ana"}
  Identifications = {"root", "ana"}
  Passwords = {"p1", "p2"}
  Root = root
  Otros = otros
  Tokens = {t1, t2, t3}
  Workers = {w1, w2}
  Clients <- MCClients
  Browsers = {b1}
  SessionTTL = 1
  ResetTTL = 1
  MaxNow = 1
SYMMETRY SessionSymmetry
INVARIANTS
  SessionTables
  AuditNamesTheSubject
  ResetClosesSessions
  InactiveHoldNoCookie
  LogoutRevokes
PROPERTIES
  SessionsAreLines
  ChangeKeepsTheSession
CHECK_DEADLOCK FALSE
