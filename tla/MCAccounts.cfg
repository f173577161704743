SPECIFICATION Spec
CONSTANTS
  root = root  fic = fic  fie = fie  otros = otros  k1 = k1
  Null = Null  Undefined = Undefined
  Users = {root, ana, eva}
  Careers = {otros, k1}
  Sessions = {}
  Units = {fic, fie}
  Faculties = {fic, fie}
  Codes = {"OTROS", "K1"}
  OTROS = "OTROS"
  Emails = {"root", "ana", "eva"}
  Identifications = {"root", "ana", "eva"}
  Passwords = {"pw"}
  Root = root
  Otros = otros
  Tokens = {}
  Workers = {w1, w2}
  RootRow <- MCRootRow
  Clients <- MCClients
SYMMETRY RowSymmetry
INVARIANTS
  AccountTables
  AnAdministratorRemains
  RolesAreTold
PROPERTIES
  UsersStayPlaced
CHECK_DEADLOCK FALSE
