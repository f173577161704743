SPECIFICATION Spec
CONSTANTS
  p = p  v = v  admin = admin  ana = ana  luis = luis
  Null = Null
  ProgramScopes = {p}
  ActivityScopes = {}
  ParentProgram <- MCParentProgram
  PERMISSION_NAMES <- CatalogNames
  CollaborationRoles = {"VIEWER", "EDITOR", "ORGANIZER"}
  ROLE_DEFAULTS <- CatalogDefaults
  Users = {admin, ana, luis}
  Administrators = {admin}
  Collaborations = {c1, c2}
  Workers = {w1}
  Clients <- OverridingClients
SYMMETRY RowSymmetry
INVARIANT
  RoleChangesCanBeWritten
CHECK_DEADLOCK FALSE
