SPECIFICATION Spec
CONSTANTS
  p = p  v = v  admin = admin  ana = ana  luis = luis
  Null = Null
  ProgramScopes = {p}
  ActivityScopes = {v}
  ParentProgram <- MCParentProgram
  PERMISSION_NAMES = {"program:read", "program:update", "program:create", "permission:grant"}
  CollaborationRoles = {"VIEWER", "ORGANIZER"}
  ROLE_DEFAULTS <- SmallDefaults
  Users = {admin, ana, luis}
  Administrators = {admin}
  Collaborations = {c1, c2}
  Workers = {w1}
  Clients <- WindowsWithAGap
SYMMETRY RowSymmetry
INVARIANT
  GapsCanBeDelegated
CHECK_DEADLOCK FALSE
