------------------------- MODULE PermissionCatalog -------------------------
(***************************************************************************)
(* modules/authorization/permissions.ts: the permissions of the program    *)
(* and what each role brings.  No role brings the right to delegate.       *)
(***************************************************************************)

VIEWER_DEFAULTS ==
  {"program:read", "activity:read", "certificate:read", "proposal:read", "report:view"}

EDITOR_DEFAULTS ==
  VIEWER_DEFAULTS \cup
  {"activity:create", "activity:update", "attendance:register",
   "attendance:checkin", "attendance:manage", "proposal:feedback"}

ORGANIZER_DEFAULTS ==
  EDITOR_DEFAULTS \cup
  {"program:update", "activity:cancel", "activity:delete",
   "certificate:generate", "proposal:review", "report:export"}

CatalogNames ==
  ORGANIZER_DEFAULTS \cup
  {"program:create", "program:archive", "program:reactivate", "permission:grant"}

CatalogDefaults ==
  [VIEWER |-> VIEWER_DEFAULTS, EDITOR |-> EDITOR_DEFAULTS,
   ORGANIZER |-> ORGANIZER_DEFAULTS]
=============================================================================
