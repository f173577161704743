--------------------------- MODULE Authorization ---------------------------
(***************************************************************************)
(* modules/authorization, the part that only reads: the catalog of         *)
(* permissions, grants with their windows of validity, the envelope of a   *)
(* user in a scope, and the listings that show where it comes from.        *)
(*                                                                         *)
(* A grant is a row of collaboration_permissions joined to its             *)
(* collaboration: permission, source, window and scope.                    *)
(***************************************************************************)
EXTENDS Integers, FiniteSets, FiniteSetsExt

CONSTANTS
  ProgramScopes,   (* Event programs.                                      *)
  ActivityScopes,  (* Activities.                                          *)
  ParentProgram,   (* The event program of each activity; never rewritten. *)
  PERMISSION_NAMES, CollaborationRoles,
  ROLE_DEFAULTS,   (* The permissions each role brings.                    *)
  Null             (* SQL NULL: a window without limit on that side.       *)

Scopes == ProgramScopes \cup ActivityScopes

ASSUME ScopeAssumption ==
  /\ ProgramScopes \cap ActivityScopes = {}
  /\ ParentProgram \in [ActivityScopes -> ProgramScopes]

ASSUME WindowAssumption == Null \notin Int

-----------------------------------------------------------------------------
(* The catalog: see PermissionCatalog for the one of the program. *)

PERMISSION_GRANT == "permission:grant"

ASSUME CatalogAssumption ==
  /\ PERMISSION_GRANT \in PERMISSION_NAMES
  /\ ROLE_DEFAULTS \in [CollaborationRoles -> SUBSET PERMISSION_NAMES]
  /\ \A role \in CollaborationRoles : PERMISSION_GRANT \notin ROLE_DEFAULTS[role]

-----------------------------------------------------------------------------
(* Windows. *)

Unlimited == [validFrom |-> Null, validUntil |-> Null]

WindowOf(grant) == [validFrom |-> grant.validFrom, validUntil |-> grant.validUntil]

isGrantActive(grant, t) ==
  /\ grant.validFrom # Null => grant.validFrom <= t
  /\ grant.validUntil # Null => t < grant.validUntil

collaboration_permissions_valid_window_check(grant) ==
  (grant.validFrom # Null /\ grant.validUntil # Null) => grant.validFrom < grant.validUntil

\* Mutation: the later start and the earlier end, what both windows cover.
mergeEnvelope_Narrowest(current, grant) ==
  [validFrom |-> IF current.validFrom = Null THEN grant.validFrom
                 ELSE IF grant.validFrom = Null \/ grant.validFrom < current.validFrom
                 THEN current.validFrom ELSE grant.validFrom,
   validUntil |-> IF current.validUntil = Null THEN grant.validUntil
                  ELSE IF grant.validUntil = Null \/ grant.validUntil > current.validUntil
                  THEN current.validUntil ELSE grant.validUntil]

mergeEnvelope(current, grant) ==
  [validFrom |-> IF current.validFrom = Null \/ grant.validFrom = Null THEN Null
                 ELSE IF current.validFrom < grant.validFrom
                 THEN current.validFrom ELSE grant.validFrom,
   validUntil |-> IF current.validUntil = Null \/ grant.validUntil = Null THEN Null
                  ELSE IF current.validUntil > grant.validUntil
                  THEN current.validUntil ELSE grant.validUntil]

Envelope(windows) == FoldSet(mergeEnvelope, CHOOSE g \in windows : TRUE, windows)

-----------------------------------------------------------------------------
(* Scopes. *)

ProgramOf(s) == IF s \in ActivityScopes THEN ParentProgram[s] ELSE s

\* The scopes whose collaborations count in scope s: its own and its program's.
resolveScope(s) == {s, ProgramOf(s)}

\* Mutation: expired and future grants count.
getPermissionEnvelopes_EverGranted(globalRole, grants, s, t) ==
  IF globalRole = "ADMIN" THEN [name \in PERMISSION_NAMES |-> Unlimited]
  ELSE LET active == {g \in grants : g.scope \in resolveScope(s)}
       IN  [name \in {g.permission : g \in active} |->
              Envelope({WindowOf(g) : g \in {h \in active : h.permission = name}})]

\* grants: those of every collaboration of the user.
getPermissionEnvelopes(globalRole, grants, s, t) ==
  IF globalRole = "ADMIN" THEN [name \in PERMISSION_NAMES |-> Unlimited]
  ELSE LET active == {g \in grants : g.scope \in resolveScope(s) /\ isGrantActive(g, t)}
       IN  [name \in {g.permission : g \in active} |->
              Envelope({WindowOf(g) : g \in {h \in active : h.permission = name}})]

getEffectivePermissions(globalRole, grants, s, t) ==
  DOMAIN getPermissionEnvelopes(globalRole, grants, s, t)

-----------------------------------------------------------------------------
(* Where a permission comes from. *)

Origin(s, active) ==
  CASE \A g \in active : s \in ProgramScopes \/ g.scope = s -> "LOCAL"
    [] \A g \in active : ~(s \in ProgramScopes \/ g.scope = s) -> "INHERITED"
    [] OTHER -> "BOTH"

\* "OVERRIDE" when one of the active grants is, and Null otherwise.
SourceAmong(active) ==
  IF \E g \in active : g.source = "OVERRIDE" THEN "OVERRIDE" ELSE Null

resolvePermissionEntries(s, grants, t) ==
  LET active == {g \in grants : isGrantActive(g, t) /\ g.permission \in PERMISSION_NAMES}
      isLocal(g) == s \in ProgramScopes \/ g.scope = s
      of(name) == {g \in active : g.permission = name}
  IN  [name \in {g.permission : g \in active} |->
         [envelope |-> Envelope({WindowOf(g) : g \in of(name)}),
          origin |-> Origin(s, of(name)),
          localSource |-> SourceAmong({g \in of(name) : isLocal(g)}),
          inheritedSource |-> SourceAmong({g \in of(name) : ~isLocal(g)})]]

getPermissionProvenance(globalRole, grants, s, t) ==
  IF globalRole = "ADMIN"
  THEN [name \in PERMISSION_NAMES |-> [envelope |-> Unlimited, origin |-> "LOCAL"]]
  ELSE LET entries == resolvePermissionEntries(s, {g \in grants : g.scope \in resolveScope(s)}, t)
       IN  [name \in DOMAIN entries |->
              [envelope |-> entries[name].envelope, origin |-> entries[name].origin]]

\* Mutation: the grants of the program are not added to those of the activity.
CollaboratorPermissions_LocalOnly(grants, s, t) ==
  LET entries == resolvePermissionEntries(s, {g \in grants : g.scope = s}, t)
  IN  [name \in DOMAIN entries |->
         [envelope |-> entries[name].envelope, origin |-> entries[name].origin,
          source |-> "ROLE_DEFAULT"]]

\* The permissions shown for one collaborator of scope s: the grants of the
\* scope, followed by those of the program, which in a program are the same.
CollaboratorPermissions(grants, s, t) ==
  LET entries == resolvePermissionEntries(
                   s, {g \in grants : g.scope = s} \cup {g \in grants : g.scope = ProgramOf(s)}, t)
      sourceOf(e) ==
        LET preferred == IF e.origin = "INHERITED" THEN e.inheritedSource ELSE e.localSource
            other == IF e.origin = "INHERITED" THEN e.localSource ELSE e.inheritedSource
        IN  IF preferred # Null THEN preferred
            ELSE IF other # Null THEN other ELSE "ROLE_DEFAULT"
  IN  [name \in DOMAIN entries |->
         [envelope |-> entries[name].envelope, origin |-> entries[name].origin,
          source |-> sourceOf(entries[name])]]

\* The scopes a user who is not an administrator finds, with what they may do
\* there: an activity takes the grants of its program when the user collaborates
\* in both, and a scope without permissions is left out.
listCollaborationScopes(memberships, grants, t) ==
  LET entries(s) ==
        resolvePermissionEntries(s, {g \in grants : g.scope \in resolveScope(s)}, t)
  IN  {[scope |-> s, permissions |-> entries(s)] :
         s \in {m \in memberships : DOMAIN entries(m) # {}}}
=============================================================================
