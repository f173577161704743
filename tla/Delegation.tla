---------------------------- MODULE Delegation -----------------------------
(***************************************************************************)
(* modules/authorization, the part that writes: collaborators of a program *)
(* or an activity, their roles, and the permissions delegated to them.     *)
(*                                                                         *)
(* As in Backend, a request reads and decides outside its transaction,     *)
(* leaves in tx[w] what it will write, and then runs the transaction       *)
(* against the tables as they are by then.                                 *)
(***************************************************************************)
EXTENDS Authorization

CONSTANTS
  Users,
  Administrators,   (* Users whose globalRole is ADMIN.                    *)
  Collaborations,   (* Row ids (cuid): none is used twice.                 *)
  Workers,
  Clients           (* What clients send, by the name of the scenario.     *)

VARIABLES
  collaboration,   (* collaborations: user, scope and role by id           *)
  grant,           (* collaboration_permissions of each collaboration      *)
  issued,          (* ids that were given out                              *)
  isActive,        (* users who are active                                 *)
  archived,        (* event programs whose status is ARCHIVED              *)
  now, tx,
  clients          (* the scenario: it never changes                       *)

tables == <<collaboration, grant, issued>>
vars == <<collaboration, grant, issued, isActive, archived, now, tx, clients>>

Window == [validFrom : Int \cup {Null}, validUntil : Int \cup {Null}]

ASSUME DelegationAssumption ==
  /\ Administrators \subseteq Users
  /\ \A name \in DOMAIN Clients : Clients[name] \in
       [actors : SUBSET Users,                (* who sends requests              *)
        scopes : SUBSET Scopes,               (* where they add collaborators    *)
        windows : SUBSET Window,              (* windows they ask for            *)
        delegable : SUBSET PERMISSION_NAMES,  (* permissions they name           *)
        suspendable : SUBSET Users,           (* users who may be deactivated    *)
        inFlight : Nat,                       (* requests at the same time       *)
        until : Nat]                          (* bound: the clock stops there    *)

CollaborationRow == [user : Users, scope : Scopes, role : CollaborationRoles]

ASSUME RowAssumption == Null \notin CollaborationRow

Grant ==
  [source : {"ROLE_DEFAULT", "OVERRIDE"},
   validFrom : Int \cup {Null}, validUntil : Int \cup {Null}]

NoGrants == [name \in {} |-> Null]

DelegationTx ==
       [op : {"addCollaborator"}, actor : Users, row : CollaborationRow, now : Nat]
  \cup [op : {"updateCollaboratorRole"}, actor : Users, id : Collaborations,
        role : CollaborationRoles, now : Nat]
  \cup [op : {"removeCollaborator"}, actor : Users, id : Collaborations, now : Nat]
  \cup [op : {"grantPermission"}, actor : Users, id : Collaborations,
        permission : PERMISSION_NAMES, window : Window, now : Nat]
  \cup [op : {"revokePermission"}, actor : Users, id : Collaborations,
        permission : PERMISSION_NAMES, now : Nat]

ASSUME TxAssumption == Null \notin DelegationTx

Sent == Clients[clients]

-----------------------------------------------------------------------------
(* What the queries of the services return. *)

Exists(c) == collaboration[c] # Null

CollaborationsOf(u) == {c \in Collaborations : Exists(c) /\ collaboration[c].user = u}

GrantsOf(cs) ==
  UNION {{[permission |-> name, scope |-> collaboration[c].scope,
           source |-> grant[c][name].source, validFrom |-> grant[c][name].validFrom,
           validUntil |-> grant[c][name].validUntil] : name \in DOMAIN grant[c]} : c \in cs}

globalRole(u) == IF u \in Administrators THEN "ADMIN" ELSE "USER"

PermissionEnvelopes(u, s, t) ==
  getPermissionEnvelopes(globalRole(u), GrantsOf(CollaborationsOf(u)), s, t)

\* The collaborations whose permissions apply in scope s.
CollaborationsIn(s) ==
  {c \in Collaborations : Exists(c) /\ collaboration[c].scope \in resolveScope(s)}

listCollaborators(s, t) ==
  {[user |-> collaboration[c].user, role |-> collaboration[c].role,
    permissions |->
      CollaboratorPermissions(GrantsOf(CollaborationsOf(collaboration[c].user)), s, t)] :
     c \in {d \in Collaborations : Exists(d) /\ collaboration[d].scope = s}}

canDelegate(c, t) ==
  /\ collaboration[c].user \in isActive
  /\ \/ collaboration[c].user \in Administrators
     \/ /\ PERMISSION_GRANT \in DOMAIN grant[c]
        /\ isGrantActive(grant[c][PERMISSION_GRANT], t)

-----------------------------------------------------------------------------
(* Guards. *)

\* authenticate and requirePermission, and assertActorCanDelegate again.
assertActorCanDelegate(actor, s) ==
  /\ actor \in isActive
  /\ PERMISSION_GRANT \in DOMAIN PermissionEnvelopes(actor, s, now)

assertRoleWithinEnvelopes(actor, s, role) ==
  ROLE_DEFAULTS[role] \subseteq DOMAIN PermissionEnvelopes(actor, s, now)

ScopeIsOpen(s) == ProgramOf(s) \notin archived

assertWindowValid(window) == collaboration_permissions_valid_window_check(window)

assertWindowWithinEnvelope(envelope, window) ==
  /\ envelope.validFrom # Null =>
       window.validFrom # Null /\ envelope.validFrom <= window.validFrom
  /\ envelope.validUntil # Null =>
       window.validUntil # Null /\ window.validUntil <= envelope.validUntil

\* Mutation: a collaborator who could delegate once is counted.
assertScopeKeepsDelegator_InactiveToo(s, target) ==
  \E c \in CollaborationsIn(s) :
    /\ collaboration[c].user # target
    /\ \/ collaboration[c].user \in Administrators
       \/ PERMISSION_GRANT \in DOMAIN grant[c]

\* The collaborations of the target do not count, the one in the program neither.
assertScopeKeepsDelegator(s, target) ==
  \E c \in CollaborationsIn(s) : collaboration[c].user # target /\ canDelegate(c, now)

\* Only the collaboration the permission is taken from does not count.
assertRevokeKeepsDelegator(s, revoked) ==
  \E c \in CollaborationsIn(s) \ {revoked} : canDelegate(c, now)

-----------------------------------------------------------------------------

Idle(w) == tx[w] = Null

\* w may serve a request: fewer are in flight than clients send at a time.
Accepts(w) ==
  /\ Idle(w)
  /\ Cardinality({other \in Workers : ~Idle(other)}) < Sent.inFlight

Begin(w, t) ==
  /\ tx' = [tx EXCEPT ![w] = t]
  /\ UNCHANGED <<tables, isActive, archived, now, clients>>

Commits(w, op) ==
  /\ ~Idle(w)
  /\ tx[w].op = op
  /\ tx' = [tx EXCEPT ![w] = Null]
  /\ UNCHANGED <<isActive, archived, now, clients>>

DefaultGrants(role) ==
  [name \in ROLE_DEFAULTS[role] |->
     [source |-> "ROLE_DEFAULT", validFrom |-> Null, validUntil |-> Null]]

(* addCollaborator *)

BeginAddCollaborator(w, actor, s, target, role) ==
  /\ Accepts(w)
  /\ assertActorCanDelegate(actor, s)
  /\ assertRoleWithinEnvelopes(actor, s, role)
  /\ ScopeIsOpen(s)
  /\ target \in isActive
  /\ \A c \in CollaborationsOf(target) : collaboration[c].scope # s
  /\ Begin(w, [op |-> "addCollaborator", actor |-> actor, now |-> now,
               row |-> [user |-> target, scope |-> s, role |-> role]])

\* The partial unique indexes on (event_program_id, user_id) and
\* (activity_id, user_id).
collaborations_user_key(row) ==
  \A c \in CollaborationsOf(row.user) : collaboration[c].scope # row.scope

CommitAddCollaborator(w, c) ==
  /\ Commits(w, "addCollaborator")
  /\ c \notin issued
  /\ collaborations_user_key(tx[w].row)
  /\ collaboration' = [collaboration EXCEPT ![c] = tx[w].row]
  /\ grant' = [grant EXCEPT ![c] = DefaultGrants(tx[w].row.role)]
  /\ issued' = issued \cup {c}

(* updateCollaboratorRole *)

DefaultsOf(c) == {name \in DOMAIN grant[c] : grant[c][name].source = "ROLE_DEFAULT"}

BeginUpdateCollaboratorRole(w, actor, c, role) ==
  LET s == collaboration[c].scope
  IN  /\ Accepts(w)
      /\ Exists(c)
      /\ assertActorCanDelegate(actor, s)
      /\ assertRoleWithinEnvelopes(actor, s, role)
      /\ ScopeIsOpen(s)
      /\ DefaultsOf(c) \subseteq DOMAIN PermissionEnvelopes(actor, s, now)
      /\ Begin(w, [op |-> "updateCollaboratorRole", actor |-> actor, now |-> now,
                   id |-> c, role |-> role])

\* Mutation: the defaults of the former role stay.
AfterRoleChange_Additive(c, role) ==
  [name \in DOMAIN grant[c] \cup ROLE_DEFAULTS[role] |->
     IF name \in DOMAIN grant[c] THEN grant[c][name] ELSE DefaultGrants(role)[name]]

\* The ROLE_DEFAULT rows are deleted and those of the new role inserted; the
\* OVERRIDE rows stay.
AfterRoleChange(c, role) ==
  LET kept == DOMAIN grant[c] \ DefaultsOf(c)
  IN  [name \in kept \cup ROLE_DEFAULTS[role] |->
         IF name \in kept THEN grant[c][name] ELSE DefaultGrants(role)[name]]

\* The primary key of collaboration_permissions: createMany fails when an
\* OVERRIDE row already holds one of the permissions to insert.
collaboration_permissions_pkey(c, role) ==
  (DOMAIN grant[c] \ DefaultsOf(c)) \cap ROLE_DEFAULTS[role] = {}

CommitUpdateCollaboratorRole(w) ==
  LET c == tx[w].id
  IN  /\ Commits(w, "updateCollaboratorRole")
      /\ Exists(c)
      /\ collaboration_permissions_pkey(c, tx[w].role)
      /\ collaboration' = [collaboration EXCEPT ![c].role = tx[w].role]
      /\ grant' = [grant EXCEPT ![c] = AfterRoleChange(c, tx[w].role)]
      /\ UNCHANGED issued

(* removeCollaborator *)

BeginRemoveCollaborator(w, actor, c) ==
  LET s == collaboration[c].scope
  IN  /\ Accepts(w)
      /\ Exists(c)
      /\ assertActorCanDelegate(actor, s)
      /\ ScopeIsOpen(s)
      /\ DOMAIN grant[c] \subseteq DOMAIN PermissionEnvelopes(actor, s, now)
      /\ canDelegate(c, now) => assertScopeKeepsDelegator(s, collaboration[c].user)
      /\ Begin(w, [op |-> "removeCollaborator", actor |-> actor, now |-> now, id |-> c])

\* The delete cascades to the permissions.
CommitRemoveCollaborator(w) ==
  /\ Commits(w, "removeCollaborator")
  /\ Exists(tx[w].id)
  /\ collaboration' = [collaboration EXCEPT ![tx[w].id] = Null]
  /\ grant' = [grant EXCEPT ![tx[w].id] = NoGrants]
  /\ UNCHANGED issued

(* grantPermission *)

BeginGrantPermission(w, actor, c, permission, window) ==
  LET s == collaboration[c].scope
      envelopes == PermissionEnvelopes(actor, s, now)
  IN  /\ Accepts(w)
      /\ Exists(c)
      /\ assertActorCanDelegate(actor, s)
      /\ assertWindowValid(window)
      /\ permission \in DOMAIN envelopes
      /\ assertWindowWithinEnvelope(envelopes[permission], window)
      /\ ScopeIsOpen(s)
      /\ Begin(w, [op |-> "grantPermission", actor |-> actor, now |-> now, id |-> c,
                   permission |-> permission, window |-> window])

\* An upsert: a row there is replaced, whatever its source.
CommitGrantPermission(w) ==
  LET c == tx[w].id
      row == [source |-> "OVERRIDE", validFrom |-> tx[w].window.validFrom,
              validUntil |-> tx[w].window.validUntil]
  IN  /\ Commits(w, "grantPermission")
      /\ Exists(c)
      /\ grant' = [grant EXCEPT ![c] =
                     [name \in DOMAIN @ \cup {tx[w].permission} |->
                        IF name = tx[w].permission THEN row ELSE @[name]]]
      /\ UNCHANGED <<collaboration, issued>>

(* revokePermission *)

BeginRevokePermission(w, actor, c, permission) ==
  LET s == collaboration[c].scope
  IN  /\ Accepts(w)
      /\ Exists(c)
      /\ assertActorCanDelegate(actor, s)
      /\ permission \in DOMAIN PermissionEnvelopes(actor, s, now)
      /\ ScopeIsOpen(s)
      /\ permission \in DOMAIN grant[c]
      /\ permission = PERMISSION_GRANT /\ canDelegate(c, now)
           => assertRevokeKeepsDelegator(s, c)
      /\ Begin(w, [op |-> "revokePermission", actor |-> actor, now |-> now, id |-> c,
                   permission |-> permission])

\* deleteMany; when it deletes nothing the request answers 404.
CommitRevokePermission(w) ==
  LET c == tx[w].id
  IN  /\ Commits(w, "revokePermission")
      /\ tx[w].permission \in DOMAIN grant[c]
      /\ grant' = [grant EXCEPT ![c] = [name \in DOMAIN @ \ {tx[w].permission} |-> @[name]]]
      /\ UNCHANGED <<collaboration, issued>>

-----------------------------------------------------------------------------

TypeOK ==
  /\ collaboration \in [Collaborations -> CollaborationRow \cup {Null}]
  /\ DOMAIN grant = Collaborations
  /\ \A c \in Collaborations :
       /\ DOMAIN grant[c] \subseteq PERMISSION_NAMES
       /\ \A name \in DOMAIN grant[c] : grant[c][name] \in Grant
  /\ issued \subseteq Collaborations
  /\ isActive \subseteq Users
  /\ archived \subseteq ProgramScopes
  /\ now \in Nat
  /\ tx \in [Workers -> DelegationTx \cup {Null}]
  /\ clients \in DOMAIN Clients

Init ==
  /\ collaboration = [c \in Collaborations |-> Null]
  /\ grant = [c \in Collaborations |-> NoGrants]
  /\ issued = {}
  /\ isActive = Users
  /\ archived = {}
  /\ now = 0
  /\ tx = [w \in Workers |-> Null]
  /\ clients \in DOMAIN Clients

Tick ==
  /\ now < Sent.until
  /\ now' = now + 1
  /\ UNCHANGED <<tables, isActive, archived, tx, clients>>

\* A constraint refused the transaction, or the request was lost.
Rollback(w) ==
  /\ ~Idle(w)
  /\ tx' = [tx EXCEPT ![w] = Null]
  /\ UNCHANGED <<tables, isActive, archived, now, clients>>

\* PATCH /users/:id of an administrator, seen from here: one request.
SetActive(w, u, active) ==
  /\ Accepts(w)
  /\ isActive' = IF active THEN isActive \cup {u} ELSE isActive \ {u}
  /\ UNCHANGED <<tables, archived, now, tx, clients>>

\* Archival and reactivation of a program, seen from here: one request.
SetArchived(w, p, isArchived) ==
  /\ Accepts(w)
  /\ archived' = IF isArchived THEN archived \cup {p} ELSE archived \ {p}
  /\ UNCHANGED <<tables, isActive, now, tx, clients>>

CollaboratorRequest(w) ==
  \/ \E actor \in Sent.actors, target \in Users, s \in Sent.scopes, role \in CollaborationRoles :
       BeginAddCollaborator(w, actor, s, target, role)
  \/ \E c \in Collaborations : CommitAddCollaborator(w, c)
  \/ \E actor \in Sent.actors, c \in Collaborations, role \in CollaborationRoles :
       BeginUpdateCollaboratorRole(w, actor, c, role)
  \/ CommitUpdateCollaboratorRole(w)
  \/ \E actor \in Sent.actors, c \in Collaborations : BeginRemoveCollaborator(w, actor, c)
  \/ CommitRemoveCollaborator(w)

PermissionRequest(w) ==
  \/ \E actor \in Sent.actors, c \in Collaborations,
        permission \in Sent.delegable, window \in Sent.windows :
       BeginGrantPermission(w, actor, c, permission, window)
  \/ CommitGrantPermission(w)
  \/ \E actor \in Sent.actors, c \in Collaborations, permission \in Sent.delegable :
       BeginRevokePermission(w, actor, c, permission)
  \/ CommitRevokePermission(w)

Next ==
  \/ Tick
  \/ \E w \in Workers :
       \/ CollaboratorRequest(w)
       \/ PermissionRequest(w)
       \/ \E u \in Sent.suspendable, active \in BOOLEAN : SetActive(w, u, active)
       \/ \E p \in ProgramScopes, isArchived \in BOOLEAN : SetArchived(w, p, isArchived)
       \/ Rollback(w)

Spec == Init /\ [][Next]_vars

-----------------------------------------------------------------------------
(***************************************************************************)
(* What the tables keep however the requests interleave.                   *)
(***************************************************************************)

(***************************************************************************)
(* A user collaborates once in a scope, although two requests may both     *)
(* find that there is no collaboration yet (delegation.service.ts,         *)
(* addCollaborator).                                                       *)
(***************************************************************************)
OneCollaborationPerScope ==
  \A c, d \in Collaborations :
    (/\ Exists(c) /\ Exists(d)
     /\ collaboration[c].user = collaboration[d].user
     /\ collaboration[c].scope = collaboration[d].scope)
    => c = d

(***************************************************************************)
(* What a role brought goes with the role: after any sequence of role      *)
(* changes, delegations and revocations a default of a collaborator is one *)
(* of the role they have now, without a window, and never the right to     *)
(* delegate (ADR-0001).                                                    *)
(***************************************************************************)
DefaultsFollowRole ==
  \A c \in Collaborations : \A name \in DefaultsOf(c) :
    /\ Exists(c)
    /\ name \in ROLE_DEFAULTS[collaboration[c].role]
    /\ name # PERMISSION_GRANT
    /\ WindowOf(grant[c][name]) = Unlimited

(***************************************************************************)
(* Nothing delegated outlives the collaboration it was delegated to: a     *)
(* delegation that was decided before the collaborator was removed leaves  *)
(* no permission behind.                                                   *)
(***************************************************************************)
RemovedHoldNothing ==
  \A c \in Collaborations : ~Exists(c) => DOMAIN grant[c] = {}

(***************************************************************************)
(* The relations between users, collaborations, roles and permissions      *)
(* that the indexes, the cascade and the two sources of a permission keep  *)
(* (delegation.service.ts; ADR-0001).                                      *)
(***************************************************************************)
DelegationTables ==
  /\ TypeOK
  /\ OneCollaborationPerScope
  /\ DefaultsFollowRole
  /\ RemovedHoldNothing

-----------------------------------------------------------------------------
(***************************************************************************)
(* What the guards and the listings are worth.                             *)
(***************************************************************************)

(***************************************************************************)
(* The envelope of a permission covers an instant exactly when one of the  *)
(* grants that apply now covers it.  Merging takes the earliest start and  *)
(* the latest end, which would fill a gap between two windows: there is    *)
(* none, because grants that do not apply now are left out before the      *)
(* merge, and those that are left all contain the present (mergeEnvelope). *)
(* ADR-0001, NEG-003, expects such gaps: see GapsCanBeDelegated.           *)
(***************************************************************************)
EnvelopesAreUnions ==
  \A u \in isActive \ Administrators, s \in Scopes :
    LET envelopes == PermissionEnvelopes(u, s, now)
        grants == {g \in GrantsOf(CollaborationsOf(u)) :
                     g.scope \in resolveScope(s) /\ isGrantActive(g, now)}
    IN  \A name \in PERMISSION_NAMES, t \in 0..(Sent.until + 1) :
          (name \in DOMAIN envelopes /\ isGrantActive(envelopes[name], t))
            <=> \E g \in grants : g.permission = name /\ isGrantActive(g, t)

(***************************************************************************)
(* The three listings tell what requirePermission would decide: the own    *)
(* permissions of a user, the scopes they find, and the collaborators of a *)
(* scope show the names and windows of their effective permissions there.  *)
(***************************************************************************)
ListingsMatchGuards ==
  \A u \in Users \ Administrators, s \in Scopes :
    LET grants == GrantsOf(CollaborationsOf(u))
        envelopes == PermissionEnvelopes(u, s, now)
        agrees(entries) ==
          /\ DOMAIN entries = DOMAIN envelopes
          /\ \A name \in DOMAIN entries : entries[name].envelope = envelopes[name]
        memberships == {collaboration[c].scope : c \in CollaborationsOf(u)}
        found == listCollaborationScopes(memberships, grants, now)
    IN  /\ agrees(getPermissionProvenance(globalRole(u), grants, s, now))
        /\ \A item \in listCollaborators(s, now) : item.user = u => agrees(item.permissions)
        /\ \A item \in found : item.scope = s => agrees(item.permissions)
        /\ s \in {item.scope : item \in found}
             <=> s \in memberships /\ DOMAIN envelopes # {}

Delegators(s, t) == {c \in CollaborationsIn(s) : canDelegate(c, t)}

\* Requests run one at a time.
Alone == Sent.inFlight = 1

\* A step keeps somebody who could delegate in s when the request was made.
KeepsADelegator(w) ==
  \A s \in Scopes, t \in 0..Sent.until :
    t = tx[w].now /\ Delegators(s, t) # {} => (Delegators(s, t) # {})'

(***************************************************************************)
(* Removing a collaborator, or the right to delegate, leaves somebody able *)
(* to delegate in every scope that had somebody, the activities of a       *)
(* program included, as long as requests run one at a time.                *)
(***************************************************************************)
RemovalsKeepADelegator ==
  [][Alone => \A w \in Workers :
       CommitRemoveCollaborator(w) \/ CommitRevokePermission(w) => KeepsADelegator(w)]_vars

\* u may do what the permission allows in scope s at instant t, by the grants
\* that u has.
Covered(u, s, name, t) ==
  \/ u \in Administrators
  \/ \E g \in GrantsOf(CollaborationsOf(u)) :
       g.scope \in resolveScope(s) /\ g.permission = name /\ isGrantActive(g, t)

(***************************************************************************)
(* Delegation is attenuated: at no instant does a delegated permission     *)
(* apply when the one who delegates could not use it by grants of their    *)
(* own, whatever windows these have.  The code promises more here than     *)
(* ADR-0001, NEG-003, which lets an actor delegate over a gap between      *)
(* windows of their own: see GapsCanBeDelegated.  One request at a time:   *)
(* a grant of the actor may be revoked before a delegation that was        *)
(* decided by it.                                                          *)
(***************************************************************************)
DelegatedTimeIsHeldTime ==
  [][Alone => \A w \in Workers : CommitGrantPermission(w) =>
       \A t \in 0..(Sent.until + 1) :
         isGrantActive(tx[w].window, t)
           => Covered(tx[w].actor, collaboration[tx[w].id].scope, tx[w].permission, t)]_vars

\* The windows u was granted of a permission in s, those that ended aside.
UnexpiredWindows(u, s, name) ==
  {WindowOf(g) : g \in {h \in GrantsOf(CollaborationsOf(u)) :
     /\ h.scope \in resolveScope(s) /\ h.permission = name
     /\ h.validUntil # Null => now < h.validUntil}}

(***************************************************************************)
(* "La atenuacion temporal usa un envelope conservador (inicio mas         *)
(* temprano, fin mas tardio).  Un actor con multiples ventanas disjuntas   *)
(* puede otorgar dentro de la envolvente aunque no cubra un hueco          *)
(* intermedio" (ADR-0001, NEG-003): whoever may delegate a permission may  *)
(* do so for every window between the earliest start and the latest end of *)
(* what they were granted of it, expired grants aside (ADR-0001:33).       *)
(***************************************************************************)
GapsCanBeDelegated ==
  \A u \in isActive \ Administrators, s \in Scopes :
    LET envelopes == PermissionEnvelopes(u, s, now)
    IN  PERMISSION_GRANT \in DOMAIN envelopes =>
          \A name \in DOMAIN envelopes, window \in Sent.windows :
            assertWindowWithinEnvelope(Envelope(UnexpiredWindows(u, s, name)), window)
              => assertWindowWithinEnvelope(envelopes[name], window)

(***************************************************************************)
(* A change of role that passed every guard can be written: the overrides  *)
(* that it keeps do not stand in its way.                                  *)
(***************************************************************************)
RoleChangesCanBeWritten ==
  \A w \in Workers :
    (~Idle(w) /\ tx[w].op = "updateCollaboratorRole" /\ Exists(tx[w].id))
      => collaboration_permissions_pkey(tx[w].id, tx[w].role)
=============================================================================
