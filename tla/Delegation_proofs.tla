------------------------- MODULE Delegation_proofs -------------------------
(***************************************************************************)
(* Delegation, for every set of users, scopes, roles, requests and         *)
(* workers: the tables, however the requests interleave; the listings and  *)
(* the envelopes, in every reachable state; and what requests that run one *)
(* at a time keep.                                                         *)
(*                                                                         *)
(* DelegationTables is inductive as it stands.  AloneInv adds what a       *)
(* request in flight found when it was decided, and that the requests in   *)
(* flight and the rows are finitely many, which holds by counting steps    *)
(* and is no assumption on the constants.                                  *)
(***************************************************************************)
EXTENDS Delegation, FiniteSetTheorems, WellFoundedInduction, TLAPS

-----------------------------------------------------------------------------
(* Rows and transactions. *)

\* A transaction has the fields of its operation.
LEMMA TransactionShapes ==
  ASSUME NEW t \in DelegationTx
  PROVE  /\ t.op = "addCollaborator" => t.row \in CollaborationRow
         /\ t.op = "updateCollaboratorRole" =>
              t.id \in Collaborations /\ t.role \in CollaborationRoles
         /\ t.op = "removeCollaborator" => t.id \in Collaborations
         /\ t.op = "grantPermission" =>
              /\ t.id \in Collaborations /\ t.permission \in PERMISSION_NAMES
              /\ t.window \in Window
         /\ t.op = "revokePermission" =>
              t.id \in Collaborations /\ t.permission \in PERMISSION_NAMES
         /\ t.actor \in Users /\ t.now \in Nat
BY DEF DelegationTx

\* The transaction about to run is typed.
LEMMA CommitsTyped ==
  ASSUME TypeOK, NEW w \in Workers, NEW op, Commits(w, op)
  PROVE  /\ tx[w] \in DelegationTx /\ tx[w].op = op
         /\ tx' \in [Workers -> DelegationTx \cup {Null}]
BY DEF TypeOK, Commits, Idle

\* What clients send is typed.
LEMMA SentTyped ==
  ASSUME TypeOK
  PROVE  /\ Sent.actors \subseteq Users /\ Sent.scopes \subseteq Scopes
         /\ Sent.windows \subseteq Window /\ Sent.delegable \subseteq PERMISSION_NAMES
         /\ Sent.suspendable \subseteq Users /\ Sent.inFlight \in Nat /\ Sent.until \in Nat
BY DelegationAssumption DEF TypeOK, Sent

\* The defaults of a role are unlimited rows, and none delegates.
LEMMA DefaultsTyped ==
  ASSUME NEW role \in CollaborationRoles
  PROVE  /\ DOMAIN DefaultGrants(role) = ROLE_DEFAULTS[role]
         /\ ROLE_DEFAULTS[role] \subseteq PERMISSION_NAMES
         /\ PERMISSION_GRANT \notin ROLE_DEFAULTS[role]
         /\ \A name \in ROLE_DEFAULTS[role] :
              /\ DefaultGrants(role)[name] \in Grant
              /\ DefaultGrants(role)[name].source = "ROLE_DEFAULT"
              /\ WindowOf(DefaultGrants(role)[name]) = Unlimited
BY CatalogAssumption DEF DefaultGrants, Grant, WindowOf, Unlimited

-----------------------------------------------------------------------------
(* The shapes of a step. *)

\* A request that begins leaves the tables alone.
LEMMA BeginKeepsTables ==
  ASSUME DelegationTables, NEW w \in Workers, NEW t \in DelegationTx, Begin(w, t)
  PROVE  DelegationTables'
<1>1. TypeOK' BY DEF DelegationTables, TypeOK, Begin, tables
<1> QED
  BY <1>1 DEF DelegationTables, Begin, tables, OneCollaborationPerScope, DefaultsFollowRole,
              RemovedHoldNothing, DefaultsOf, Exists

\* A step that writes none of the tables.
LEMMA IdleKeepsTables ==
  ASSUME DelegationTables, TypeOK', UNCHANGED tables
  PROVE  DelegationTables'
BY DEF DelegationTables, tables, OneCollaborationPerScope, DefaultsFollowRole,
       RemovedHoldNothing, DefaultsOf, Exists

-----------------------------------------------------------------------------
(* The transactions. *)

\* addCollaborator: the unique index refuses a second row, and a new row has
\* the defaults of its role.
LEMMA AddKeepsTables ==
  ASSUME DelegationTables, NEW w \in Workers, NEW c \in Collaborations,
         CommitAddCollaborator(w, c)
  PROVE  DelegationTables'
<1> DEFINE row == tx[w].row
<1>1. row \in CollaborationRow /\ row # Null
  BY CommitsTyped, TransactionShapes, RowAssumption DEF DelegationTables, CommitAddCollaborator
<1>2. row.role \in CollaborationRoles BY <1>1 DEF CollaborationRow
<1>3. /\ collaboration' = [collaboration EXCEPT ![c] = row]
      /\ grant' = [grant EXCEPT ![c] = DefaultGrants(row.role)]
      /\ issued' = issued \cup {c}
      /\ collaborations_user_key(row)
      /\ UNCHANGED <<isActive, archived, now, clients>>
  BY DEF CommitAddCollaborator, Commits
<1>4. /\ collaboration'[c] = row /\ grant'[c] = DefaultGrants(row.role)
      /\ \A d \in Collaborations : d # c =>
           collaboration'[d] = collaboration[d] /\ grant'[d] = grant[d]
  BY <1>3 DEF DelegationTables, TypeOK
<1> HIDE DEF row
<1>5. TypeOK'
  BY <1>1, <1>2, <1>3, <1>4, CommitsTyped, DefaultsTyped
  DEF DelegationTables, TypeOK, CommitAddCollaborator
<1>6. OneCollaborationPerScope'
  <2>1. \A d \in Collaborations : Exists(d) /\ collaboration[d].user = row.user
          => collaboration[d].scope # row.scope
    BY <1>3 DEF collaborations_user_key, CollaborationsOf
  <2> QED BY <2>1, <1>4 DEF DelegationTables, OneCollaborationPerScope, Exists
<1>7. DefaultsFollowRole'
  <2> SUFFICES ASSUME NEW d \in Collaborations, NEW name \in DefaultsOf(d)'
               PROVE  /\ collaboration'[d] # Null
                      /\ name \in ROLE_DEFAULTS[collaboration'[d].role]
                      /\ name # PERMISSION_GRANT
                      /\ WindowOf(grant'[d][name]) = Unlimited
    BY DEF DefaultsFollowRole, Exists
  <2>1. CASE d = c
    BY <2>1, <1>1, <1>2, <1>4, DefaultsTyped DEF DefaultsOf
  <2>2. CASE d # c
    BY <2>2, <1>4 DEF DelegationTables, DefaultsFollowRole, DefaultsOf, Exists
  <2> QED BY <2>1, <2>2
<1>8. RemovedHoldNothing' BY <1>1, <1>4 DEF DelegationTables, RemovedHoldNothing, Exists
<1> QED BY <1>5, <1>6, <1>7, <1>8 DEF DelegationTables

\* updateCollaboratorRole: the overrides stay, the defaults are replaced.
LEMMA RoleKeepsTables ==
  ASSUME DelegationTables, NEW w \in Workers, CommitUpdateCollaboratorRole(w)
  PROVE  DelegationTables'
<1> DEFINE c == tx[w].id
           role == tx[w].role
           kept == DOMAIN grant[c] \ DefaultsOf(c)
<1>1. c \in Collaborations /\ role \in CollaborationRoles
  BY CommitsTyped, TransactionShapes DEF DelegationTables, CommitUpdateCollaboratorRole
<1>2. /\ collaboration' = [collaboration EXCEPT ![c].role = role]
      /\ grant' = [grant EXCEPT ![c] = AfterRoleChange(c, role)]
      /\ Exists(c)
      /\ UNCHANGED <<issued, isActive, archived, now, clients>>
  BY DEF CommitUpdateCollaboratorRole, Commits
<1>3. collaboration[c] \in CollaborationRow
  BY <1>1, <1>2 DEF DelegationTables, TypeOK, Exists
<1>4. /\ collaboration'[c] \in CollaborationRow /\ collaboration'[c].role = role
      /\ collaboration'[c].user = collaboration[c].user
      /\ collaboration'[c].scope = collaboration[c].scope
      /\ grant'[c] = AfterRoleChange(c, role)
      /\ \A d \in Collaborations : d # c =>
           collaboration'[d] = collaboration[d] /\ grant'[d] = grant[d]
      /\ DOMAIN grant' = Collaborations
      /\ collaboration' \in [Collaborations -> CollaborationRow \cup {Null}]
  BY <1>1, <1>2, <1>3 DEF DelegationTables, TypeOK, CollaborationRow
<1>5. /\ DOMAIN AfterRoleChange(c, role) = kept \cup ROLE_DEFAULTS[role]
      /\ \A name \in kept : AfterRoleChange(c, role)[name] = grant[c][name]
      /\ \A name \in ROLE_DEFAULTS[role] \ kept :
           AfterRoleChange(c, role)[name] = DefaultGrants(role)[name]
  BY DEF AfterRoleChange
<1>6. \A name \in kept : /\ name \in PERMISSION_NAMES /\ grant[c][name] \in Grant
                         /\ grant[c][name].source # "ROLE_DEFAULT"
  BY <1>1 DEF DelegationTables, TypeOK, DefaultsOf
<1> HIDE DEF c, role, kept
<1>7. TypeOK'
  <2>1. \A name \in DOMAIN grant'[c] : name \in PERMISSION_NAMES /\ grant'[c][name] \in Grant
    BY <1>1, <1>4, <1>5, <1>6, DefaultsTyped
  <2>2. tx' \in [Workers -> DelegationTx \cup {Null}]
    BY CommitsTyped DEF DelegationTables, CommitUpdateCollaboratorRole
  <2> QED BY <1>2, <1>4, <2>1, <2>2 DEF DelegationTables, TypeOK
<1>8. collaboration'[c] # Null BY <1>4, RowAssumption
<1>9. OneCollaborationPerScope'
  BY <1>2, <1>4 DEF DelegationTables, OneCollaborationPerScope, Exists
<1>10. DefaultsFollowRole'
  <2> SUFFICES ASSUME NEW d \in Collaborations, NEW name \in DefaultsOf(d)'
               PROVE  /\ collaboration'[d] # Null
                      /\ name \in ROLE_DEFAULTS[collaboration'[d].role]
                      /\ name # PERMISSION_GRANT
                      /\ WindowOf(grant'[d][name]) = Unlimited
    BY DEF DefaultsFollowRole, Exists
  <2>1. CASE d = c
    <3>1. name \in ROLE_DEFAULTS[role] \ kept
      BY <2>1, <1>4, <1>5, <1>6 DEF DefaultsOf
    <3> QED BY <3>1, <2>1, <1>1, <1>4, <1>5, <1>8, DefaultsTyped
  <2>2. CASE d # c
    BY <2>2, <1>4 DEF DelegationTables, DefaultsFollowRole, DefaultsOf, Exists
  <2> QED BY <2>1, <2>2
<1>11. RemovedHoldNothing'
  BY <1>4, <1>8 DEF DelegationTables, RemovedHoldNothing, Exists
<1> QED BY <1>7, <1>9, <1>10, <1>11 DEF DelegationTables

\* removeCollaborator: the delete cascades to the permissions.
LEMMA RemoveKeepsTables ==
  ASSUME DelegationTables, NEW w \in Workers, CommitRemoveCollaborator(w)
  PROVE  DelegationTables'
<1> DEFINE c == tx[w].id
<1>1. c \in Collaborations
  BY CommitsTyped, TransactionShapes DEF DelegationTables, CommitRemoveCollaborator
<1>2. /\ collaboration' = [collaboration EXCEPT ![c] = Null]
      /\ grant' = [grant EXCEPT ![c] = NoGrants]
      /\ UNCHANGED <<issued, isActive, archived, now, clients>>
  BY DEF CommitRemoveCollaborator, Commits
<1>3. /\ collaboration'[c] = Null /\ DOMAIN grant'[c] = {}
      /\ \A d \in Collaborations : d # c =>
           collaboration'[d] = collaboration[d] /\ grant'[d] = grant[d]
      /\ DOMAIN grant' = Collaborations
      /\ collaboration' \in [Collaborations -> CollaborationRow \cup {Null}]
  BY <1>1, <1>2 DEF DelegationTables, TypeOK, NoGrants
<1> HIDE DEF c
<1>4. TypeOK'
  <2>1. tx' \in [Workers -> DelegationTx \cup {Null}]
    BY CommitsTyped DEF DelegationTables, CommitRemoveCollaborator
  <2> QED BY <2>1, <1>2, <1>3 DEF DelegationTables, TypeOK
<1>5. OneCollaborationPerScope'
  BY <1>3 DEF DelegationTables, OneCollaborationPerScope, Exists
<1>6. DefaultsFollowRole'
  BY <1>3 DEF DelegationTables, DefaultsFollowRole, DefaultsOf, Exists
<1>7. RemovedHoldNothing' BY <1>3 DEF DelegationTables, RemovedHoldNothing, Exists
<1> QED BY <1>4, <1>5, <1>6, <1>7 DEF DelegationTables

\* grantPermission: the row written is an override, the others stay.
LEMMA GrantKeepsTables ==
  ASSUME DelegationTables, NEW w \in Workers, CommitGrantPermission(w)
  PROVE  DelegationTables'
<1> DEFINE c == tx[w].id
           permission == tx[w].permission
           row == [source |-> "OVERRIDE", validFrom |-> tx[w].window.validFrom,
                   validUntil |-> tx[w].window.validUntil]
<1>1. c \in Collaborations /\ permission \in PERMISSION_NAMES /\ tx[w].window \in Window
  BY CommitsTyped, TransactionShapes DEF DelegationTables, CommitGrantPermission
<1>2. row \in Grant /\ row.source = "OVERRIDE" BY <1>1 DEF Window, Grant
<1>3. /\ grant' = [grant EXCEPT ![c] = [name \in DOMAIN @ \cup {permission} |->
                                          IF name = permission THEN row ELSE @[name]]]
      /\ Exists(c)
      /\ UNCHANGED <<collaboration, issued, isActive, archived, now, clients>>
  BY DEF CommitGrantPermission, Commits
<1> HIDE DEF c, permission, row
<1>4. /\ DOMAIN grant'[c] = DOMAIN grant[c] \cup {permission}
      /\ grant'[c][permission] = row
      /\ \A name \in DOMAIN grant[c] : name # permission => grant'[c][name] = grant[c][name]
      /\ \A d \in Collaborations : d # c => grant'[d] = grant[d]
      /\ DOMAIN grant' = Collaborations
  BY <1>1, <1>3 DEF DelegationTables, TypeOK
<1>5. TypeOK'
  <2>1. tx' \in [Workers -> DelegationTx \cup {Null}]
    BY CommitsTyped DEF DelegationTables, CommitGrantPermission
  <2> QED BY <2>1, <1>1, <1>2, <1>3, <1>4 DEF DelegationTables, TypeOK
<1>6. OneCollaborationPerScope'
  BY <1>3 DEF DelegationTables, OneCollaborationPerScope, Exists
<1>7. DefaultsFollowRole'
  <2> SUFFICES ASSUME NEW d \in Collaborations, NEW name \in DefaultsOf(d)'
               PROVE  name \in DefaultsOf(d) /\ grant'[d][name] = grant[d][name]
    BY <1>3 DEF DelegationTables, DefaultsFollowRole, Exists
  <2> QED BY <1>2, <1>4 DEF DefaultsOf
<1>8. RemovedHoldNothing'
  BY <1>3, <1>4 DEF DelegationTables, RemovedHoldNothing, Exists
<1> QED BY <1>5, <1>6, <1>7, <1>8 DEF DelegationTables

\* revokePermission: rows are only deleted.
LEMMA RevokeKeepsTables ==
  ASSUME DelegationTables, NEW w \in Workers, CommitRevokePermission(w)
  PROVE  DelegationTables'
<1> DEFINE c == tx[w].id
           permission == tx[w].permission
<1>1. c \in Collaborations
  BY CommitsTyped, TransactionShapes DEF DelegationTables, CommitRevokePermission
<1>2. /\ grant' = [grant EXCEPT ![c] = [name \in DOMAIN @ \ {permission} |-> @[name]]]
      /\ UNCHANGED <<collaboration, issued, isActive, archived, now, clients>>
  BY DEF CommitRevokePermission, Commits
<1> HIDE DEF c, permission
<1>3. /\ DOMAIN grant' = Collaborations
      /\ \A d \in Collaborations :
           /\ DOMAIN grant'[d] \subseteq DOMAIN grant[d]
           /\ \A name \in DOMAIN grant'[d] : grant'[d][name] = grant[d][name]
  BY <1>1, <1>2 DEF DelegationTables, TypeOK
<1>4. TypeOK'
  <2>1. tx' \in [Workers -> DelegationTx \cup {Null}]
    BY CommitsTyped DEF DelegationTables, CommitRevokePermission
  <2> QED BY <2>1, <1>2, <1>3 DEF DelegationTables, TypeOK
<1>5. OneCollaborationPerScope'
  BY <1>2 DEF DelegationTables, OneCollaborationPerScope, Exists
<1>6. DefaultsFollowRole'
  BY <1>2, <1>3 DEF DelegationTables, DefaultsFollowRole, DefaultsOf, Exists
<1>7. RemovedHoldNothing' BY <1>2, <1>3 DEF DelegationTables, RemovedHoldNothing, Exists
<1> QED BY <1>4, <1>5, <1>6, <1>7 DEF DelegationTables

-----------------------------------------------------------------------------
(* The reads: what a request remembers is typed. *)

LEMMA ReadsKeepTables ==
  ASSUME DelegationTables, NEW w \in Workers, NEW actor \in Sent.actors
  PROVE  /\ \A target \in Users, s \in Sent.scopes, role \in CollaborationRoles :
              BeginAddCollaborator(w, actor, s, target, role) => DelegationTables'
         /\ \A c \in Collaborations, role \in CollaborationRoles :
              BeginUpdateCollaboratorRole(w, actor, c, role) => DelegationTables'
         /\ \A c \in Collaborations : BeginRemoveCollaborator(w, actor, c) => DelegationTables'
         /\ \A c \in Collaborations, permission \in Sent.delegable, window \in Sent.windows :
              BeginGrantPermission(w, actor, c, permission, window) => DelegationTables'
         /\ \A c \in Collaborations, permission \in Sent.delegable :
              BeginRevokePermission(w, actor, c, permission) => DelegationTables'
<1>0. actor \in Users /\ now \in Nat BY SentTyped DEF DelegationTables, TypeOK
<1>1. ASSUME NEW target \in Users, NEW s \in Sent.scopes, NEW role \in CollaborationRoles,
             BeginAddCollaborator(w, actor, s, target, role)
      PROVE  DelegationTables'
  <2> DEFINE t == [op |-> "addCollaborator", actor |-> actor, now |-> now,
                   row |-> [user |-> target, scope |-> s, role |-> role]]
  <2>1. s \in Scopes BY SentTyped DEF DelegationTables
  <2>2. t \in DelegationTx BY <1>0, <2>1 DEF DelegationTx, CollaborationRow
  <2>3. Begin(w, t) BY <1>1 DEF BeginAddCollaborator
  <2> QED BY <2>2, <2>3, BeginKeepsTables
<1>2. ASSUME NEW c \in Collaborations, NEW role \in CollaborationRoles,
             BeginUpdateCollaboratorRole(w, actor, c, role)
      PROVE  DelegationTables'
  <2> DEFINE t == [op |-> "updateCollaboratorRole", actor |-> actor, now |-> now,
                   id |-> c, role |-> role]
  <2>1. t \in DelegationTx BY <1>0 DEF DelegationTx
  <2>2. Begin(w, t) BY <1>2 DEF BeginUpdateCollaboratorRole
  <2> QED BY <2>1, <2>2, BeginKeepsTables
<1>3. ASSUME NEW c \in Collaborations, BeginRemoveCollaborator(w, actor, c)
      PROVE  DelegationTables'
  <2> DEFINE t == [op |-> "removeCollaborator", actor |-> actor, now |-> now, id |-> c]
  <2>1. t \in DelegationTx BY <1>0 DEF DelegationTx
  <2>2. Begin(w, t) BY <1>3 DEF BeginRemoveCollaborator
  <2> QED BY <2>1, <2>2, BeginKeepsTables
<1>4. ASSUME NEW c \in Collaborations, NEW permission \in Sent.delegable,
             NEW window \in Sent.windows,
             BeginGrantPermission(w, actor, c, permission, window)
      PROVE  DelegationTables'
  <2> DEFINE t == [op |-> "grantPermission", actor |-> actor, now |-> now, id |-> c,
                   permission |-> permission, window |-> window]
  <2>1. permission \in PERMISSION_NAMES /\ window \in Window
    BY SentTyped DEF DelegationTables
  <2>2. t \in DelegationTx BY <1>0, <2>1 DEF DelegationTx
  <2>3. Begin(w, t) BY <1>4 DEF BeginGrantPermission
  <2> QED BY <2>2, <2>3, BeginKeepsTables
<1>5. ASSUME NEW c \in Collaborations, NEW permission \in Sent.delegable,
             BeginRevokePermission(w, actor, c, permission)
      PROVE  DelegationTables'
  <2> DEFINE t == [op |-> "revokePermission", actor |-> actor, now |-> now, id |-> c,
                   permission |-> permission]
  <2>1. permission \in PERMISSION_NAMES BY SentTyped DEF DelegationTables
  <2>2. t \in DelegationTx BY <1>0, <2>1 DEF DelegationTx
  <2>3. Begin(w, t) BY <1>5 DEF BeginRevokePermission
  <2> QED BY <2>2, <2>3, BeginKeepsTables
<1> QED BY <1>1, <1>2, <1>3, <1>4, <1>5

\* What is no operation of this module: the clock, a lost request, and the
\* users and programs that other requests deactivate and archive.
LEMMA OthersKeepTables ==
  ASSUME DelegationTables
  PROVE  /\ Tick => DelegationTables'
         /\ \A w \in Workers : Rollback(w) => DelegationTables'
         /\ \A w \in Workers, u \in Sent.suspendable, active \in BOOLEAN :
              SetActive(w, u, active) => DelegationTables'
         /\ \A w \in Workers, p \in ProgramScopes, isArchived \in BOOLEAN :
              SetArchived(w, p, isArchived) => DelegationTables'
         /\ UNCHANGED vars => DelegationTables'
<1>1. Tick => TypeOK' /\ UNCHANGED tables BY DEF Tick, tables, DelegationTables, TypeOK
<1>2. ASSUME NEW w \in Workers, Rollback(w) PROVE TypeOK' /\ UNCHANGED tables
  BY <1>2 DEF Rollback, tables, DelegationTables, TypeOK
<1>3. ASSUME NEW w \in Workers, NEW u \in Sent.suspendable, NEW active \in BOOLEAN,
             SetActive(w, u, active)
      PROVE  TypeOK' /\ UNCHANGED tables
  <2>1. u \in Users BY SentTyped DEF DelegationTables
  <2>2. isActive' \subseteq Users BY <1>3, <2>1 DEF SetActive, DelegationTables, TypeOK
  <2> QED BY <1>3, <2>2 DEF SetActive, tables, DelegationTables, TypeOK
<1>4. ASSUME NEW w \in Workers, NEW p \in ProgramScopes, NEW isArchived \in BOOLEAN,
             SetArchived(w, p, isArchived)
      PROVE  TypeOK' /\ UNCHANGED tables
  <2>1. archived' \subseteq ProgramScopes BY <1>4 DEF SetArchived, DelegationTables, TypeOK
  <2> QED BY <1>4, <2>1 DEF SetArchived, tables, DelegationTables, TypeOK
<1>5. UNCHANGED vars => TypeOK' /\ UNCHANGED tables
  BY DEF vars, tables, DelegationTables, TypeOK
<1> QED BY <1>1, <1>2, <1>3, <1>4, <1>5, IdleKeepsTables

LEMMA TablesStep == DelegationTables /\ [Next]_vars => DelegationTables'
<1> SUFFICES ASSUME DelegationTables, [Next]_vars PROVE DelegationTables'
  OBVIOUS
<1>1. ASSUME NEW w \in Workers, CollaboratorRequest(w) PROVE DelegationTables'
  BY <1>1, ReadsKeepTables, AddKeepsTables, RoleKeepsTables, RemoveKeepsTables
  DEF CollaboratorRequest
<1>2. ASSUME NEW w \in Workers, PermissionRequest(w) PROVE DelegationTables'
  BY <1>2, ReadsKeepTables, GrantKeepsTables, RevokeKeepsTables DEF PermissionRequest
<1> QED BY <1>1, <1>2, OthersKeepTables DEF Next

LEMMA TablesInit == Init => DelegationTables
<1> SUFFICES ASSUME Init PROVE DelegationTables
  OBVIOUS
<1>1. TypeOK BY DEF Init, TypeOK, NoGrants
<1> QED
  BY <1>1 DEF Init, DelegationTables, OneCollaborationPerScope, DefaultsFollowRole,
              RemovedHoldNothing, DefaultsOf, Exists, NoGrants

(* A user collaborates once in a scope, the defaults of a collaborator are *)
(* those of the role they have, and nothing delegated outlives the         *)
(* collaboration, whatever interleaves (delegation.service.ts, ADR-0001).  *)
THEOREM DelegationTablesAlways == Spec => []DelegationTables
BY TablesInit, TablesStep, PTL DEF Spec
-----------------------------------------------------------------------------
(***************************************************************************)
(* The listings.  Each of them hands to resolvePermissionEntries exactly   *)
(* the grants that requirePermission finds, so that the windows merged for *)
(* a permission are the same set.                                          *)
(***************************************************************************)

\* The entries of a listing are the envelopes of the guard.
LEMMA EntriesAreEnvelopes ==
  ASSUME NEW grants, NEW s, NEW t, \A g \in grants : g.permission \in PERMISSION_NAMES,
         NEW own, own = {g \in grants : g.scope \in resolveScope(s)}
  PROVE  LET entries == resolvePermissionEntries(s, own, t)
             envelopes == getPermissionEnvelopes("USER", grants, s, t)
         IN  /\ DOMAIN entries = DOMAIN envelopes
             /\ \A name \in DOMAIN envelopes : entries[name].envelope = envelopes[name]
<1> DEFINE applies == {g \in grants : g.scope \in resolveScope(s) /\ isGrantActive(g, t)}
           shown == {g \in own : isGrantActive(g, t) /\ g.permission \in PERMISSION_NAMES}
           entries == resolvePermissionEntries(s, own, t)
           envelopes == getPermissionEnvelopes("USER", grants, s, t)
<1>1. shown = applies OBVIOUS
<1>2. /\ DOMAIN entries = {g.permission : g \in shown}
      /\ \A name \in DOMAIN entries :
           entries[name].envelope
             = Envelope({WindowOf(g) : g \in {h \in shown : h.permission = name}})
  BY DEF resolvePermissionEntries
<1>3. /\ DOMAIN envelopes = {g.permission : g \in applies}
      /\ \A name \in DOMAIN envelopes :
           envelopes[name] = Envelope({WindowOf(g) : g \in {h \in applies : h.permission = name}})
  BY DEF getPermissionEnvelopes
<1> HIDE DEF applies, shown, entries, envelopes
<1>4. QED BY <1>1, <1>2, <1>3 DEF entries, envelopes

\* The grants of a user name permissions of the catalog.
LEMMA GrantsTyped ==
  ASSUME TypeOK, NEW u
  PROVE  \A g \in GrantsOf(CollaborationsOf(u)) : g.permission \in PERMISSION_NAMES
BY DEF TypeOK, GrantsOf, CollaborationsOf

LEMMA ListingsFollowTypes == TypeOK => ListingsMatchGuards
<1> SUFFICES ASSUME TypeOK, NEW u \in Users \ Administrators, NEW s \in Scopes
             PROVE  LET grants == GrantsOf(CollaborationsOf(u))
                        envelopes == PermissionEnvelopes(u, s, now)
                        agrees(entries) ==
                          /\ DOMAIN entries = DOMAIN envelopes
                          /\ \A name \in DOMAIN entries :
                               entries[name].envelope = envelopes[name]
                        memberships == {collaboration[c].scope : c \in CollaborationsOf(u)}
                        found == listCollaborationScopes(memberships, grants, now)
                    IN  /\ agrees(getPermissionProvenance(globalRole(u), grants, s, now))
                        /\ \A item \in listCollaborators(s, now) :
                             item.user = u => agrees(item.permissions)
                        /\ \A item \in found : item.scope = s => agrees(item.permissions)
                        /\ s \in {item.scope : item \in found}
                             <=> s \in memberships /\ DOMAIN envelopes # {}
  BY DEF ListingsMatchGuards
<1> DEFINE grants == GrantsOf(CollaborationsOf(u))
           own == {g \in grants : g.scope \in resolveScope(s)}
           entries == resolvePermissionEntries(s, own, now)
           envelopes == PermissionEnvelopes(u, s, now)
           memberships == {collaboration[c].scope : c \in CollaborationsOf(u)}
           found == listCollaborationScopes(memberships, grants, now)
           agrees(e) == /\ DOMAIN e = DOMAIN envelopes
                        /\ \A name \in DOMAIN e : e[name].envelope = envelopes[name]
<1>1. globalRole(u) = "USER" /\ envelopes = getPermissionEnvelopes("USER", grants, s, now)
  BY DEF globalRole, PermissionEnvelopes
<1>2. agrees(entries)
  BY <1>1, GrantsTyped, EntriesAreEnvelopes
<1>3. agrees(getPermissionProvenance(globalRole(u), grants, s, now))
  <2>1. getPermissionProvenance("USER", grants, s, now)
          = [name \in DOMAIN entries |->
               [envelope |-> entries[name].envelope, origin |-> entries[name].origin]]
    BY DEF getPermissionProvenance
  <2> HIDE DEF entries, envelopes
  <2> QED BY <1>1, <1>2, <2>1
<1>4. agrees(CollaboratorPermissions(grants, s, now))
  <2> DEFINE both == {g \in grants : g.scope = s} \cup {g \in grants : g.scope = ProgramOf(s)}
             p == CollaboratorPermissions(grants, s, now)
             shown == resolvePermissionEntries(s, both, now)
  <2>1. both = own BY DEF resolveScope
  <2>2. /\ DOMAIN p = DOMAIN shown
        /\ \A name \in DOMAIN p : p[name].envelope = shown[name].envelope
    BY DEF CollaboratorPermissions
  <2>3. shown = entries BY <2>1
  <2> HIDE DEF entries, envelopes, p, shown
  <2>4. agrees(p) BY <1>2, <2>2, <2>3
  <2> QED BY <2>4 DEF p
<1>5. \A item \in listCollaborators(s, now) : item.user = u => agrees(item.permissions)
  <2> SUFFICES ASSUME NEW item \in listCollaborators(s, now), item.user = u
               PROVE  item.permissions = CollaboratorPermissions(grants, s, now)
    BY <1>4
  <2> QED BY DEF listCollaborators
<1> DEFINE of(m) ==
             resolvePermissionEntries(m, {g \in grants : g.scope \in resolveScope(m)}, now)
<1>6. found = {[scope |-> m, permissions |-> of(m)] :
                 m \in {n \in memberships : DOMAIN of(n) # {}}}
  BY DEF listCollaborationScopes
<1>7. /\ \A item \in found : item.scope = s => item.permissions = entries
      /\ s \in {item.scope : item \in found} <=> s \in memberships /\ DOMAIN entries # {}
  <2>1. entries = of(s) OBVIOUS
  <2> HIDE DEF found, entries, of, memberships
  <2>2. \A item \in found : \E m \in memberships :
          /\ item.scope = m /\ item.permissions = of(m) /\ DOMAIN of(m) # {}
    BY <1>6
  <2>3. \A m \in memberships : DOMAIN of(m) # {} =>
          [scope |-> m, permissions |-> of(m)] \in found
    BY <1>6
  <2>4. \A m \in memberships : DOMAIN of(m) # {} => \E item \in found : item.scope = m
    BY <2>3
  <2> QED BY <2>1, <2>2, <2>4
<1> HIDE DEF entries, envelopes, found, memberships, grants, own, of
<1>9. \A item \in found : item.scope = s => agrees(item.permissions)
  BY <1>2, <1>7
<1>10. s \in {item.scope : item \in found} <=> s \in memberships /\ DOMAIN envelopes # {}
  BY <1>2, <1>7
<1> QED
  BY <1>3, <1>5, <1>9, <1>10 DEF entries, envelopes, found, memberships, grants, own

(* What the listings show of a permission, its window included, is what    *)
(* the guard of a request would decide, in every reachable state           *)
(* (authorization.service.ts).                                             *)
THEOREM ListingsMatchGuardsAlways == Spec => []ListingsMatchGuards
<1>1. DelegationTables => ListingsMatchGuards BY ListingsFollowTypes DEF DelegationTables
<1> QED BY <1>1, DelegationTablesAlways, PTL

-----------------------------------------------------------------------------
(***************************************************************************)
(* Requests that run one at a time.  Between the decision of a request and *)
(* its transaction only the clock moves: whatever a request found when it  *)
(* was made still holds, at that instant, when its transaction runs.       *)
(***************************************************************************)

InFlight == {w \in Workers : ~Idle(w)}

\* What the guards of a request found, at the instant of the request.
Decided(t) ==
  LET s == collaboration[t.id].scope
  IN  /\ t.op = "removeCollaborator" =>
           /\ Exists(t.id)
           /\ canDelegate(t.id, t.now) =>
                \E d \in CollaborationsIn(s) :
                  collaboration[d].user # collaboration[t.id].user /\ canDelegate(d, t.now)
      /\ t.op = "revokePermission" =>
           /\ Exists(t.id)
           /\ t.permission = PERMISSION_GRANT /\ canDelegate(t.id, t.now) =>
                \E d \in CollaborationsIn(s) \ {t.id} : canDelegate(d, t.now)
      /\ t.op = "grantPermission" =>
           LET envelopes == PermissionEnvelopes(t.actor, s, t.now)
           IN  /\ Exists(t.id)
               /\ t.permission \in DOMAIN envelopes
               /\ assertWindowWithinEnvelope(envelopes[t.permission], t.window)

\* The set of requests in flight and the table of collaborations are finite,
\* whatever the sets of workers and of ids are.
AloneInv ==
  /\ IsFiniteSet(InFlight)
  /\ IsFiniteSet(issued)
  /\ \A c \in Collaborations : Exists(c) => c \in issued
  /\ Alone => \A w \in InFlight : InFlight = {w} /\ Decided(tx[w])

\* A request is taken on only when no other is in flight.
LEMMA AcceptsAlone ==
  ASSUME TypeOK, AloneInv, Alone, NEW w \in Workers, Accepts(w)
  PROVE  InFlight = {}
<1>1. Cardinality(InFlight) < 1 BY DEF Accepts, Alone, InFlight, Idle
<1>2. IsFiniteSet(InFlight) BY DEF AloneInv
<1>3. Cardinality(InFlight) \in Nat BY <1>2, FS_CardinalityType
<1>4. Cardinality(InFlight) = 0 BY <1>1, <1>3
<1> QED BY <1>2, <1>4, FS_EmptySet

\* A request that begins keeps what it found.
LEMMA BeginKeepsAlone ==
  ASSUME TypeOK, AloneInv, NEW w \in Workers, NEW t \in DelegationTx,
         Accepts(w), Begin(w, t), Decided(t)
  PROVE  AloneInv'
<1>1. /\ tx' = [tx EXCEPT ![w] = t]
      /\ UNCHANGED <<collaboration, grant, issued, isActive, clients>>
  BY DEF Begin, tables
<1>2. tx'[w] = t /\ t # Null /\ \A v \in Workers : v # w => tx'[v] = tx[v]
  BY <1>1, TxAssumption DEF TypeOK
<1>3. InFlight' = InFlight \cup {w} BY <1>2 DEF InFlight, Idle
<1>4. IsFiniteSet(InFlight') BY <1>3, FS_AddElement DEF AloneInv
<1>5. Decided(t)'
  BY <1>1 DEF Decided, Exists, canDelegate, CollaborationsIn, PermissionEnvelopes,
              CollaborationsOf, GrantsOf
<1>6. Alone' => Alone BY <1>1 DEF Alone, Sent
<1>7. Alone' => InFlight' = {w} BY <1>3, <1>6, AcceptsAlone
<1> QED BY <1>1, <1>2, <1>4, <1>5, <1>7 DEF AloneInv, Exists

\* A request that ends leaves nothing in flight.
LEMMA EndKeepsAlone ==
  ASSUME TypeOK, AloneInv, NEW w \in Workers, ~Idle(w),
         tx' = [tx EXCEPT ![w] = Null], UNCHANGED clients,
         IsFiniteSet(issued'), \A c \in Collaborations : Exists(c)' => c \in issued'
  PROVE  AloneInv'
<1>1. tx'[w] = Null /\ \A v \in Workers : v # w => tx'[v] = tx[v] BY DEF TypeOK
<1>2. InFlight' = InFlight \ {w} BY <1>1 DEF InFlight, Idle
<1>3. IsFiniteSet(InFlight') BY <1>2, FS_RemoveElement DEF AloneInv
<1>4. Alone' => InFlight' = {} BY <1>2 DEF AloneInv, Alone, Sent, InFlight
<1> QED BY <1>3, <1>4 DEF AloneInv

\* The transactions insert the ids they give out, and no other.
LEMMA CommitsKeepAlone ==
  ASSUME DelegationTables, AloneInv, NEW w \in Workers
  PROVE  /\ \A c \in Collaborations : CommitAddCollaborator(w, c) => AloneInv'
         /\ CommitUpdateCollaboratorRole(w) => AloneInv'
         /\ CommitRemoveCollaborator(w) => AloneInv'
         /\ CommitGrantPermission(w) => AloneInv'
         /\ CommitRevokePermission(w) => AloneInv'
         /\ Rollback(w) => AloneInv'
<1>1. ASSUME NEW c \in Collaborations, CommitAddCollaborator(w, c) PROVE AloneInv'
  <2>1. IsFiniteSet(issued') BY <1>1, FS_AddElement DEF AloneInv, CommitAddCollaborator
  <2>2. \A d \in Collaborations : Exists(d)' => d \in issued'
    BY <1>1 DEF AloneInv, CommitAddCollaborator, Exists, DelegationTables, TypeOK
  <2> QED BY <1>1, <2>1, <2>2, EndKeepsAlone DEF CommitAddCollaborator, Commits, DelegationTables
<1>2. ASSUME CommitUpdateCollaboratorRole(w) PROVE AloneInv'
  <2>1. tx[w].id \in Collaborations
    BY <1>2, CommitsTyped, TransactionShapes DEF CommitUpdateCollaboratorRole, DelegationTables
  <2>2. \A d \in Collaborations : Exists(d)' => Exists(d)
    BY <1>2, <2>1 DEF CommitUpdateCollaboratorRole, Exists, DelegationTables, TypeOK
  <2> QED
    BY <1>2, <2>2, EndKeepsAlone
    DEF CommitUpdateCollaboratorRole, Commits, DelegationTables, AloneInv
<1>3. ASSUME CommitRemoveCollaborator(w) PROVE AloneInv'
  <2>1. \A d \in Collaborations : Exists(d)' => Exists(d)
    BY <1>3 DEF CommitRemoveCollaborator, Exists, DelegationTables, TypeOK
  <2> QED
    BY <1>3, <2>1, EndKeepsAlone DEF CommitRemoveCollaborator, Commits, DelegationTables, AloneInv
<1>4. CommitGrantPermission(w) => AloneInv'
  BY EndKeepsAlone DEF CommitGrantPermission, Commits, DelegationTables, AloneInv, Exists
<1>5. CommitRevokePermission(w) => AloneInv'
  BY EndKeepsAlone DEF CommitRevokePermission, Commits, DelegationTables, AloneInv, Exists
<1>6. Rollback(w) => AloneInv'
  BY EndKeepsAlone DEF Rollback, tables, DelegationTables, AloneInv, Exists
<1> QED BY <1>1, <1>2, <1>3, <1>4, <1>5, <1>6

\* What a request is told by its guards is what Decided says of it.
LEMMA ReadsKeepAlone ==
  ASSUME DelegationTables, AloneInv, NEW w \in Workers, NEW actor \in Sent.actors
  PROVE  /\ \A target \in Users, s \in Sent.scopes, role \in CollaborationRoles :
              BeginAddCollaborator(w, actor, s, target, role) => AloneInv'
         /\ \A c \in Collaborations, role \in CollaborationRoles :
              BeginUpdateCollaboratorRole(w, actor, c, role) => AloneInv'
         /\ \A c \in Collaborations : BeginRemoveCollaborator(w, actor, c) => AloneInv'
         /\ \A c \in Collaborations, permission \in Sent.delegable, window \in Sent.windows :
              BeginGrantPermission(w, actor, c, permission, window) => AloneInv'
         /\ \A c \in Collaborations, permission \in Sent.delegable :
              BeginRevokePermission(w, actor, c, permission) => AloneInv'
<1>0. TypeOK /\ actor \in Users /\ now \in Nat BY SentTyped DEF DelegationTables, TypeOK
<1>1. ASSUME NEW target \in Users, NEW s \in Sent.scopes, NEW role \in CollaborationRoles,
             BeginAddCollaborator(w, actor, s, target, role)
      PROVE  AloneInv'
  <2> DEFINE t == [op |-> "addCollaborator", actor |-> actor, now |-> now,
                   row |-> [user |-> target, scope |-> s, role |-> role]]
  <2>1. s \in Scopes BY SentTyped DEF DelegationTables
  <2>2. t \in DelegationTx BY <1>0, <2>1 DEF DelegationTx, CollaborationRow
  <2>3. Accepts(w) /\ Begin(w, t) BY <1>1 DEF BeginAddCollaborator
  <2>4. Decided(t) BY DEF Decided
  <2> QED BY <1>0, <2>2, <2>3, <2>4, BeginKeepsAlone
<1>2. ASSUME NEW c \in Collaborations, NEW role \in CollaborationRoles,
             BeginUpdateCollaboratorRole(w, actor, c, role)
      PROVE  AloneInv'
  <2> DEFINE t == [op |-> "updateCollaboratorRole", actor |-> actor, now |-> now,
                   id |-> c, role |-> role]
  <2>1. t \in DelegationTx BY <1>0 DEF DelegationTx
  <2>2. Accepts(w) /\ Begin(w, t) BY <1>2 DEF BeginUpdateCollaboratorRole
  <2>3. Decided(t) BY DEF Decided
  <2> QED BY <1>0, <2>1, <2>2, <2>3, BeginKeepsAlone
<1>3. ASSUME NEW c \in Collaborations, BeginRemoveCollaborator(w, actor, c)
      PROVE  AloneInv'
  <2> DEFINE t == [op |-> "removeCollaborator", actor |-> actor, now |-> now, id |-> c]
  <2>1. t \in DelegationTx BY <1>0 DEF DelegationTx
  <2>2. Accepts(w) /\ Begin(w, t) BY <1>3 DEF BeginRemoveCollaborator
  <2>3. Decided(t) BY <1>3 DEF Decided, BeginRemoveCollaborator, assertScopeKeepsDelegator
  <2> QED BY <1>0, <2>1, <2>2, <2>3, BeginKeepsAlone
<1>4. ASSUME NEW c \in Collaborations, NEW permission \in Sent.delegable,
             NEW window \in Sent.windows,
             BeginGrantPermission(w, actor, c, permission, window)
      PROVE  AloneInv'
  <2> DEFINE t == [op |-> "grantPermission", actor |-> actor, now |-> now, id |-> c,
                   permission |-> permission, window |-> window]
  <2>1. permission \in PERMISSION_NAMES /\ window \in Window
    BY SentTyped DEF DelegationTables
  <2>2. t \in DelegationTx BY <1>0, <2>1 DEF DelegationTx
  <2>3. Accepts(w) /\ Begin(w, t) BY <1>4 DEF BeginGrantPermission
  <2>4. Decided(t) BY <1>4 DEF Decided, BeginGrantPermission
  <2> QED BY <1>0, <2>2, <2>3, <2>4, BeginKeepsAlone
<1>5. ASSUME NEW c \in Collaborations, NEW permission \in Sent.delegable,
             BeginRevokePermission(w, actor, c, permission)
      PROVE  AloneInv'
  <2> DEFINE t == [op |-> "revokePermission", actor |-> actor, now |-> now, id |-> c,
                   permission |-> permission]
  <2>1. permission \in PERMISSION_NAMES BY SentTyped DEF DelegationTables
  <2>2. t \in DelegationTx BY <1>0, <2>1 DEF DelegationTx
  <2>3. Accepts(w) /\ Begin(w, t) BY <1>5 DEF BeginRevokePermission
  <2>4. Decided(t) BY <1>5 DEF Decided, BeginRevokePermission, assertRevokeKeepsDelegator
  <2> QED BY <1>0, <2>2, <2>3, <2>4, BeginKeepsAlone
<1> QED BY <1>1, <1>2, <1>3, <1>4, <1>5

\* The clock moves while a request is in flight; users and programs change
\* only between requests.
LEMMA OthersKeepAlone ==
  ASSUME DelegationTables, AloneInv
  PROVE  /\ Tick => AloneInv'
         /\ \A w \in Workers, u \in Sent.suspendable, active \in BOOLEAN :
              SetActive(w, u, active) => AloneInv'
         /\ \A w \in Workers, p \in ProgramScopes, isArchived \in BOOLEAN :
              SetArchived(w, p, isArchived) => AloneInv'
         /\ UNCHANGED vars => AloneInv'
<1>1. ASSUME UNCHANGED <<tables, isActive, tx, clients>> PROVE AloneInv'
  <2>1. InFlight' = InFlight BY <1>1 DEF InFlight, Idle
  <2>2. \A w \in InFlight : Decided(tx[w])' <=> Decided(tx[w])
    BY <1>1 DEF tables, Decided, Exists, canDelegate, CollaborationsIn, PermissionEnvelopes,
                CollaborationsOf, GrantsOf
  <2>3. Alone' <=> Alone BY <1>1 DEF Alone, Sent
  <2> QED BY <1>1, <2>1, <2>2, <2>3 DEF AloneInv, tables, Exists
<1>2. ASSUME NEW w \in Workers, Accepts(w), UNCHANGED <<tables, tx, clients>> PROVE AloneInv'
  <2>1. InFlight' = InFlight BY <1>2 DEF InFlight, Idle
  <2>2. Alone' <=> Alone BY <1>2 DEF Alone, Sent
  <2>3. Alone => InFlight = {} BY <1>2, AcceptsAlone DEF DelegationTables
  <2> QED BY <1>2, <2>1, <2>2, <2>3 DEF AloneInv, tables, Exists
<1>3. Tick => AloneInv' BY <1>1 DEF Tick
<1>4. UNCHANGED vars => AloneInv' BY <1>1 DEF vars, tables
<1>5. \A w \in Workers, u \in Sent.suspendable, active \in BOOLEAN :
        SetActive(w, u, active) => AloneInv'
  BY <1>2 DEF SetActive
<1>6. \A w \in Workers, p \in ProgramScopes, isArchived \in BOOLEAN :
        SetArchived(w, p, isArchived) => AloneInv'
  BY <1>2 DEF SetArchived
<1> QED BY <1>3, <1>4, <1>5, <1>6

LEMMA AloneStep == DelegationTables /\ AloneInv /\ [Next]_vars => AloneInv'
<1> SUFFICES ASSUME DelegationTables, AloneInv, [Next]_vars PROVE AloneInv'
  OBVIOUS
<1>1. ASSUME NEW w \in Workers, CollaboratorRequest(w) PROVE AloneInv'
  BY <1>1, ReadsKeepAlone, CommitsKeepAlone DEF CollaboratorRequest
<1>2. ASSUME NEW w \in Workers, PermissionRequest(w) PROVE AloneInv'
  BY <1>2, ReadsKeepAlone, CommitsKeepAlone DEF PermissionRequest
<1> QED BY <1>1, <1>2, CommitsKeepAlone, OthersKeepAlone DEF Next

LEMMA AloneInit == Init => AloneInv
<1> SUFFICES ASSUME Init PROVE AloneInv
  OBVIOUS
<1>1. InFlight = {} BY DEF Init, InFlight, Idle
<1> QED BY <1>1, FS_EmptySet DEF Init, AloneInv, Exists

(* Only the clock moves between the decision of a request that is alone    *)
(* and its transaction (delegation.service.ts).                            *)
THEOREM AloneInvariant == Spec => [](DelegationTables /\ AloneInv)
<1>1. Init => DelegationTables /\ AloneInv BY TablesInit, AloneInit
<1>2. DelegationTables /\ AloneInv /\ [Next]_vars => (DelegationTables /\ AloneInv)'
  BY TablesStep, AloneStep
<1> QED BY <1>1, <1>2, PTL DEF Spec

-----------------------------------------------------------------------------
(* Somebody is left who can delegate. *)

\* What applies in the program of a scope applies in the scope.
LEMMA ScopesInherit ==
  ASSUME NEW s \in Scopes, NEW m \in resolveScope(s), NEW c \in CollaborationsIn(m)
  PROVE  c \in CollaborationsIn(s)
<1>1. ProgramOf(ProgramOf(s)) = ProgramOf(s) BY ScopeAssumption DEF Scopes, ProgramOf
<1> QED BY <1>1 DEF CollaborationsIn, resolveScope

\* A delegator whose row, grant of delegation and account stay is one still.
LEMMA DelegatorsStay ==
  ASSUME NEW s, NEW t, NEW c \in Delegators(s, t), UNCHANGED isActive,
         Exists(c)', collaboration'[c].user = collaboration[c].user,
         collaboration'[c].scope = collaboration[c].scope,
         PERMISSION_GRANT \in DOMAIN grant[c] =>
           /\ PERMISSION_GRANT \in DOMAIN grant'[c]
           /\ grant'[c][PERMISSION_GRANT] = grant[c][PERMISSION_GRANT]
  PROVE  (Delegators(s, t) # {})'
BY DEF Delegators, CollaborationsIn, canDelegate

LEMMA RemovalLeavesADelegator ==
  ASSUME DelegationTables, AloneInv, Alone, NEW w \in Workers, CommitRemoveCollaborator(w)
  PROVE  KeepsADelegator(w)
<1> DEFINE c == tx[w].id
<1>0. PICK t : t = tx[w].now OBVIOUS
<1>1. /\ c \in Collaborations /\ collaboration[c] \in CollaborationRow /\ Exists(c)
      /\ tx[w].op = "removeCollaborator" /\ w \in InFlight
  BY CommitsTyped, TransactionShapes
  DEF DelegationTables, TypeOK, CommitRemoveCollaborator, Exists, Commits, InFlight
<1>2. \A d \in Collaborations : d # c =>
        collaboration'[d] = collaboration[d] /\ grant'[d] = grant[d]
  BY DEF CommitRemoveCollaborator, DelegationTables, TypeOK
<1>3. UNCHANGED isActive BY DEF CommitRemoveCollaborator, Commits
<1>4. canDelegate(c, t) => \E d \in CollaborationsIn(collaboration[c].scope) :
                             d # c /\ canDelegate(d, t)
  BY <1>0, <1>1 DEF AloneInv, Decided
<1> HIDE DEF c
<1>5. ASSUME NEW s \in Scopes, NEW d \in Delegators(s, t), d # c
      PROVE  (Delegators(s, t) # {})'
  <2>1. d \in Collaborations /\ Exists(d) BY DEF Delegators, CollaborationsIn
  <2>2. Exists(d)' BY <1>2, <1>5, <2>1 DEF Exists
  <2> QED BY <1>2, <1>3, <1>5, <2>1, <2>2, DelegatorsStay
<1>6. ASSUME NEW s \in Scopes, NEW d \in Delegators(s, t)
      PROVE  (Delegators(s, t) # {})'
  <2>1. CASE d # c BY <2>1, <1>5
  <2>2. CASE d = c
    <3>1. canDelegate(c, t) /\ collaboration[c].scope \in resolveScope(s)
      BY <2>2 DEF Delegators, CollaborationsIn
    <3>2. PICK e \in CollaborationsIn(collaboration[c].scope) : e # c /\ canDelegate(e, t)
      BY <1>4, <3>1
    <3>3. e \in Delegators(s, t) BY <3>1, <3>2, ScopesInherit DEF Delegators
    <3> QED BY <1>5, <3>2, <3>3
  <2> QED BY <2>1, <2>2
<1> QED BY <1>0, <1>6 DEF KeepsADelegator

LEMMA RevocationLeavesADelegator ==
  ASSUME DelegationTables, AloneInv, Alone, NEW w \in Workers, CommitRevokePermission(w)
  PROVE  KeepsADelegator(w)
<1> DEFINE c == tx[w].id
           permission == tx[w].permission
<1>0. PICK t : t = tx[w].now OBVIOUS
<1>1. /\ c \in Collaborations /\ Exists(c)
      /\ tx[w].op = "revokePermission" /\ w \in InFlight
  <2>1. c \in Collaborations /\ tx[w].op = "revokePermission" /\ w \in InFlight
    BY CommitsTyped, TransactionShapes
    DEF DelegationTables, CommitRevokePermission, Commits, InFlight
  <2> QED BY <2>1 DEF DelegationTables, RemovedHoldNothing, CommitRevokePermission
<1>2. /\ grant' = [grant EXCEPT ![c] = [name \in DOMAIN @ \ {permission} |-> @[name]]]
      /\ UNCHANGED <<collaboration, isActive>>
  BY DEF CommitRevokePermission, Commits
<1>3. permission = PERMISSION_GRANT /\ canDelegate(c, t) =>
        \E d \in CollaborationsIn(collaboration[c].scope) : d # c /\ canDelegate(d, t)
  BY <1>0, <1>1 DEF AloneInv, Decided
<1> HIDE DEF c, permission
<1>4. /\ \A d \in Collaborations : d # c => grant'[d] = grant[d]
      /\ DOMAIN grant'[c] = DOMAIN grant[c] \ {permission}
      /\ \A name \in DOMAIN grant'[c] : grant'[c][name] = grant[c][name]
  BY <1>1, <1>2 DEF DelegationTables, TypeOK
<1>5. ASSUME NEW s \in Scopes, NEW d \in Delegators(s, t),
             d # c \/ permission # PERMISSION_GRANT
      PROVE  (Delegators(s, t) # {})'
  <2>1. d \in Collaborations /\ Exists(d) BY DEF Delegators, CollaborationsIn
  <2>2. PERMISSION_GRANT \in DOMAIN grant[d] =>
          /\ PERMISSION_GRANT \in DOMAIN grant'[d]
          /\ grant'[d][PERMISSION_GRANT] = grant[d][PERMISSION_GRANT]
    BY <1>4, <1>5, <2>1
  <2>3. Exists(d)' BY <1>2, <2>1 DEF Exists
  <2> QED BY <1>2, <2>1, <2>2, <2>3, DelegatorsStay
<1>6. ASSUME NEW s \in Scopes, NEW d \in Delegators(s, t)
      PROVE  (Delegators(s, t) # {})'
  <2>1. CASE d # c \/ permission # PERMISSION_GRANT BY <2>1, <1>5
  <2>2. CASE d = c /\ permission = PERMISSION_GRANT
    <3>1. canDelegate(c, t) /\ collaboration[c].scope \in resolveScope(s)
      BY <2>2 DEF Delegators, CollaborationsIn
    <3>2. PICK e \in CollaborationsIn(collaboration[c].scope) : e # c /\ canDelegate(e, t)
      BY <1>3, <2>2, <3>1
    <3>3. e \in Delegators(s, t) BY <3>1, <3>2, ScopesInherit DEF Delegators
    <3> QED BY <1>5, <3>2, <3>3
  <2> QED BY <2>1, <2>2
<1> QED BY <1>0, <1>6 DEF KeepsADelegator

(* Requests that run one at a time never leave a scope that had somebody   *)
(* able to delegate without one, by removal or by revocation, the          *)
(* activities of a program included (delegation.service.ts).               *)
THEOREM RemovalsKeepADelegatorAlways == Spec => RemovalsKeepADelegator
<1>1. DelegationTables /\ AloneInv /\ [Next]_vars =>
        [Alone => \A w \in Workers :
           CommitRemoveCollaborator(w) \/ CommitRevokePermission(w) => KeepsADelegator(w)]_vars
  BY RemovalLeavesADelegator, RevocationLeavesADelegator
<1> QED BY <1>1, AloneInvariant, PTL DEF Spec, RemovalsKeepADelegator

-----------------------------------------------------------------------------
(***************************************************************************)
(* Folding over a finite set.  FoldSet chooses a solution of a recursive   *)
(* equation; that there is one is shown by a least counterexample among    *)
(* the subsets of the set.                                                 *)
(***************************************************************************)

LEMMA LeastSubset ==
  ASSUME NEW S, IsFiniteSet(S), NEW B, B \subseteq SUBSET S, B # {}
  PROVE  \E m \in B : \A n \in B : n \subseteq m => n = m
<1>1. IsWellFoundedOn(StrictSubsetOrdering(S), FiniteSubsetsOf(S))
  BY FS_StrictSubsetOrderingWellFounded
<1>2. B \subseteq FiniteSubsetsOf(S) BY FS_FiniteSubsetsOfFinite
<1>3. PICK m \in B : \A n \in B : ~ (<<n, m>> \in StrictSubsetOrdering(S))
  BY <1>1, <1>2, WFMin
<1>4. ASSUME NEW n \in B, n \subseteq m PROVE n = m
  <2> SUFFICES ASSUME n # m PROVE FALSE
    OBVIOUS
  <2>1. <<n, m>> \in StrictSubsetOrdering(S) BY <1>4 DEF StrictSubsetOrdering
  <2> QED BY <1>3, <2>1
<1> QED BY <1>4

OneOf(s) == CHOOSE x \in s : TRUE

\* g is the fold of H over every subset of S, starting from base.
Solves(g, S, base, H, V) ==
  /\ g \in [SUBSET S -> V]
  /\ \A s \in SUBSET S :
       g[s] = IF s = {} THEN base ELSE H[<<OneOf(s), g[s \ {OneOf(s)}]>>]

LEMMA FoldsAgree ==
  ASSUME NEW S, IsFiniteSet(S), NEW V, NEW base, NEW H, NEW T \in SUBSET S, NEW U \in SUBSET T,
         NEW g, Solves(g, T, base, H, V), NEW h, Solves(h, U, base, H, V)
  PROVE  \A s \in SUBSET U : g[s] = h[s]
<1> DEFINE B == {s \in SUBSET U : g[s] # h[s]}
<1> SUFFICES ASSUME B # {} PROVE FALSE
  OBVIOUS
<1>1. IsFiniteSet(U) BY FS_Subset
<1>2. PICK m \in B : \A n \in B : n \subseteq m => n = m
  <2>1. B \subseteq SUBSET U OBVIOUS
  <2> HIDE DEF B
  <2> QED BY <1>1, <2>1, LeastSubset
<1>3. CASE m = {} BY <1>3, <1>2 DEF Solves
<1>4. CASE m # {}
  <2>1. OneOf(m) \in m BY <1>4 DEF OneOf
  <2>2. m \ {OneOf(m)} \in SUBSET U /\ m \ {OneOf(m)} \notin B BY <1>2, <2>1
  <2>3. g[m \ {OneOf(m)}] = h[m \ {OneOf(m)}] BY <2>2
  <2> QED BY <1>2, <1>4, <2>3 DEF Solves
<1> QED BY <1>3, <1>4

LEMMA FoldExists ==
  ASSUME NEW S, IsFiniteSet(S), NEW V, NEW base \in V, NEW H \in [S \X V -> V]
  PROVE  \E g : Solves(g, S, base, H, V)
<1> DEFINE B == {T \in SUBSET S : ~ \E g : Solves(g, T, base, H, V)}
<1> SUFFICES ASSUME B # {} PROVE FALSE
  OBVIOUS
<1>1. PICK T \in B : \A n \in B : n \subseteq T => n = T
  <2>1. B \subseteq SUBSET S OBVIOUS
  <2> HIDE DEF B
  <2> QED BY <2>1, LeastSubset
<1> DEFINE G(s) == CHOOSE g : Solves(g, s, base, H, V)
           rest == T \ {OneOf(T)}
           whole == IF T = {} THEN base ELSE H[<<OneOf(T), G(rest)[rest]>>]
           g == [s \in SUBSET T |-> IF s = T THEN whole ELSE G(s)[s]]
<1>2. \A s \in SUBSET T : s # T => Solves(G(s), s, base, H, V)
  <2> SUFFICES ASSUME NEW s \in SUBSET T, s # T PROVE Solves(G(s), s, base, H, V)
    OBVIOUS
  <2>1. \E k : Solves(k, s, base, H, V) BY <1>1
  <2> QED BY <2>1
<1>3. ASSUME NEW s \in SUBSET T, s # T PROVE G(s)[s] \in V
  <2>1. Solves(G(s), s, base, H, V) /\ s \in SUBSET s BY <1>2, <1>3
  <2> HIDE DEF G
  <2> QED BY <2>1 DEF Solves
<1>4. T # {} => OneOf(T) \in T /\ rest \in SUBSET T /\ rest # T BY DEF OneOf
<1>5. whole \in V BY <1>1, <1>3, <1>4
<1>6. g \in [SUBSET T -> V] BY <1>3, <1>5
<1>7. ASSUME NEW s \in SUBSET T, s # T, s # {}
      PROVE  G(s)[s] = H[<<OneOf(s), G(s \ {OneOf(s)})[s \ {OneOf(s)}]>>]
  <2> DEFINE r == s \ {OneOf(s)}
  <2>1. OneOf(s) \in s /\ r \in SUBSET s /\ r \in SUBSET T /\ r # T BY <1>7 DEF OneOf
  <2>2. Solves(G(s), s, base, H, V) /\ Solves(G(r), r, base, H, V) BY <1>2, <1>7, <2>1
  <2>3. s \in SUBSET S BY <1>1
  <2> HIDE DEF G
  <2>4. G(s)[r] = G(r)[r] BY <2>1, <2>2, <2>3, FoldsAgree
  <2>5. G(s)[s] = H[<<OneOf(s), G(s)[r]>>] BY <1>7, <2>2 DEF Solves
  <2> QED BY <2>4, <2>5
<1>8. ASSUME NEW s \in SUBSET T, s # T, s = {} PROVE G(s)[s] = base
  <2>1. Solves(G(s), s, base, H, V) /\ s \in SUBSET s BY <1>2, <1>8
  <2> HIDE DEF G
  <2> QED BY <1>8, <2>1 DEF Solves
<1>9. \A s \in SUBSET T :
        g[s] = IF s = {} THEN base ELSE H[<<OneOf(s), g[s \ {OneOf(s)}]>>]
  <2> SUFFICES ASSUME NEW s \in SUBSET T
               PROVE  g[s] = IF s = {} THEN base ELSE H[<<OneOf(s), g[s \ {OneOf(s)}]>>]
    OBVIOUS
  <2>1. s # {} => OneOf(s) \in s /\ s \ {OneOf(s)} \in SUBSET T /\ s \ {OneOf(s)} # T
    BY DEF OneOf
  <2>2. \A r \in SUBSET T : g[r] = IF r = T THEN whole ELSE G(r)[r] OBVIOUS
  <2> HIDE DEF g, G
  <2>3. CASE s = T BY <2>1, <2>2, <2>3
  <2>4. CASE s # T BY <2>1, <2>2, <2>4, <1>7, <1>8
  <2> QED BY <2>3, <2>4
<1>10. Solves(g, T, base, H, V) BY <1>6, <1>9 DEF Solves
<1> QED BY <1>1, <1>10

\* Merging two windows that share an instant covers what either covers.
LEMMA MergingIsUnion ==
  ASSUME NEW v \in Window, NEW w \in Window, NEW shared \in Int,
         isGrantActive(v, shared), isGrantActive(w, shared)
  PROVE  /\ mergeEnvelope(v, w) \in Window
         /\ \A t \in Int : isGrantActive(mergeEnvelope(v, w), t)
                             <=> isGrantActive(v, t) \/ isGrantActive(w, t)
BY WindowAssumption DEF Window, mergeEnvelope, isGrantActive

\* What FoldSet chooses is the fold.
LEMMA EnvelopeIsFold ==
  ASSUME NEW W \in SUBSET Window, IsFiniteSet(W), W # {},
         \A v, w \in Window : mergeEnvelope(v, w) \in Window
  PROVE  \E g \in [SUBSET W -> Window] :
           /\ \A s \in SUBSET W :
                g[s] = IF s = {} THEN OneOf(W)
                       ELSE mergeEnvelope(OneOf(s), g[s \ {OneOf(s)}])
           /\ Envelope(W) = g[W]
<1> DEFINE H == [p \in W \X Window |-> mergeEnvelope(p[1], p[2])]
           Equation(f) == f = [s \in SUBSET W |->
                IF s = {} THEN OneOf(W) ELSE mergeEnvelope(OneOf(s), f[s \ {OneOf(s)}])]
           iter == CHOOSE f : Equation(f)
<1>1. Envelope(W) = iter[W]
  BY DEF Envelope, FoldSet, MapThenFoldSet, OneOf
<1>2. H \in [W \X Window -> Window] /\ OneOf(W) \in Window BY DEF OneOf
<1>3. PICK g : Solves(g, W, OneOf(W), H, Window) BY <1>2, FoldExists
<1>4. /\ g \in [SUBSET W -> Window]
      /\ \A s \in SUBSET W :
           g[s] = IF s = {} THEN OneOf(W) ELSE mergeEnvelope(OneOf(s), g[s \ {OneOf(s)}])
  <2>1. g \in [SUBSET W -> Window]
        /\ \A s \in SUBSET W :
             g[s] = IF s = {} THEN OneOf(W) ELSE H[<<OneOf(s), g[s \ {OneOf(s)}]>>]
    BY <1>3 DEF Solves
  <2>2. \A s \in SUBSET W : s # {} => OneOf(s) \in W /\ s \ {OneOf(s)} \in SUBSET W
    BY DEF OneOf
  <2>3. \A x \in W, v \in Window : H[<<x, v>>] = mergeEnvelope(x, v) OBVIOUS
  <2> HIDE DEF H
  <2> QED BY <2>1, <2>2, <2>3
<1>5. Equation(g) BY <1>4
<1>6. Equation(iter) BY <1>5
<1> HIDE DEF iter
<1>7. \A s \in SUBSET W :
        iter[s] = IF s = {} THEN OneOf(W) ELSE mergeEnvelope(OneOf(s), iter[s \ {OneOf(s)}])
  BY <1>6
<1> DEFINE B == {s \in SUBSET W : iter[s] # g[s]}
<1>8. B = {}
  <2> SUFFICES ASSUME B # {} PROVE FALSE
    OBVIOUS
  <2>1. PICK m \in B : \A n \in B : n \subseteq m => n = m
    <3>1. B \subseteq SUBSET W OBVIOUS
    <3> HIDE DEF B
    <3> QED BY <3>1, LeastSubset
  <2>2. CASE m = {} BY <2>1, <2>2, <1>4, <1>7
  <2>3. CASE m # {}
    <3>1. OneOf(m) \in m BY <2>3 DEF OneOf
    <3>2. m \ {OneOf(m)} \in SUBSET W /\ m \ {OneOf(m)} \notin B BY <2>1, <3>1
    <3> QED BY <2>1, <2>3, <3>2, <1>4, <1>7
  <2> QED BY <2>2, <2>3
<1> QED BY <1>1, <1>4, <1>8

\* The envelope of windows that share an instant covers exactly what they cover.
LEMMA EnvelopeIsUnion ==
  ASSUME NEW W \in SUBSET Window, IsFiniteSet(W), W # {},
         NEW shared \in Int, \A w \in W : isGrantActive(w, shared)
  PROVE  /\ Envelope(W) \in Window
         /\ \A t \in Int : isGrantActive(Envelope(W), t) <=> \E w \in W : isGrantActive(w, t)
<1> DEFINE first == OneOf(W)
<1>1. first \in W BY DEF OneOf
<1>2. \A v, w \in Window : mergeEnvelope(v, w) \in Window
  BY WindowAssumption DEF Window, mergeEnvelope
<1>3. PICK g \in [SUBSET W -> Window] :
        /\ \A s \in SUBSET W :
             g[s] = IF s = {} THEN first ELSE mergeEnvelope(OneOf(s), g[s \ {OneOf(s)}])
        /\ Envelope(W) = g[W]
  BY <1>2, EnvelopeIsFold
<1> HIDE DEF first
<1> DEFINE Covers(s) == \A t \in Int :
             isGrantActive(g[s], t) <=> \E w \in s \cup {first} : isGrantActive(w, t)
           B == {s \in SUBSET W : ~ Covers(s)}
<1>4. B = {}
  <2> SUFFICES ASSUME B # {} PROVE FALSE
    OBVIOUS
  <2>1. PICK m \in B : \A n \in B : n \subseteq m => n = m
    <3>1. B \subseteq SUBSET W OBVIOUS
    <3> HIDE DEF B
    <3> QED BY <3>1, LeastSubset
  <2>2. CASE m = {} BY <2>1, <2>2, <1>3
  <2>3. CASE m # {}
    <3> DEFINE x == OneOf(m)
               r == m \ {x}
    <3>1. x \in m BY <2>3 DEF OneOf
    <3>2. g[m] = mergeEnvelope(x, g[r]) BY <1>3, <2>1, <2>3
    <3> HIDE DEF x
    <3>3. r \in SUBSET W /\ r \notin B BY <2>1, <3>1
    <3>4. Covers(r) BY <3>3
    <3>5. isGrantActive(g[r], shared) BY <3>4, <1>1
    <3>6. x \in Window /\ g[r] \in Window /\ isGrantActive(x, shared)
      BY <1>3, <2>1, <3>1, <3>3
    <3>7. \A t \in Int : isGrantActive(g[m], t) <=> isGrantActive(x, t) \/ isGrantActive(g[r], t)
      BY <3>2, <3>5, <3>6, MergingIsUnion
    <3>8. m \cup {first} = (r \cup {first}) \cup {x} BY <3>1
    <3>9. Covers(m) BY <3>4, <3>7, <3>8
    <3> QED BY <2>1, <3>9
  <2> QED BY <2>2, <2>3
<1>5. Covers(W) BY <1>4
<1>6. W \cup {first} = W BY <1>1
<1> QED BY <1>3, <1>5, <1>6

-----------------------------------------------------------------------------
(* Envelopes. *)

\* The windows merged for a permission are finitely many.
LEMMA WindowsTyped ==
  ASSUME DelegationTables, AloneInv, NEW u, NEW name, NEW grants,
         grants \subseteq {g \in GrantsOf(CollaborationsOf(u)) : g.permission = name}
  PROVE  /\ {WindowOf(g) : g \in grants} \subseteq Window
         /\ IsFiniteSet({WindowOf(g) : g \in grants})
<1> DEFINE f == [c \in issued |-> IF name \in DOMAIN grant[c] THEN WindowOf(grant[c][name])
                                 ELSE Unlimited]
           R == {f[c] : c \in issued}
           W == {WindowOf(g) : g \in grants}
<1>1. \A g \in grants : \E c \in Collaborations :
        /\ Exists(c) /\ name \in DOMAIN grant[c] /\ grant[c][name] \in Grant
        /\ WindowOf(g) = WindowOf(grant[c][name])
  <2> SUFFICES ASSUME NEW g \in grants
               PROVE  \E c \in Collaborations :
                        /\ Exists(c) /\ name \in DOMAIN grant[c] /\ grant[c][name] \in Grant
                        /\ WindowOf(g) = WindowOf(grant[c][name])
    OBVIOUS
  <2>1. g \in GrantsOf(CollaborationsOf(u)) /\ g.permission = name OBVIOUS
  <2>2. PICK c \in CollaborationsOf(u) : \E n \in DOMAIN grant[c] :
          g = [permission |-> n, scope |-> collaboration[c].scope,
               source |-> grant[c][n].source, validFrom |-> grant[c][n].validFrom,
               validUntil |-> grant[c][n].validUntil]
    BY <2>1 DEF GrantsOf
  <2>3. /\ name \in DOMAIN grant[c] /\ g.validFrom = grant[c][name].validFrom
        /\ g.validUntil = grant[c][name].validUntil
    BY <2>1, <2>2
  <2>4. c \in Collaborations /\ Exists(c) BY DEF CollaborationsOf
  <2> QED BY <2>3, <2>4 DEF DelegationTables, TypeOK, WindowOf
<1>2. W \subseteq Window
  <2>1. \A row \in Grant : WindowOf(row) \in Window BY DEF WindowOf, Window, Grant
  <2> QED BY <1>1, <2>1
<1>3. IsFiniteSet(R)
  <2>1. f \in Surjection(issued, R) BY DEF Surjection
  <2>2. IsFiniteSet(issued) BY DEF AloneInv
  <2> HIDE DEF f, R
  <2> QED BY <2>1, <2>2, FS_Surjection
<1>4. W \subseteq R
  <2> SUFFICES ASSUME NEW g \in grants PROVE WindowOf(g) \in R
    OBVIOUS
  <2>1. PICK c \in Collaborations : /\ Exists(c) /\ name \in DOMAIN grant[c]
                                    /\ WindowOf(g) = WindowOf(grant[c][name])
    BY <1>1
  <2>2. c \in issued /\ f[c] = WindowOf(g) BY <2>1 DEF AloneInv
  <2> QED BY <2>2
<1>5. IsFiniteSet(W)
  <2> HIDE DEF W, R
  <2> QED BY <1>3, <1>4, FS_Subset
<1> QED BY <1>2, <1>5

\* An envelope covers an instant exactly when a grant that applies covers it.
LEMMA EnvelopeCovers ==
  ASSUME DelegationTables, AloneInv, NEW u, u \notin Administrators, NEW s,
         NEW at \in Int, NEW name, NEW t \in Int
  PROVE  /\ name \in DOMAIN PermissionEnvelopes(u, s, at) =>
              PermissionEnvelopes(u, s, at)[name] \in Window
         /\ (/\ name \in DOMAIN PermissionEnvelopes(u, s, at)
             /\ isGrantActive(PermissionEnvelopes(u, s, at)[name], t))
              <=> \E g \in GrantsOf(CollaborationsOf(u)) :
                    /\ g.scope \in resolveScope(s) /\ isGrantActive(g, at)
                    /\ g.permission = name /\ isGrantActive(g, t)
<1> DEFINE grants == GrantsOf(CollaborationsOf(u))
           applies == {g \in grants : g.scope \in resolveScope(s) /\ isGrantActive(g, at)}
           of == {g \in applies : g.permission = name}
           W == {WindowOf(g) : g \in of}
           envelopes == PermissionEnvelopes(u, s, at)
<1>1. envelopes = [n \in {g.permission : g \in applies} |->
                     Envelope({WindowOf(g) : g \in {h \in applies : h.permission = n}})]
  BY DEF PermissionEnvelopes, getPermissionEnvelopes, globalRole
<1> HIDE DEF envelopes
<1>2. name \in DOMAIN envelopes <=> of # {} BY <1>1
<1>3. of # {} => envelopes[name] = Envelope(W) BY <1>1, <1>2
<1>4. W \subseteq Window /\ IsFiniteSet(W)
  <2>1. of \subseteq {g \in GrantsOf(CollaborationsOf(u)) : g.permission = name} OBVIOUS
  <2> HIDE DEF of
  <2> QED BY <2>1, WindowsTyped
<1>5. \A g, i : isGrantActive(WindowOf(g), i) <=> isGrantActive(g, i)
  BY DEF isGrantActive, WindowOf
<1>6. \A v \in W : isGrantActive(v, at) BY <1>5
<1>7. of # {} => W # {} OBVIOUS
<1>8. of # {} => /\ Envelope(W) \in Window
                 /\ isGrantActive(Envelope(W), t) <=> \E v \in W : isGrantActive(v, t)
  <2> HIDE DEF W, of
  <2> QED BY <1>4, <1>6, <1>7, EnvelopeIsUnion
<1>9. (\E v \in W : isGrantActive(v, t)) <=> \E g \in of : isGrantActive(g, t) BY <1>5
<1>10. (\E g \in of : isGrantActive(g, t))
         <=> \E g \in grants : /\ g.scope \in resolveScope(s) /\ isGrantActive(g, at)
                              /\ g.permission = name /\ isGrantActive(g, t)
  OBVIOUS
<1> HIDE DEF W, of, grants
<1>11. /\ name \in DOMAIN envelopes => envelopes[name] \in Window
       /\ (name \in DOMAIN envelopes /\ isGrantActive(envelopes[name], t))
            <=> \E g \in of : isGrantActive(g, t)
  BY <1>2, <1>3, <1>8, <1>9
<1> QED BY <1>10, <1>11 DEF envelopes, grants

(* The earliest start and the latest end of the grants that apply now      *)
(* cover no instant that none of the grants covers: mergeEnvelope never    *)
(* fills a gap (authorization.service.ts).                                 *)
THEOREM EnvelopesAreUnionsAlways == Spec => []EnvelopesAreUnions
<1>1. ASSUME DelegationTables, AloneInv PROVE EnvelopesAreUnions
  <2>1. now \in Int /\ 0 .. (Sent.until + 1) \subseteq Int
    BY <1>1, SentTyped DEF DelegationTables, TypeOK
  <2> SUFFICES ASSUME NEW u \in isActive \ Administrators, NEW s \in Scopes,
                      NEW name \in PERMISSION_NAMES, NEW t \in 0 .. (Sent.until + 1)
               PROVE  (/\ name \in DOMAIN PermissionEnvelopes(u, s, now)
                       /\ isGrantActive(PermissionEnvelopes(u, s, now)[name], t))
                        <=> \E g \in GrantsOf(CollaborationsOf(u)) :
                              /\ g.scope \in resolveScope(s) /\ isGrantActive(g, now)
                              /\ g.permission = name /\ isGrantActive(g, t)
    BY DEF EnvelopesAreUnions
  <2> QED BY <1>1, <2>1, EnvelopeCovers
<1> QED BY <1>1, AloneInvariant, PTL

\* Within an envelope, a window is within the time the actor holds.
LEMMA DelegationIsAttenuated ==
  ASSUME DelegationTables, AloneInv, Alone, NEW w \in Workers, CommitGrantPermission(w),
         NEW t \in 0 .. (Sent.until + 1), isGrantActive(tx[w].window, t)
  PROVE  Covered(tx[w].actor, collaboration[tx[w].id].scope, tx[w].permission, t)
<1> DEFINE actor == tx[w].actor
           s == collaboration[tx[w].id].scope
           name == tx[w].permission
           envelopes == PermissionEnvelopes(actor, s, tx[w].now)
<1>1. /\ tx[w].op = "grantPermission" /\ w \in InFlight
      /\ tx[w].now \in Int /\ tx[w].window \in Window
  <2>1. Commits(w, "grantPermission") BY DEF CommitGrantPermission
  <2>2. tx[w] \in DelegationTx /\ tx[w].op = "grantPermission"
    BY <2>1, CommitsTyped DEF DelegationTables
  <2> QED BY <2>1, <2>2, TransactionShapes DEF InFlight, Commits
<1>2. name \in DOMAIN envelopes /\ assertWindowWithinEnvelope(envelopes[name], tx[w].window)
  BY <1>1 DEF AloneInv, Decided
<1>3. t \in Int BY SentTyped DEF DelegationTables
<1> SUFFICES ASSUME actor \notin Administrators
             PROVE  \E g \in GrantsOf(CollaborationsOf(actor)) :
                      g.scope \in resolveScope(s) /\ g.permission = name /\ isGrantActive(g, t)
  BY DEF Covered
<1>4. envelopes[name] \in Window BY <1>1, <1>2, <1>3, EnvelopeCovers
<1>5. isGrantActive(envelopes[name], t)
  BY <1>1, <1>2, <1>3, <1>4, WindowAssumption DEF assertWindowWithinEnvelope, isGrantActive, Window
<1> QED BY <1>1, <1>2, <1>3, <1>5, EnvelopeCovers

(* At no instant does a delegated permission apply when the one who        *)
(* delegated it could not use it, for requests that run one at a time      *)
(* (delegation.service.ts, assertWindowWithinEnvelope).                    *)
THEOREM DelegatedTimeIsHeldTimeAlways == Spec => DelegatedTimeIsHeldTime
<1>1. DelegationTables /\ AloneInv /\ [Next]_vars =>
        [Alone => \A w \in Workers : CommitGrantPermission(w) =>
           \A t \in 0..(Sent.until + 1) :
             isGrantActive(tx[w].window, t)
               => Covered(tx[w].actor, collaboration[tx[w].id].scope, tx[w].permission, t)]_vars
  BY DelegationIsAttenuated
<1> QED BY <1>1, AloneInvariant, PTL DEF Spec, DelegatedTimeIsHeldTime
=============================================================================
