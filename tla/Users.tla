------------------------------- MODULE Users -------------------------------
(***************************************************************************)
(* modules/users: profiles, and accounts as administrators manage them;    *)
(* and the sign-up of modules/auth, which creates accounts as well.        *)
(***************************************************************************)
EXTENDS Registry

Assignment ==
  [unitId : Units \cup {Null, Undefined}, careerId : Careers \cup {Null, Undefined}]

AssignmentInput ==
  [unitId : Units \cup {Null, Undefined}, careerId : Careers \cup {Undefined}]

AdminInput ==
  [globalRole : GlobalRoles \cup {Undefined}, isActive : BOOLEAN \cup {Undefined},
   unitId : Units \cup {Null, Undefined}, careerId : Careers \cup {Undefined}]

\* The same with the assignment resolved.
AdminData ==
  [globalRole : GlobalRoles \cup {Undefined}, isActive : BOOLEAN \cup {Undefined},
   unitId : Units \cup {Null, Undefined}, careerId : Careers \cup {Null, Undefined}]

\* A new account, before the assignment is resolved.
AccountInput ==
  [email : Emails, identificationNumber : Identifications, password : Passwords,
   isActive : BOOLEAN, unitId : Units \cup {Null, Undefined},
   careerId : Careers \cup {Undefined}]

-----------------------------------------------------------------------------
(* resolveOrganizationAssignment: current is Null for an account to come.  *)

currentUnit(current) == IF current = Null THEN Null ELSE current.unitId

\* The unit of the career the user has; Null also when it is global.
unitOfCareer(careerId) == IF careerId = Null THEN Null ELSE career[careerId].unitId

effectiveUnitId(input, current) == Given(input.unitId, currentUnit(current))

otrosCareer == {c \in Careers : CareerExists(c) /\ career[c].code = OTROS}

\* The requests it does not refuse.
AssignmentAllowed(input, current) ==
  IF input.unitId = Null
  THEN otrosCareer # {} /\ input.careerId \in otrosCareer \cup {Undefined}
  ELSE /\ input.unitId # Undefined => input.unitId \in activeUnits
       /\ input.careerId # Undefined =>
            /\ CareerExists(input.careerId)
            /\ effectiveUnitId(input, current) # Null =>
                 career[input.careerId].unitId \in {Null, effectiveUnitId(input, current)}

\* What it returns for them.
resolveOrganizationAssignment(input, current) ==
  IF input.unitId = Null
  THEN [unitId |-> Null, careerId |-> CHOOSE c \in otrosCareer : TRUE]
  ELSE
    [unitId |->
       IF input.careerId # Undefined /\ effectiveUnitId(input, current) = Null
            /\ career[input.careerId].unitId # Null
       THEN career[input.careerId].unitId
       ELSE input.unitId,
     careerId |->
       IF input.careerId = Undefined /\ input.unitId # Undefined /\ current # Null
            /\ unitOfCareer(current.careerId) \notin {Null, input.unitId}
       THEN Null
       ELSE input.careerId]

Assigned(row, data) ==
  [row EXCEPT !.unitId = Given(data.unitId, @), !.careerId = Given(data.careerId, @)]

UserTxOK(t) ==
  \/ /\ t.op = "updateProfile"
     /\ t.id \in Users /\ t.data \in Assignment /\ Tells(t.changes, UserColumns)
  \/ t.op \in {"createUser", "registerUser"} /\ t.row \in UserRow
  \/ /\ t.op \in {"updateAdminUser", "updateAdminUser revoked"}
     /\ t.id \in Users /\ t.data \in AdminData /\ Tells(t.changes, UserColumns)
     /\ t.revoked \subseteq Sessions

-----------------------------------------------------------------------------
(* updateProfile: a user who is active changes their unit and career.      *)

BeginUpdateProfile(w, u, input) ==
  /\ Accepts(w)
  /\ UserExists(u) /\ user[u].isActive
  /\ AssignmentAllowed(input, user[u])
  /\ LET data == resolveOrganizationAssignment(input, user[u])
     IN  Begin(w, [op |-> "updateProfile", id |-> u, data |-> data,
                   changes |-> Changed(user[u], data)])

CommitUpdateProfile(w) ==
  LET u == tx[w].id
      new == Assigned(user[u], tx[w].data)
  IN  /\ Commits(w, "updateProfile")
      /\ users_career_id_fkey(new.careerId)
      /\ user' = [user EXCEPT ![u] = new]
      /\ told' = Telling(u, tx[w].changes)
      /\ UNCHANGED <<activeUnits, career, session>>

-----------------------------------------------------------------------------
(* createUser *)

NewRow(input, globalRole, unitId, careerId) ==
  [email |-> input.email, identificationNumber |-> input.identificationNumber,
   emailVerified |-> FALSE, password |-> input.password,
   globalRole |-> globalRole, isActive |-> input.isActive,
   unitId |-> unitId, careerId |-> careerId]

BeginCreateUser(w, actor, input) ==
  /\ Accepts(w)
  /\ requireAdmin(actor)
  /\ users_email_key(input)
  /\ AssignmentAllowed(input, Null)
  /\ LET data == resolveOrganizationAssignment(input, Null)
     IN  Begin(w, [op |-> "createUser",
                   row |-> NewRow(input, "USER", Given(data.unitId, Null),
                                  Given(data.careerId, Null))])

CommitCreateUser(w, u) ==
  /\ Commits(w, "createUser")
  /\ ~UserExists(u)
  /\ users_email_key(tx[w].row)
  /\ users_career_id_fkey(tx[w].row.careerId)
  /\ user' = [user EXCEPT ![u] = tx[w].row]
  /\ told' = Telling(u, [field \in {"globalRole", "isActive", "unitId", "careerId"} |->
                           tx[w].row[field]])
  /\ UNCHANGED <<activeUnits, career, session>>

-----------------------------------------------------------------------------
(* registerUser: the provider writes unit and career as they come.  Its    *)
(* audit event, in a transaction of its own, tells no field.               *)

BeginRegisterUser(w, input) ==
  /\ Accepts(w)
  /\ input.isActive /\ input.unitId # Null
  /\ users_email_key(input)
  /\ Begin(w, [op |-> "registerUser",
               row |-> NewRow(input, "USER", Given(input.unitId, Null),
                              Given(input.careerId, Null))])

CommitRegisterUser(w, u) ==
  /\ Commits(w, "registerUser")
  /\ ~UserExists(u)
  /\ users_email_key(tx[w].row)
  /\ users_career_id_fkey(tx[w].row.careerId)
  /\ user' = [user EXCEPT ![u] = tx[w].row]
  /\ UNCHANGED <<activeUnits, career, session, told>>

-----------------------------------------------------------------------------
(* updateAdminUser *)

KeepsOwnAccount(actor, u, input) ==
  actor = u => /\ input.isActive # FALSE
               /\ input.globalRole \in {Undefined, user[u].globalRole}

PromotesActive(u, input) ==
  user[u].globalRole = "USER" /\ input.globalRole = "ADMIN" =>
    user[u].isActive /\ input.isActive # FALSE

removesActiveAdmin(u, input) ==
  /\ u \in ActiveAdmins
  /\ input.globalRole \notin {Undefined, "ADMIN"} \/ input.isActive = FALSE

\* Mutation: one event, about the role when the role changes.
buildAdminUserAuditEvents_RoleOnly(current, input) ==
  IF input.globalRole \notin {Undefined, current.globalRole}
  THEN [globalRole |-> input.globalRole]
  ELSE Changed(current, input)

\* They tell what was asked for, not what it was resolved to.
buildAdminUserAuditEvents(current, input) == Changed(current, input)

BeginUpdateAdminUser(w, actor, u, input) ==
  /\ Accepts(w)
  /\ requireAdmin(actor)
  /\ UserExists(u)
  /\ KeepsOwnAccount(actor, u, input)
  /\ PromotesActive(u, input)
  /\ AssignmentAllowed(input, user[u])
  /\ removesActiveAdmin(u, input) => ActiveAdmins \ {u} # {}
  /\ LET data == resolveOrganizationAssignment(input, user[u])
     IN  Begin(w, [op |-> "updateAdminUser", id |-> u,
                   data |-> [input EXCEPT !.unitId = data.unitId,
                                          !.careerId = data.careerId],
                   changes |-> buildAdminUserAuditEvents(user[u], input),
                   revoked |-> {}])

\* deleteMany, inside the transaction: it finds the sessions there are by then.
RevokeSessions(w) ==
  /\ ~Idle(w)
  /\ tx[w].op = "updateAdminUser" /\ tx[w].data.isActive = FALSE
  /\ SessionsOf(tx[w].id) \cap Locked = {}
  /\ tx' = [tx EXCEPT ![w].op = "updateAdminUser revoked",
                      ![w].revoked = SessionsOf(tx[w].id)]
  /\ UNCHANGED registry

CommitUpdateAdminUser(w) ==
  LET u == tx[w].id
      new == [Assigned(user[u], tx[w].data) EXCEPT
                !.globalRole = Given(tx[w].data.globalRole, @),
                !.isActive = Given(tx[w].data.isActive, @)]
  IN  /\ \/ Commits(w, "updateAdminUser") /\ tx[w].data.isActive # FALSE
         \/ Commits(w, "updateAdminUser revoked")
      /\ users_career_id_fkey(new.careerId)
      /\ user' = [user EXCEPT ![u] = new]
      /\ session' = Without(tx[w].revoked)
      /\ told' = Telling(u, tx[w].changes)
      /\ UNCHANGED <<activeUnits, career>>

UserRequest(w) ==
  \/ \E u \in Users, input \in Sent.profiles : BeginUpdateProfile(w, u, input)
  \/ CommitUpdateProfile(w)
  \/ \E actor \in Users, input \in Sent.accounts : BeginCreateUser(w, actor, input)
  \/ \E u \in Users : CommitCreateUser(w, u)
  \/ \E input \in Sent.accounts : BeginRegisterUser(w, input)
  \/ \E u \in Users : CommitRegisterUser(w, u)
  \/ \E actor, u \in Users, input \in Sent.adminInputs : BeginUpdateAdminUser(w, actor, u, input)
  \/ RevokeSessions(w)
  \/ CommitUpdateAdminUser(w)
=============================================================================
