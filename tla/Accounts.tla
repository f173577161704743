------------------------------ MODULE Accounts -----------------------------
(***************************************************************************)
(* modules/users and modules/careers over the same tables: who             *)
(* administers, and which unit and career each user is assigned to.        *)
(* Sessions are those of module Sessions; here nobody signs in.            *)
(***************************************************************************)
EXTENDS Careers, Users

CONSTANT
  RootRow           (* The row the baseline seed creates for Root.         *)

vars == <<activeUnits, career, user, session, told, tx, clients>>

ASSUME AccountsAssumption ==
  /\ RootRow \in UserRow /\ RootRow.globalRole = "ADMIN" /\ RootRow.isActive
  /\ RootRow.careerId = Null
  /\ \A name \in DOMAIN Clients : Clients[name] \in
       [careerRows : SUBSET CareerRow, careerInputs : SUBSET CareerInput,
        profiles : SUBSET AssignmentInput, accounts : SUBSET AccountInput,
        adminInputs : SUBSET AdminInput,
        movable : SUBSET Units,   (* units that may be deactivated and reactivated *)
        inFlight : Nat]

TypeOK ==
  /\ activeUnits \subseteq Units
  /\ career \in [Careers -> CareerRow \cup {Null}]
  /\ user \in [Users -> UserRow \cup {Null}]
  /\ session \in [Sessions -> SessionRow \cup {Null}]
  /\ \A u \in Users : Tells(told[u], UserColumns)
  /\ \A c \in Careers : Tells(told[c], CareerColumns)
  /\ clients \in DOMAIN Clients
  /\ \A w \in Workers : tx[w] # Null => CareerTxOK(tx[w]) \/ UserTxOK(tx[w])

Init == RegistryInit(RootRow)

Next ==
  \E w \in Workers :
    \/ CareerRequest(w)
    \/ UserRequest(w)
    \/ \E unit \in Sent.movable, active \in BOOLEAN : SetUnitActive(w, unit, active)
    \/ Rollback(w)

Spec == Init /\ [][Next]_vars

-----------------------------------------------------------------------------
(***************************************************************************)
(* The global career "Otros" is always there to be assigned, and global,   *)
(* however requests that edit careers interleave (careers.openapi.ts:62).  *)
(***************************************************************************)
OtrosStaysGlobal ==
  \E c \in Careers : CareerExists(c) /\ career[c] = [code |-> OTROS, unitId |-> Null]

(***************************************************************************)
(* Nobody refers to a career that is gone, whatever was decided before it  *)
(* was deleted.                                                            *)
(***************************************************************************)
CareersExist ==
  \A u \in Users :
    UserExists(u) /\ user[u].careerId # Null => CareerExists(user[u].careerId)

(***************************************************************************)
(* An e-mail address, or an identification number, is registered once,     *)
(* although sign-up and an administrator may both find it free.            *)
(***************************************************************************)
AccountsAreDistinct ==
  \A u, v \in Users :
    UserExists(u) /\ UserExists(v)
      /\ (\/ user[u].email = user[v].email
          \/ user[u].identificationNumber = user[v].identificationNumber)
      => u = v

(***************************************************************************)
(* The relations between accounts and careers, and the types of the rows,  *)
(* that unique indexes, foreign keys and guards keep together              *)
(* (users.service.ts, careers.service.ts).                                 *)
(***************************************************************************)
AccountTables == TypeOK /\ OtrosStaysGlobal /\ CareersExist /\ AccountsAreDistinct

-----------------------------------------------------------------------------
(***************************************************************************)
(* What requests keep while no other one is in flight.                     *)
(***************************************************************************)

(***************************************************************************)
(* "At least one active administrator is required."                        *)
(* (users.service.ts, updateAdminUser): without one nobody could appoint   *)
(* another.                                                                *)
(***************************************************************************)
AnAdministratorRemains ==
  Alone => \E u \in Users : UserExists(u) /\ user[u].globalRole = "ADMIN" /\ user[u].isActive

\* The career of u belongs to another unit than u.
Misplaced(u) ==
  /\ UserExists(u) /\ user[u].careerId # Null
  /\ unitOfCareer(user[u].careerId) \notin {Null, user[u].unitId}

(***************************************************************************)
(* Only sign-up, which checks neither, leaves a user with a career of      *)
(* another unit: no update of a profile, an account, a career or a unit    *)
(* does (users.service.ts, resolveOrganizationAssignment).  And "a career  *)
(* with associated users cannot change units", nor be deleted              *)
(* (careers.openapi.ts:62, 85): its users would lose it and nobody would   *)
(* be told.                                                                *)
(***************************************************************************)
UsersStayPlaced ==
  [][Alone =>
       /\ \A u \in Users : Misplaced(u)' =>
            \/ Misplaced(u)
            \/ \E w \in Workers : tx[w] # Null /\ tx[w].op = "registerUser" /\ ~UserExists(u)
       /\ \A c \in Careers :
            /\ CareerExists(c)
            /\ career'[c] = Null \/ career'[c].unitId # career[c].unitId
            => UsersOf(c) = {}]_vars

(***************************************************************************)
(* The audit log tells who administers and who is active: the last event   *)
(* about either is what the table says (ADR-0008).                         *)
(***************************************************************************)
RolesAreTold ==
  Alone => \A u \in Users : \A field \in DOMAIN told[u] \cap {"globalRole", "isActive"} :
    told[u][field] = user[u][field]
=============================================================================
