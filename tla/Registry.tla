------------------------------ MODULE Registry -----------------------------
(***************************************************************************)
(* The PostgreSQL tables behind accounts: users with their credential      *)
(* account, careers, the units both refer to, sessions, and what the audit *)
(* log tells of users and careers.                                         *)
(*                                                                         *)
(* As in Database, a request reads and decides first, leaves in tx[w] what *)
(* it will write, and runs its transaction later, when the rows it read    *)
(* may have changed.                                                       *)
(***************************************************************************)
EXTENDS Naturals, FiniteSets

CONSTANTS
  Users, Careers, Sessions,      (* Row ids (cuid): none is used twice.    *)
  Units,            (* Organizational units; they are never deleted.       *)
  Faculties,        (* The units whose type is FACULTY.                    *)
  Codes, OTROS,     (* Career codes, and the one of the global career.     *)
  Emails, Identifications, Passwords,
  Root,             (* The administrator the baseline seed creates.        *)
  Otros,            (* The row of the global career, seeded too.           *)
  Tokens,           (* Session tokens: none is drawn twice.                *)
  Workers,          (* Requests that can be in flight at the same time.    *)
  Clients,          (* What clients send, by the name of the scenario.     *)
  Null,             (* SQL NULL; also a row, or a transaction, not there.  *)
  Undefined         (* A field the body of a request does not have.        *)

VARIABLES
  activeUnits,   (* organizational_units whose is_active is set            *)
  career,        (* careers                                                *)
  user,          (* users, with the password of their credential account   *)
  session,       (* sessions                                               *)
  told,          (* what the last audit events tell of users and careers   *)
  tx,            (* the transaction each request is about to run           *)
  clients        (* the scenario: it never changes                         *)

registry == <<activeUnits, career, user, session, told, clients>>

Sent == Clients[clients]

GlobalRoles == {"USER", "ADMIN"}

UserRow ==
  [email : Emails, identificationNumber : Identifications,
   emailVerified : BOOLEAN, password : Passwords,
   globalRole : GlobalRoles, isActive : BOOLEAN,
   unitId : Units \cup {Null}, careerId : Careers \cup {Null}]

CareerRow == [code : Codes, unitId : Units \cup {Null}]

SessionRow == [userId : Users, token : Tokens, expiresAt : Nat]

ASSUME RegistryAssumption ==
  /\ Faculties \subseteq Units
  /\ OTROS \in Codes
  /\ Root \in Users
  /\ Otros \in Careers
  /\ Users \cap Careers = {}
  /\ \A name \in DOMAIN Clients : Clients[name].inFlight \in Nat
  /\ Null \notin Units \cup Users \cup Careers
  /\ Null \notin UserRow /\ Null \notin CareerRow /\ Null \notin SessionRow
  /\ Undefined \notin Units \cup Careers \cup {Null}
  /\ Undefined \notin Codes /\ Undefined \notin GlobalRoles /\ Undefined \notin BOOLEAN

-----------------------------------------------------------------------------

UserExists(u) == user[u] # Null
CareerExists(c) == career[c] # Null

UsersOf(c) == {u \in Users : UserExists(u) /\ user[u].careerId = c}
SessionsOf(u) == {s \in Sessions : session[s] # Null /\ session[s].userId = u}

\* Mutation: administrators who are not active count.
ActiveAdmins_AnyStatus ==
  {u \in Users : UserExists(u) /\ user[u].globalRole = "ADMIN"}

ActiveAdmins ==
  {u \in Users : UserExists(u) /\ user[u].globalRole = "ADMIN" /\ user[u].isActive}

\* authenticate followed by requireAdmin.
requireAdmin(actor) == actor \in ActiveAdmins

Given(value, otherwise) == IF value = Undefined THEN otherwise ELSE value

\* What an event may tell of a row: some fields, each with a value of its column.
Tells(changes, columns) ==
  /\ DOMAIN changes \subseteq DOMAIN columns
  /\ \A field \in DOMAIN changes : changes[field] \in columns[field]

UserColumns ==
  [globalRole |-> GlobalRoles, isActive |-> BOOLEAN,
   unitId |-> Units \cup {Null}, careerId |-> Careers \cup {Null}]

CareerColumns == [code |-> Codes, unitId |-> Units \cup {Null}]

\* The log after an event that tells changes (a record of fields) of a row.
Telling(row, changes) ==
  [told EXCEPT ![row] =
     [field \in DOMAIN @ \cup DOMAIN changes |->
        IF field \in DOMAIN changes THEN changes[field] ELSE @[field]]]

Nothing == [field \in {} |-> Null]

\* The fields of after that are not those of before, as an event tells them.
Changed(before, after) ==
  [field \in {f \in DOMAIN after : after[f] # Undefined /\ after[f] # before[f]}
     |-> after[field]]

\* Requests run one at a time.
Alone == Sent.inFlight = 1

-----------------------------------------------------------------------------
(* Constraints. *)

users_email_key(row) ==
  \A u \in Users : UserExists(u) =>
    /\ user[u].email # row.email
    /\ user[u].identificationNumber # row.identificationNumber

careers_code_key(c, code) ==
  \A d \in Careers \ {c} : CareerExists(d) => career[d].code # code

users_career_id_fkey(careerId) == careerId # Null => CareerExists(careerId)

-----------------------------------------------------------------------------

Idle(w) == tx[w] = Null

\* w may serve a request: fewer are in flight than clients send at a time.
Accepts(w) ==
  /\ Idle(w)
  /\ Cardinality({other \in Workers : ~Idle(other)}) < Sent.inFlight

Begin(w, t) ==
  /\ tx' = [tx EXCEPT ![w] = t]
  /\ UNCHANGED registry

Commits(w, op) ==
  /\ ~Idle(w)
  /\ tx[w].op = op
  /\ tx' = [tx EXCEPT ![w] = Null]
  /\ UNCHANGED clients

\* Sessions a transaction has deleted and not committed: other statements that
\* would write them wait.
Locked == UNION {tx[w].revoked : w \in {v \in Workers : ~Idle(v) /\ "revoked" \in DOMAIN tx[v]}}

Without(sessions) == [s \in Sessions |-> IF s \in sessions THEN Null ELSE session[s]]

\* A constraint refused the transaction, or the request was lost.
Rollback(w) ==
  /\ ~Idle(w)
  /\ tx' = [tx EXCEPT ![w] = Null]
  /\ UNCHANGED registry

\* Deactivation and reactivation of a unit, seen from here: one request.
SetUnitActive(w, unit, active) ==
  /\ Accepts(w)
  /\ activeUnits' = IF active THEN activeUnits \cup {unit} ELSE activeUnits \ {unit}
  /\ UNCHANGED <<career, user, session, told, tx, clients>>

\* What the baseline seed leaves: the global career and one administrator.
RegistryInit(root) ==
  /\ activeUnits = Units
  /\ career = [c \in Careers |->
                 IF c = Otros THEN [code |-> OTROS, unitId |-> Null] ELSE Null]
  /\ user = [u \in Users |-> IF u = Root THEN root ELSE Null]
  /\ session = [s \in Sessions |-> Null]
  /\ told = [row \in Users \cup Careers |-> Nothing]
  /\ tx = [w \in Workers |-> Null]
  /\ clients \in DOMAIN Clients
=============================================================================
