------------------------------ MODULE Sessions -----------------------------
(***************************************************************************)
(* modules/auth: sign-in, the rotation of the refresh token, sign-out,     *)
(* change and reset of the password, and verification of the e-mail, with  *)
(* the cookie that carries the token between browser and server.           *)
(*                                                                         *)
(* A handler is a sequence of steps between which other requests run: its  *)
(* awaits.  tx[w] is what request w holds between two of them.  A request  *)
(* may be lost at any step: the process stops, or the answer does not      *)
(* arrive.                                                                 *)
(***************************************************************************)
EXTENDS Users

CONSTANTS
  Browsers,         (* Cookie jars; the tabs of a browser share one.       *)
  SessionTTL,       (* AUTH_REFRESH_TTL                                    *)
  ResetTTL,         (* AUTH_PASSWORD_RESET_TTL                             *)
  MaxNow            (* Bound: the clock stops here.                        *)

VARIABLES
  cookie,      (* the refresh token each browser keeps                     *)
  opened,      (* ids of session rows that were used                       *)
  drawn,       (* tokens that were drawn                                   *)
  reset,       (* password reset tokens that were sent: owner and end      *)
  subject,     (* the marker of withAuthAuditSubject, one of each request  *)
  now

auth == <<cookie, opened, drawn, reset, subject, now>>
vars == <<activeUnits, career, user, session, told, tx, clients,
          cookie, opened, drawn, reset, subject, now>>

ASSUME SessionsAssumption ==
  /\ SessionTTL \in Nat /\ ResetTTL \in Nat /\ MaxNow \in Nat
  /\ Null \notin Tokens
  /\ \A name \in DOMAIN Clients : Clients[name] \in
       [endpoints : SUBSET STRING,       (* the endpoints they call            *)
        seeded : [Users -> UserRow],     (* the accounts there are             *)
        profiles : {{}}, accounts : {{}}, adminInputs : SUBSET AdminInput,
        inFlight : Nat,                  (* requests at the same time          *)
        faults : BOOLEAN,                (* whether requests are lost          *)
        logins : Nat, draws : Nat,       (* bounds: sessions opened, tokens    *)
        until : 0..MaxNow]               (* bound: the clock stops there       *)

\* The row whose token is the one presented.
SessionWith(token) == {s \in Sessions : session[s] # Null /\ session[s].token = token}

\* Request w of an endpoint goes on with step t.
Starts(w, endpoint, t) ==
  /\ endpoint \in Sent.endpoints
  /\ Accepts(w)
  /\ tx' = [tx EXCEPT ![w] = t]

Continues(w, op) == ~Idle(w) /\ tx[w].op = op

Goes(w, t) == tx' = [tx EXCEPT ![w] = t]

\* The answer carries a cookie; the browser keeps it when it arrives.
Answer(browser, token) == [op |-> "answer", browser |-> browser, token |-> token]

Receive(w) ==
  /\ Continues(w, "answer")
  /\ cookie' = [cookie EXCEPT ![tx[w].browser] = tx[w].token]
  /\ Goes(w, Null)
  /\ UNCHANGED <<registry, opened, drawn, reset, subject, now>>

-----------------------------------------------------------------------------
(* loginWithPassword.  The provider checks the password, then creates the  *)
(* session; only then is the user read.                                    *)

SignInEmail(w, b, u, password) ==
  /\ UserExists(u)
  /\ user[u].emailVerified /\ user[u].password = password
  /\ Starts(w, "login", [op |-> "signing in", browser |-> b, userId |-> u])
  /\ UNCHANGED <<registry, auth>>

CreateSession(w, s, token) ==
  /\ Continues(w, "signing in")
  /\ s \notin opened /\ Cardinality(opened) < Sent.logins
  /\ token \notin drawn /\ Cardinality(drawn) < Sent.draws
  /\ session' = [session EXCEPT ![s] =
       [userId |-> tx[w].userId, token |-> token, expiresAt |-> now + SessionTTL]]
  /\ opened' = opened \cup {s}
  /\ drawn' = drawn \cup {token}
  /\ Goes(w, [op |-> "signed in", browser |-> tx[w].browser,
              userId |-> tx[w].userId, token |-> token])
  /\ UNCHANGED <<activeUnits, career, user, told, clients, cookie, reset, subject, now>>

\* Mutation: an account that is not active is not refused.
LoginUser_AnyStatus(w) ==
  /\ Continues(w, "signed in")
  /\ tx' = [tx EXCEPT ![w].op = "accepted"]
  /\ UNCHANGED <<registry, auth>>

LoginUser(w) ==
  /\ Continues(w, "signed in")
  /\ IF user[tx[w].userId].isActive
     THEN tx' = [tx EXCEPT ![w].op = "accepted"]
     ELSE Goes(w, [op |-> "refused", token |-> tx[w].token])
  /\ UNCHANGED <<registry, auth>>

\* fetchSessionExpiry, which answers 401 when the session is gone.
FinishLogin(w) ==
  /\ Continues(w, "accepted")
  /\ IF SessionWith(tx[w].token) # {}
     THEN Goes(w, Answer(tx[w].browser, tx[w].token))
     ELSE Goes(w, Null)
  /\ UNCHANGED <<registry, auth>>

\* The session of an account that is not active is deleted, and the answer 401.
Refuse(w) ==
  /\ Continues(w, "refused")
  /\ SessionWith(tx[w].token) \cap Locked = {}
  /\ session' = Without(SessionWith(tx[w].token))
  /\ Goes(w, Null)
  /\ UNCHANGED <<activeUnits, career, user, told, clients, auth>>

-----------------------------------------------------------------------------
(* refreshAccessToken *)

BeginRefresh(w, b) ==
  \E s \in SessionWith(cookie[b]) :
    /\ now < session[s].expiresAt
    /\ Starts(w, "refresh",
         IF user[session[s].userId].isActive
         THEN [op |-> "rotating", browser |-> b, token |-> cookie[b], now |-> now]
         ELSE [op |-> "refused", token |-> cookie[b]])
    /\ UNCHANGED <<registry, auth>>

\* Mutation: the sessions of the user are rotated.
Rotated_OfUser(token, instant) ==
  {s \in Sessions : session[s] # Null /\
     \E r \in SessionWith(token) : session[r].userId = session[s].userId}

\* updateMany where the token is still the one presented.
Rotated(token, instant) == {s \in SessionWith(token) : instant < session[s].expiresAt}

\* Mutation: the token goes in the body only; each tab keeps its own.
RefreshAnswer_InBody(rotated, browser, token) == Null

\* The controller writes the cookie when one row was updated; 401 otherwise.
RefreshAnswer(rotated, browser, token) ==
  IF rotated = {} THEN Null ELSE Answer(browser, token)

RotateToken(w, token) ==
  LET rotated == Rotated(tx[w].token, tx[w].now)
  IN  /\ Continues(w, "rotating")
      /\ token \notin drawn /\ Cardinality(drawn) < Sent.draws
      /\ rotated \cap Locked = {}
      /\ session' = [s \in Sessions |->
                       IF s \in rotated THEN [session[s] EXCEPT !.token = token] ELSE session[s]]
      /\ drawn' = IF rotated = {} THEN drawn ELSE drawn \cup {token}
      /\ Goes(w, RefreshAnswer(rotated, tx[w].browser, token))
      /\ UNCHANGED <<activeUnits, career, user, told, clients, cookie, opened, reset, subject, now>>

-----------------------------------------------------------------------------
(* logoutUser: without a cookie nothing is revoked.  The field line, in    *)
(* this and in other requests, is the session the cookie stood for when    *)
(* the request arrived; only properties look at it.                        *)

BeginLogout(w, b) ==
  /\ Starts(w, "logout",
       IF cookie[b] = Null THEN Answer(b, Null)
       ELSE [op |-> "logging out", browser |-> b, token |-> cookie[b],
             line |-> SessionWith(cookie[b])])
  /\ UNCHANGED <<registry, auth>>

\* Mutation: the cookie is cleared and the session stays.
RevokeSession_CookieOnly(w) ==
  /\ Continues(w, "logging out")
  /\ Goes(w, [op |-> "logged out", browser |-> tx[w].browser, line |-> tx[w].line])
  /\ UNCHANGED <<registry, auth>>

RevokeSession(w) ==
  /\ Continues(w, "logging out")
  /\ SessionWith(tx[w].token) \cap Locked = {}
  /\ session' = Without(SessionWith(tx[w].token))
  /\ Goes(w, [op |-> "logged out", browser |-> tx[w].browser, line |-> tx[w].line])
  /\ UNCHANGED <<activeUnits, career, user, told, clients, auth>>

AnswerLogout(w) ==
  /\ Continues(w, "logged out")
  /\ Goes(w, Answer(tx[w].browser, Null))
  /\ UNCHANGED <<registry, auth>>

-----------------------------------------------------------------------------
(* changePassword *)

BeginChangePassword(w, b, u, current, new) ==
  /\ UserExists(u) /\ user[u].isActive
  /\ user[u].password = current
  /\ \E s \in SessionWith(cookie[b]) : session[s].userId = u
  /\ Starts(w, "change-password",
       [op |-> "changing", userId |-> u, token |-> cookie[b], password |-> new,
        line |-> SessionWith(cookie[b]), revoked |-> {}])
  /\ UNCHANGED <<registry, auth>>

\* Mutation: the session of the request goes with the others.
OtherSessions_All(u, token) == SessionsOf(u)

OtherSessions(u, token) == {s \in SessionsOf(u) : session[s].token # token}

\* The update of the account makes another change of the same password wait.
RevokeOtherSessions(w) ==
  LET others == OtherSessions(tx[w].userId, tx[w].token)
  IN  /\ Continues(w, "changing")
      /\ ~ \E v \in Workers : Continues(v, "changed") /\ tx[v].userId = tx[w].userId
      /\ others \cap Locked = {}
      /\ tx' = [tx EXCEPT ![w].op = "changed", ![w].revoked = others]
      /\ UNCHANGED <<registry, auth>>

CommitChangePassword(w) ==
  /\ Commits(w, "changed")
  /\ user' = [user EXCEPT ![tx[w].userId].password = tx[w].password]
  /\ session' = Without(tx[w].revoked)
  /\ UNCHANGED <<activeUnits, career, told, auth>>

-----------------------------------------------------------------------------
(* requestPasswordReset: the message with the token goes to the address    *)
(* of the account, if there is one.                                        *)

RequestPasswordReset(w, u) ==
  /\ "reset" \in Sent.endpoints
  /\ Accepts(w) /\ UserExists(u)
  /\ reset' = reset \cup {[userId |-> u, until |-> now + ResetTTL]}
  /\ UNCHANGED <<registry, tx, cookie, opened, drawn, subject, now>>

(* resetPassword: the provider consumes the token, sets the password, runs *)
(* the hook onPasswordReset and deletes the sessions of the user, in that  *)
(* order and in statements of their own; then the event is recorded.       *)

BeginResetPassword(w, message, password) ==
  /\ message \in reset /\ now < message.until
  /\ Starts(w, "reset", [op |-> "resetting", userId |-> message.userId,
                         message |-> message, password |-> password, line |-> {}])
  /\ UNCHANGED <<registry, auth>>

\* Mutation: one marker for all the requests.
Captured_Shared(w, u) == [v \in Workers |-> u]

\* Mutation: the marker keeps the address.
Captured_Email(w, u) == [subject EXCEPT ![w] = user[u].email]

\* captureAuthAuditSubject
Captured(w, u) == [subject EXCEPT ![w] = u]

\* Mutation: the hook records the event, and its failure ends the request.
SetPassword_AuditsInHook(w) ==
  /\ Continues(w, "resetting")
  /\ user' = [user EXCEPT ![tx[w].userId].password = tx[w].password]
  /\ reset' = reset \ {tx[w].message}
  /\ subject' = Captured(w, tx[w].userId)
  /\ tx' = [tx EXCEPT ![w].op = "auditing", ![w].line = SessionsOf(tx[w].userId)]
  /\ UNCHANGED <<activeUnits, career, session, told, clients, cookie, opened, drawn, now>>

SetPassword(w) ==
  /\ Continues(w, "resetting")
  /\ user' = [user EXCEPT ![tx[w].userId].password = tx[w].password]
  /\ reset' = reset \ {tx[w].message}
  /\ subject' = Captured(w, tx[w].userId)
  /\ tx' = [tx EXCEPT ![w].op = "revoking", ![w].line = SessionsOf(tx[w].userId)]
  /\ UNCHANGED <<activeUnits, career, session, told, clients, cookie, opened, drawn, now>>

RevokeUserSessions(w) ==
  /\ Continues(w, "revoking")
  /\ SessionsOf(tx[w].userId) \cap Locked = {}
  /\ session' = Without(SessionsOf(tx[w].userId))
  /\ tx' = [tx EXCEPT ![w].op = "auditing"]
  /\ UNCHANGED <<activeUnits, career, user, told, clients, auth>>

(* verifyEmail: the hook runs when the address was not verified before.    *)

BeginVerifyEmail(w, u) ==
  /\ UserExists(u) /\ ~user[u].emailVerified
  /\ Starts(w, "verify", [op |-> "verifying", userId |-> u, line |-> {}])
  /\ UNCHANGED <<registry, auth>>

SetEmailVerified(w) ==
  /\ Continues(w, "verifying")
  /\ user' = [user EXCEPT ![tx[w].userId].emailVerified = TRUE]
  /\ subject' = Captured(w, tx[w].userId)
  /\ tx' = [tx EXCEPT ![w].op = "auditing"]
  /\ UNCHANGED <<activeUnits, career, session, told, clients, cookie, opened, drawn, reset, now>>

\* recordAuthAuditEvent, about the subject withAuthAuditSubject returned.  It
\* tells no field, and the request ends well although the insert fails.
RecordAuthAudit(w) ==
  /\ Continues(w, "auditing")
  /\ Goes(w, Null)
  /\ subject' = [subject EXCEPT ![w] = Null]
  /\ UNCHANGED <<registry, cookie, opened, drawn, reset, now>>

-----------------------------------------------------------------------------

\* A request or its answer is lost; a transaction that is open rolls back.
Lose(w) ==
  /\ Sent.faults
  /\ ~Idle(w)
  /\ Goes(w, Null)
  /\ subject' = [subject EXCEPT ![w] = Null]
  /\ UNCHANGED <<registry, cookie, opened, drawn, reset, now>>

Tick ==
  /\ now < Sent.until
  /\ now' = now + 1
  /\ UNCHANGED <<registry, tx, cookie, opened, drawn, reset, subject>>

Init ==
  /\ activeUnits = Units
  /\ career = [c \in Careers |-> Null]
  /\ clients \in DOMAIN Clients
  /\ user = Sent.seeded
  /\ session = [s \in Sessions |-> Null]
  /\ told = [row \in Users \cup Careers |-> Nothing]
  /\ tx = [w \in Workers |-> Null]
  /\ cookie = [b \in Browsers |-> Null]
  /\ opened = {} /\ drawn = {} /\ reset = {}
  /\ subject = [w \in Workers |-> Null]
  /\ now = 0

Arrives(w) ==
  \/ \E b \in Browsers, u \in Users, password \in Passwords : SignInEmail(w, b, u, password)
  \/ \E b \in Browsers : BeginRefresh(w, b) \/ BeginLogout(w, b)
  \/ \E b \in Browsers, u \in Users, current, new \in Passwords :
       BeginChangePassword(w, b, u, current, new)
  \/ \E u \in Users : RequestPasswordReset(w, u) \/ BeginVerifyEmail(w, u)
  \/ \E message \in reset, password \in Passwords : BeginResetPassword(w, message, password)
  \/ /\ "users" \in Sent.endpoints
     /\ \E actor, u \in Users, input \in Sent.adminInputs : BeginUpdateAdminUser(w, actor, u, input)
     /\ UNCHANGED auth

\* What the server does with a request that arrived, and the answer's arrival.
Serves(w) ==
  \/ \E s \in Sessions, token \in Tokens : CreateSession(w, s, token)
  \/ LoginUser(w) \/ FinishLogin(w) \/ Refuse(w)
  \/ \E token \in Tokens : RotateToken(w, token)
  \/ RevokeSession(w) \/ AnswerLogout(w)
  \/ RevokeOtherSessions(w) \/ CommitChangePassword(w)
  \/ SetPassword(w) \/ RevokeUserSessions(w) \/ SetEmailVerified(w) \/ RecordAuthAudit(w)
  \/ (RevokeSessions(w) \/ CommitUpdateAdminUser(w)) /\ UNCHANGED auth
  \/ Receive(w)

Next == Tick \/ \E w \in Workers : Arrives(w) \/ Serves(w) \/ Lose(w)

Spec == Init /\ [][Next]_vars

\* A request that arrived is served: nothing in a handler waits for a client.
FairSpec == Spec /\ \A w \in Workers : WF_vars(Serves(w))

SessionTxOK(t) ==
  \/ t.op = "answer" /\ t.browser \in Browsers /\ t.token \in Tokens \cup {Null}
  \/ t.op = "signing in" /\ t.browser \in Browsers /\ t.userId \in Users
  \/ /\ t.op \in {"signed in", "accepted"}
     /\ t.browser \in Browsers /\ t.userId \in Users /\ t.token \in Tokens
  \/ t.op = "refused" /\ t.token \in Tokens
  \/ t.op = "rotating" /\ t.browser \in Browsers /\ t.token \in Tokens /\ t.now \in 0..now
  \/ t.op \in {"logging out", "logged out"} /\ t.browser \in Browsers /\ t.line \subseteq Sessions
  \/ /\ t.op \in {"changing", "changed"}
     /\ t.userId \in Users /\ t.token \in Tokens /\ t.password \in Passwords
     /\ t.revoked \subseteq Sessions
  \/ /\ t.op \in {"resetting", "revoking", "verifying", "auditing"}
     /\ t.userId \in Users /\ t.line \subseteq Sessions

TypeOK ==
  /\ user \in [Users -> UserRow]
  /\ session \in [Sessions -> SessionRow \cup {Null}]
  /\ cookie \in [Browsers -> Tokens \cup {Null}]
  /\ opened \subseteq Sessions /\ drawn \subseteq Tokens
  /\ reset \subseteq [userId : Users, until : Nat]
  /\ subject \in [Workers -> Users \cup {Null}]
  /\ now \in 0..MaxNow
  /\ clients \in DOMAIN Clients
  /\ \A w \in Workers : ~Idle(w) => SessionTxOK(tx[w]) \/ UserTxOK(tx[w])

-----------------------------------------------------------------------------
(***************************************************************************)
(* A session is a line of RefreshTokens: refresh rotates the token of one  *)
(* session, once, and moves neither its owner nor its end, whatever is in  *)
(* flight and whatever is lost (SEG-06 and SEG-07).                        *)
(***************************************************************************)
Chain == INSTANCE RefreshTokens
           WITH Lines <- Sessions, Instants <- 0..(MaxNow + SessionTTL), line <- session

SessionsAreLines == Chain!Spec

(***************************************************************************)
(* The tables of modules/auth, and that no two sessions answer to the same *)
(* token: the column is unique, and a refresh writes it by id.             *)
(***************************************************************************)
SessionTables == TypeOK /\ Chain!TokensAreOfOneLine

(***************************************************************************)
(* The event of a reset or a verification names the user whose token it    *)
(* was: requests do not see each other's marker (auth.audit.ts:19-21).     *)
(***************************************************************************)
AuditNamesTheSubject ==
  \A w \in Workers : ~Idle(w) /\ tx[w].op = "auditing" => subject[w] = tx[w].userId

(***************************************************************************)
(* When a reset gets to its event, every session the user had when the     *)
(* password changed is gone, also one a refresh was rotating: an event     *)
(* that cannot be written leaves none alive (auth.service.ts:453-457).     *)
(***************************************************************************)
ResetClosesSessions ==
  \A w \in Workers : ~Idle(w) /\ tx[w].op = "auditing" =>
    \A s \in tx[w].line : session[s] = Null

(***************************************************************************)
(* No cookie works for an account that is not active: deactivation ends    *)
(* its sessions, and the one a login opens before it reads the account is  *)
(* not handed out, lost requests included.  One request at a time.         *)
(***************************************************************************)
InactiveHoldNoCookie ==
  Alone => \A b \in Browsers : \A s \in SessionWith(cookie[b]) : user[session[s].userId].isActive

(***************************************************************************)
(* A logout that succeeds has revoked the session the cookie stood for     *)
(* (adr-0009-refresh-token-cookie-httponly.md:123).  One request at a      *)
(* time: a refresh in flight may have replaced the token.                  *)
(***************************************************************************)
LogoutRevokes ==
  Alone => \A w \in Workers : ~Idle(w) /\ tx[w].op = "logged out" =>
    \A s \in tx[w].line : session[s] = Null

(***************************************************************************)
(* A change of password keeps the session it was asked with                *)
(* (auth.service.ts:298-302).  One request at a time, again.               *)
(***************************************************************************)
ChangeKeepsTheSession ==
  [][Alone => \A w \in Workers : ~Idle(w) /\ tx[w].op = "changed" /\ tx'[w] = Null =>
       \A s \in tx[w].line : session[s] # Null => session'[s] # Null]_vars

(***************************************************************************)
(* After a rotation two tabs collided on, the cookie they share works      *)
(* again by itself (auth.cookie.ts:14-17), provided answers arrive.        *)
(***************************************************************************)
CollisionsHeal ==
  \A b \in Browsers :
    (cookie[b] # Null /\ SessionWith(cookie[b]) = {}) ~> SessionWith(cookie[b]) # {}
=============================================================================
