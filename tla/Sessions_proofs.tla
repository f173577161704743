-------------------------- MODULE Sessions_proofs --------------------------
(***************************************************************************)
(* Sessions, for every set of users, browsers, tokens, requests and        *)
(* workers, whatever is in flight and whatever is lost.                    *)
(*                                                                         *)
(* Every step is first shown to be a step of RefreshTokens.  What the      *)
(* abstract lines of tokens keep is then a fact about all the handlers at  *)
(* once, and the invariants of the requests in flight rest on it.          *)
(***************************************************************************)
EXTENDS Sessions, FiniteSetTheorems, TLAPS

-----------------------------------------------------------------------------
(* The lines of tokens. *)

\* The sessions there are were opened, and their tokens drawn and different.
SessionLines ==
  /\ session \in [Sessions -> SessionRow \cup {Null}]
  /\ opened \subseteq Sessions /\ drawn \subseteq Tokens
  /\ \A s \in Sessions : session[s] # Null => s \in opened /\ session[s].token \in drawn
  /\ Chain!TokensAreOfOneLine

ChainStep == [Chain!Next]_<<session, opened, drawn>>

\* What a step of the lines leaves as it was: a session that ended stays
\* ended, one that goes on keeps its owner, and a token that works was the
\* token of the same session before, or is new.
LinesMove ==
  /\ opened \subseteq opened' /\ drawn \subseteq drawn'
  /\ \A s \in opened : session[s] = Null => session'[s] = Null
  /\ \A s \in Sessions : session[s] # Null /\ session'[s] # Null =>
       session'[s].userId = session[s].userId
  /\ \A s \in Sessions : session'[s] # Null /\ session'[s].token \in drawn =>
       session[s] # Null /\ session'[s].token = session[s].token

LEMMA ChainKeepsLines ==
  ASSUME SessionLines, ChainStep
  PROVE  SessionLines' /\ LinesMove
<1> USE RegistryAssumption
<1>0. 0 .. (MaxNow + SessionTTL) \subseteq Nat BY SessionsAssumption
<1>1. ASSUME NEW l \in Sessions, NEW new \in Chain!Line, Chain!Open(l, new)
      PROVE  SessionLines' /\ LinesMove
  <2>1. /\ session' = [session EXCEPT ![l] = new] /\ l \notin opened
        /\ opened' = opened \cup {l} /\ drawn' = drawn \cup {new.token}
        /\ new.token \notin drawn
    BY <1>1 DEF Chain!Open
  <2>2. new \in SessionRow BY <1>0 DEF Chain!Line, SessionRow
  <2>3. /\ session'[l] = new
        /\ \A s \in Sessions : s # l => session'[s] = session[s]
        /\ session' \in [Sessions -> SessionRow \cup {Null}]
    BY <2>1, <2>2 DEF SessionLines
  <2>4. new.token \in Tokens BY DEF Chain!Line
  <2>5. Chain!TokensAreOfOneLine'
    BY <2>1, <2>3 DEF SessionLines, Chain!TokensAreOfOneLine
  <2> QED BY <2>1, <2>3, <2>4, <2>5 DEF SessionLines, LinesMove
<1>2. ASSUME NEW l \in Sessions, NEW token \in Tokens, Chain!Use(l, token)
      PROVE  SessionLines' /\ LinesMove
  <2>1. /\ session' = [session EXCEPT ![l].token = token] /\ session[l] # Null
        /\ token \notin drawn /\ drawn' = drawn \cup {token} /\ opened' = opened
    BY <1>2 DEF Chain!Use
  <2>2. session[l] \in SessionRow BY <2>1 DEF SessionLines
  <2>3. /\ session'[l] \in SessionRow
        /\ session'[l].token = token /\ session'[l].userId = session[l].userId
        /\ \A s \in Sessions : s # l => session'[s] = session[s]
        /\ session' \in [Sessions -> SessionRow \cup {Null}]
    BY <2>1, <2>2 DEF SessionLines, SessionRow
  <2>4. Chain!TokensAreOfOneLine'
    BY <2>1, <2>3 DEF SessionLines, Chain!TokensAreOfOneLine
  <2> QED BY <2>1, <2>3, <2>4 DEF SessionLines, LinesMove
<1>3. ASSUME NEW closed \in SUBSET Sessions, Chain!Close(closed)
      PROVE  SessionLines' /\ LinesMove
  <2>1. /\ session' = [s \in Sessions |-> IF s \in closed THEN Null ELSE session[s]]
        /\ UNCHANGED <<opened, drawn>>
    BY <1>3 DEF Chain!Close
  <2> QED BY <2>1 DEF SessionLines, LinesMove, Chain!TokensAreOfOneLine
<1>4. ASSUME UNCHANGED <<session, opened, drawn>>
      PROVE  SessionLines' /\ LinesMove
  BY <1>4 DEF SessionLines, LinesMove, Chain!TokensAreOfOneLine
<1> QED BY <1>1, <1>2, <1>3, <1>4 DEF ChainStep, Chain!Next

\* Deleting sessions closes lines.
LEMMA WithoutCloses ==
  ASSUME NEW closed \in SUBSET Sessions, session' = Without(closed), UNCHANGED <<opened, drawn>>
  PROVE  ChainStep
BY DEF ChainStep, Chain!Next, Chain!Close, Without

\* A session is a line that opens.
LEMMA CreateOpens ==
  ASSUME NEW s \in Sessions, NEW token \in Tokens, NEW u \in Users, now \in 0 .. MaxNow,
         s \notin opened, token \notin drawn,
         session' = [session EXCEPT ![s] =
                       [userId |-> u, token |-> token, expiresAt |-> now + SessionTTL]],
         opened' = opened \cup {s}, drawn' = drawn \cup {token}
  PROVE  ChainStep
<1> DEFINE new == [userId |-> u, token |-> token, expiresAt |-> now + SessionTTL]
<1>1. now + SessionTTL \in 0 .. (MaxNow + SessionTTL) BY SessionsAssumption
<1>2. new \in Chain!Line BY <1>1 DEF Chain!Line
<1>3. Chain!Open(s, new) BY DEF Chain!Open
<1> QED BY <1>2, <1>3 DEF ChainStep, Chain!Next

\* A refresh uses one line, or none: no two answer to the same token.
LEMMA RotationUses ==
  ASSUME SessionLines, NEW token \in Tokens, NEW old, NEW at, token \notin drawn,
         session' = [s \in Sessions |->
                       IF s \in Rotated(old, at) THEN [session[s] EXCEPT !.token = token]
                       ELSE session[s]],
         drawn' = IF Rotated(old, at) = {} THEN drawn ELSE drawn \cup {token},
         UNCHANGED opened
  PROVE  ChainStep
<1>1. CASE Rotated(old, at) = {}
  <2>1. session' = session BY <1>1 DEF SessionLines
  <2> QED BY <1>1, <2>1 DEF ChainStep
<1>2. CASE Rotated(old, at) # {}
  <2>1. PICK l \in Sessions : l \in Rotated(old, at) BY <1>2 DEF Rotated, SessionWith
  <2>2. Rotated(old, at) = {l} /\ session[l] # Null
    BY <2>1 DEF Rotated, SessionWith, SessionLines, Chain!TokensAreOfOneLine
  <2>3. session' = [session EXCEPT ![l].token = token] BY <2>2 DEF SessionLines
  <2>4. Chain!Use(l, token) BY <1>2, <2>2, <2>3 DEF Chain!Use
  <2> QED BY <2>4 DEF ChainStep, Chain!Next
<1> QED BY <1>1, <1>2

-----------------------------------------------------------------------------
(* What the requests in flight hold. *)

Told ==
  {changes \in UNION {[D -> UNION {UserColumns[f] : f \in DOMAIN UserColumns}] :
                        D \in SUBSET DOMAIN UserColumns} : Tells(changes, UserColumns)}

Message == [userId : Users, until : Nat]

\* What a request holds between two of its steps.
Handled ==
       [op : {"answer"}, browser : Browsers, token : Tokens \cup {Null}]
  \cup [op : {"signing in"}, browser : Browsers, userId : Users]
  \cup [op : {"signed in", "accepted"}, browser : Browsers, userId : Users, token : Tokens]
  \cup [op : {"refused"}, token : Tokens]
  \cup [op : {"rotating"}, browser : Browsers, token : Tokens, now : Nat]
  \cup [op : {"logging out"}, browser : Browsers, token : Tokens, line : SUBSET Sessions]
  \cup [op : {"logged out"}, browser : Browsers, line : SUBSET Sessions]
  \cup [op : {"changing", "changed"}, userId : Users, token : Tokens, password : Passwords,
        line : SUBSET Sessions, revoked : SUBSET Sessions]
  \cup [op : {"resetting", "revoking", "auditing"}, userId : Users, message : Message,
        password : Passwords, line : SUBSET Sessions]
  \cup [op : {"verifying", "auditing"}, userId : Users, line : SUBSET Sessions]
  \cup [op : {"updateAdminUser", "updateAdminUser revoked"}, id : Users, data : AdminData,
        changes : Told, revoked : SUBSET Sessions]

\* What the tables, or the marker, still are for a request in flight.
Held(w) ==
  LET t == tx[w]
  IN  t # Null =>
        /\ t.op \in {"answer", "signed in", "accepted", "refused", "rotating",
                     "logging out", "changing", "changed"} => t.token \in drawn \cup {Null}
        /\ t.op = "rotating" => t.now \in 0 .. now
        /\ t.op \in {"logging out", "logged out", "changing", "changed"} => t.line \subseteq opened
        /\ t.op = "verifying" => t.line = {}
        /\ t.op \in {"revoking", "auditing"} => subject[w] = t.userId
        /\ t.op = "revoking" => \A s \in t.line :
             s \in opened /\ (session[s] = Null \/ session[s].userId = t.userId)
        /\ t.op = "auditing" => \A s \in t.line : s \in opened /\ session[s] = Null

Rest ==
  /\ user \in [Users -> UserRow]
  /\ career \in [Careers -> CareerRow \cup {Null}]
  /\ cookie \in [Browsers -> drawn \cup {Null}]
  /\ reset \subseteq Message
  /\ subject \in [Workers -> Users \cup {Null}]
  /\ now \in 0 .. MaxNow
  /\ clients \in DOMAIN Clients

Inv ==
  /\ SessionLines
  /\ Rest
  /\ tx \in [Workers -> Handled \cup {Null}]
  /\ \A w \in Workers : Held(w)

\* A request has the fields of its step.
LEMMA HandledShapes ==
  ASSUME NEW t \in Handled
  PROVE  /\ t.op \in {"answer", "signing in", "signed in", "accepted", "rotating",
                      "logging out", "logged out"} => t.browser \in Browsers
         /\ t.op = "answer" => t.token \in Tokens \cup {Null}
         /\ t.op \in {"signed in", "accepted", "refused", "rotating", "logging out",
                      "changing", "changed"} => t.token \in Tokens
         /\ t.op \in {"signing in", "signed in", "accepted", "changing", "changed", "resetting",
                      "revoking", "verifying", "auditing"} => t.userId \in Users
         /\ t.op \in {"logging out", "logged out", "changing", "changed", "resetting",
                      "revoking", "verifying", "auditing"} => t.line \subseteq Sessions
         /\ t.op \in {"changing", "changed", "resetting"} => t.password \in Passwords
         /\ t.op \in {"changing", "changed", "updateAdminUser", "updateAdminUser revoked"} =>
              t.revoked \subseteq Sessions
         /\ t.op \in {"updateAdminUser", "updateAdminUser revoked"} =>
              t.id \in Users /\ t.data \in AdminData /\ t.changes \in Told
         /\ t.op \in {"answer", "signing in", "signed in", "accepted", "refused", "rotating",
                      "logging out", "logged out", "changing", "changed", "resetting",
                      "revoking", "verifying", "auditing", "updateAdminUser",
                      "updateAdminUser revoked"}
BY DEF Handled

LEMMA InvTypeOK == ASSUME Inv PROVE TypeOK
<1>1. ASSUME NEW w \in Workers, ~Idle(w) PROVE SessionTxOK(tx[w]) \/ UserTxOK(tx[w])
  <2>1. tx[w] \in Handled /\ Held(w) /\ tx[w] # Null BY <1>1 DEF Inv, Idle
  <2>2. tx[w].op = "rotating" => tx[w].now \in 0 .. now BY <2>1 DEF Held
  <2>3. tx[w].changes \in Told => Tells(tx[w].changes, UserColumns) BY DEF Told
  <2> QED BY <2>1, <2>2, <2>3, HandledShapes DEF SessionTxOK, UserTxOK
<1>2. cookie \in [Browsers -> Tokens \cup {Null}] BY DEF Inv, Rest, SessionLines
<1> QED BY <1>1, <1>2 DEF Inv, Rest, SessionLines, TypeOK, Message

\* What clients send is typed.
LEMMA SentTyped ==
  ASSUME clients \in DOMAIN Clients
  PROVE  /\ Sent.adminInputs \subseteq AdminInput /\ Sent.inFlight \in Nat
         /\ Sent.seeded \in [Users -> UserRow] /\ Sent.until \in 0 .. MaxNow
BY SessionsAssumption DEF Sent

\* The requests that take no part in a step keep what they hold.
LEMMA OthersKeepHeld ==
  ASSUME Inv, LinesMove, NEW v \in Workers, tx'[v] = tx[v], subject'[v] = subject[v],
         now' \in Nat, now <= now'
  PROVE  Held(v)'
<1> SUFFICES ASSUME tx[v] # Null PROVE Held(v)'
  BY DEF Held
<1>1. tx[v] \in Handled /\ Held(v) BY DEF Inv
<1>2. now \in Nat /\ opened \subseteq Sessions BY SessionsAssumption DEF Inv, Rest, SessionLines
<1>3. tx[v].op = "rotating" => tx[v].now \in 0 .. now' BY <1>1, <1>2 DEF Held
<1>4. tx[v].op = "revoking" => \A s \in tx[v].line :
        s \in opened' /\ (session'[s] = Null \/ session'[s].userId = tx[v].userId)
  BY <1>1, <1>2 DEF Held, LinesMove
<1>5. tx[v].op = "auditing" => \A s \in tx[v].line : s \in opened' /\ session'[s] = Null
  BY <1>1 DEF Held, LinesMove
<1> QED BY <1>1, <1>3, <1>4, <1>5 DEF Held, LinesMove

\* A step of one request.
LEMMA RequestStep ==
  ASSUME Inv, ChainStep, NEW w \in Workers, NEW t \in Handled \cup {Null},
         tx' = [tx EXCEPT ![w] = t], Rest', UNCHANGED now,
         \A v \in Workers : v # w => subject'[v] = subject[v],
         Held(w)'
  PROVE  Inv'
<1>1. SessionLines' /\ LinesMove BY ChainKeepsLines DEF Inv
<1>2. tx' \in [Workers -> Handled \cup {Null}] BY DEF Inv
<1>3. now \in Nat BY SessionsAssumption DEF Inv, Rest
<1>4. ASSUME NEW v \in Workers, v # w PROVE Held(v)'
  <2>1. tx'[v] = tx[v] BY <1>4 DEF Inv
  <2> QED BY <1>1, <1>3, <1>4, <2>1, OthersKeepHeld
<1> QED BY <1>1, <1>2, <1>4 DEF Inv

\* A step of one request that leaves the tables and the cookies alone.
LEMMA QuietStep ==
  ASSUME Inv, NEW w \in Workers, NEW t \in Handled \cup {Null}, tx' = [tx EXCEPT ![w] = t],
         UNCHANGED <<career, user, session, clients, cookie, opened, drawn, reset, now>>,
         subject' \in [Workers -> Users \cup {Null}],
         \A v \in Workers : v # w => subject'[v] = subject[v],
         Held(w)'
  PROVE  ChainStep /\ Inv'
<1>1. ChainStep BY DEF ChainStep
<1>2. Rest' BY DEF Inv, Rest
<1> QED BY <1>1, <1>2, RequestStep

\* The steps that rewrite one field of what a request holds.
LEMMA HandledMoves ==
  ASSUME NEW t \in Handled
  PROVE  /\ t.op = "signed in" => [t EXCEPT !.op = "accepted"] \in Handled
         /\ \A others \in SUBSET Sessions : t.op = "changing" =>
              [t EXCEPT !.op = "changed", !.revoked = others] \in Handled
         /\ \A line \in SUBSET Sessions : t.op = "resetting" =>
              [t EXCEPT !.op = "revoking", !.line = line] \in Handled
         /\ t.op \in {"revoking", "verifying"} => [t EXCEPT !.op = "auditing"] \in Handled
         /\ \A others \in SUBSET Sessions : t.op = "updateAdminUser" =>
              [t EXCEPT !.op = "updateAdminUser revoked", !.revoked = others] \in Handled
BY DEF Handled

LEMMA GoingOn ==
  ASSUME Inv, NEW w \in Workers, ~Idle(w)
  PROVE  /\ tx[w] \in Handled /\ tx[w] # Null /\ Held(w)
         /\ tx[w].op # "answer" => Null \notin Tokens
BY SessionsAssumption DEF Inv, Idle

-----------------------------------------------------------------------------
(* Sign-in and refresh. *)

LEMMA ReceiveKeeps ==
  ASSUME Inv, NEW w \in Workers, Receive(w)
  PROVE  ChainStep /\ Inv'
<1>1. tx[w] \in Handled /\ Held(w) /\ tx[w] # Null /\ tx[w].op = "answer"
  BY GoingOn DEF Receive, Continues
<1>2. tx[w].browser \in Browsers /\ tx[w].token \in drawn \cup {Null}
  BY <1>1, HandledShapes DEF Held
<1>3. cookie' \in [Browsers -> drawn' \cup {Null}] BY <1>2 DEF Receive, Inv, Rest
<1>4. ChainStep BY DEF ChainStep, Receive, registry
<1>5. Rest' BY <1>3 DEF Inv, Rest, Receive, registry
<1>6. tx' = [tx EXCEPT ![w] = Null] /\ UNCHANGED <<now, subject>> BY DEF Receive, Goes
<1>7. Held(w)' BY <1>6 DEF Held, Inv
<1> QED BY <1>4, <1>5, <1>6, <1>7, RequestStep

LEMMA ClockTyped == ASSUME Inv PROVE now \in Nat /\ now \in 0 .. now
<1>1. now \in Nat BY SessionsAssumption DEF Inv, Rest
<1> QED BY <1>1

\* A request arrives with what it holds from then on.
LEMMA ArrivalKeeps ==
  ASSUME Inv, NEW w \in Workers, NEW t \in Handled, tx' = [tx EXCEPT ![w] = t],
         UNCHANGED <<registry, auth>>,
         t.op \in {"answer", "refused", "rotating", "logging out", "changing"} =>
           t.token \in drawn \cup {Null},
         t.op = "rotating" => t.now = now,
         t.op = "verifying" => t.line = {},
         t.op \in {"logging out", "changing"} => t.line \subseteq opened,
         t.op \notin {"signed in", "accepted", "logged out", "changed", "revoking", "auditing"}
  PROVE  ChainStep /\ Inv'
<1>1. tx'[w] = t BY DEF Inv
<1>2. UNCHANGED <<session, drawn, opened, now, subject>> BY DEF auth, registry
<1>3. Held(w)'
  <2>1. t.op \notin {"revoking", "auditing"} OBVIOUS
  <2>2. t.op = "rotating" => t.now \in 0 .. now' BY <1>2, ClockTyped
  <2>3. t.op \in {"answer", "signed in", "accepted", "refused", "rotating",
                  "logging out", "changing", "changed"} => t.token \in drawn' \cup {Null}
    BY <1>2
  <2>4. t.op \in {"logging out", "logged out", "changing", "changed"} => t.line \subseteq opened'
    BY <1>2
  <2> QED BY <1>1, <2>1, <2>2, <2>3, <2>4 DEF Held
<1> QED BY <1>3, QuietStep DEF auth, registry, Inv, Rest

\* The session a cookie stands for was opened.
LEMMA CookieStandsFor ==
  ASSUME Inv, NEW token
  PROVE  /\ SessionWith(token) \subseteq opened /\ SessionWith(token) \subseteq Sessions
         /\ \A s \in SessionWith(token) : token \in drawn /\ token \in Tokens
                                           /\ session[s].userId \in Users
BY DEF Inv, SessionLines, SessionWith, SessionRow

LEMMA SignInEmailKeeps ==
  ASSUME Inv, NEW w \in Workers, NEW b \in Browsers, NEW u \in Users, NEW password,
         SignInEmail(w, b, u, password)
  PROVE  ChainStep /\ Inv'
<1> DEFINE t == [op |-> "signing in", browser |-> b, userId |-> u]
<1>1. t \in Handled BY DEF Handled
<1>2. tx' = [tx EXCEPT ![w] = t] /\ UNCHANGED <<registry, auth>> BY DEF SignInEmail, Starts
<1> QED BY <1>1, <1>2, ArrivalKeeps

LEMMA CreateSessionKeeps ==
  ASSUME Inv, NEW w \in Workers, NEW s \in Sessions, NEW token \in Tokens,
         CreateSession(w, s, token)
  PROVE  ChainStep /\ Inv'
<1> DEFINE t == [op |-> "signed in", browser |-> tx[w].browser,
                 userId |-> tx[w].userId, token |-> token]
<1>1. tx[w] \in Handled /\ tx[w].op = "signing in" BY GoingOn DEF CreateSession, Continues
<1>2. tx[w].browser \in Browsers /\ tx[w].userId \in Users BY <1>1, HandledShapes
<1>3. t \in Handled BY <1>2 DEF Handled
<1>4. ChainStep BY <1>2, CreateOpens DEF CreateSession, Inv, Rest
<1>5. Rest' BY DEF CreateSession, Inv, Rest
<1>6. tx' = [tx EXCEPT ![w] = t] /\ drawn' = drawn \cup {token} /\ UNCHANGED <<now, subject>>
  BY DEF CreateSession, Goes
<1>7. Held(w)' BY <1>6 DEF Held, Inv
<1> HIDE DEF t
<1> QED BY <1>3, <1>4, <1>5, <1>6, <1>7, RequestStep

LEMMA LoginUserKeeps ==
  ASSUME Inv, NEW w \in Workers, LoginUser(w)
  PROVE  ChainStep /\ Inv'
<1> DEFINE t == IF user[tx[w].userId].isActive THEN [tx[w] EXCEPT !.op = "accepted"]
                ELSE [op |-> "refused", token |-> tx[w].token]
<1>1. tx[w] \in Handled /\ tx[w].op = "signed in" /\ Held(w) /\ tx[w] # Null
  BY GoingOn DEF LoginUser, Continues
<1>2. tx[w].token \in Tokens /\ tx[w].token \in drawn \cup {Null} BY <1>1, HandledShapes DEF Held
<1>3. [op |-> "refused", token |-> tx[w].token] \in Handled BY <1>2 DEF Handled
<1>4. t \in Handled BY <1>1, <1>3, HandledMoves
<1>5. t.op \in {"accepted", "refused"} /\ t.token = tx[w].token BY <1>1 DEF Handled
<1>6. tx' = [tx EXCEPT ![w] = t] /\ UNCHANGED <<registry, auth>> BY DEF LoginUser, Goes
<1> HIDE DEF t
<1>7. Held(w)' BY <1>2, <1>5, <1>6 DEF Held, Inv, auth
<1> QED BY <1>4, <1>6, <1>7, QuietStep DEF registry, auth, Inv, Rest

LEMMA FinishLoginKeeps ==
  ASSUME Inv, NEW w \in Workers, FinishLogin(w)
  PROVE  ChainStep /\ Inv'
<1> DEFINE t == IF SessionWith(tx[w].token) # {} THEN Answer(tx[w].browser, tx[w].token) ELSE Null
<1>1. tx[w] \in Handled /\ tx[w].op = "accepted" /\ Held(w) /\ tx[w] # Null
  BY GoingOn DEF FinishLogin, Continues
<1>2. /\ tx[w].token \in Tokens /\ tx[w].token \in drawn \cup {Null}
      /\ tx[w].browser \in Browsers
  BY <1>1, HandledShapes DEF Held
<1>3. t \in Handled \cup {Null} BY <1>2 DEF Handled, Answer
<1>4. t # Null => t.op = "answer" /\ t.token \in drawn \cup {Null} BY <1>2 DEF Answer
<1>5. tx' = [tx EXCEPT ![w] = t] /\ UNCHANGED <<registry, auth>> BY DEF FinishLogin, Goes
<1> HIDE DEF t
<1>6. Held(w)' BY <1>4, <1>5 DEF Held, Inv, auth
<1> QED BY <1>3, <1>5, <1>6, QuietStep DEF registry, auth, Inv, Rest

LEMMA RefuseKeeps ==
  ASSUME Inv, NEW w \in Workers, Refuse(w)
  PROVE  ChainStep /\ Inv'
<1>1. SessionWith(tx[w].token) \subseteq Sessions BY DEF SessionWith
<1>2. ChainStep BY <1>1, WithoutCloses DEF Refuse, auth
<1>3. tx' = [tx EXCEPT ![w] = Null] /\ UNCHANGED auth BY DEF Refuse, Goes
<1>4. Rest' BY DEF Refuse, auth, Inv, Rest
<1>5. Held(w)' BY <1>3 DEF Held, Inv
<1> QED BY <1>2, <1>3, <1>4, <1>5, RequestStep DEF auth

LEMMA BeginRefreshKeeps ==
  ASSUME Inv, NEW w \in Workers, NEW b \in Browsers, BeginRefresh(w, b)
  PROVE  ChainStep /\ Inv'
<1>1. PICK s \in SessionWith(cookie[b]) :
        /\ Starts(w, "refresh",
             IF user[session[s].userId].isActive
             THEN [op |-> "rotating", browser |-> b, token |-> cookie[b], now |-> now]
             ELSE [op |-> "refused", token |-> cookie[b]])
        /\ UNCHANGED <<registry, auth>>
  BY DEF BeginRefresh
<1> DEFINE t == IF user[session[s].userId].isActive
                THEN [op |-> "rotating", browser |-> b, token |-> cookie[b], now |-> now]
                ELSE [op |-> "refused", token |-> cookie[b]]
<1>2. cookie[b] \in Tokens /\ cookie[b] \in drawn BY CookieStandsFor
<1>3. now \in Nat BY ClockTyped
<1>4. t \in Handled BY <1>2, <1>3 DEF Handled
<1>5. tx' = [tx EXCEPT ![w] = t] BY <1>1 DEF Starts
<1>6. t.token = cookie[b] /\ t.op \in {"rotating", "refused"} /\ (t.op = "rotating" => t.now = now)
  OBVIOUS
<1> HIDE DEF t
<1> QED BY <1>1, <1>2, <1>4, <1>5, <1>6, ArrivalKeeps

LEMMA RotateTokenKeeps ==
  ASSUME Inv, NEW w \in Workers, NEW token \in Tokens, RotateToken(w, token)
  PROVE  ChainStep /\ Inv'
<1> DEFINE rotated == Rotated(tx[w].token, tx[w].now)
           t == RefreshAnswer(rotated, tx[w].browser, token)
<1>1. tx[w] \in Handled /\ tx[w].op = "rotating" BY GoingOn DEF RotateToken, Continues
<1>2. tx[w].browser \in Browsers BY <1>1, HandledShapes
<1>3. t \in Handled \cup {Null} BY <1>2 DEF Handled, RefreshAnswer, Answer
<1>4. ChainStep BY RotationUses DEF RotateToken, Inv
<1>5. drawn \subseteq drawn' BY DEF RotateToken
<1>6. Rest' BY <1>5 DEF RotateToken, Inv, Rest
<1>7. t # Null => t.op = "answer" /\ t.token \in drawn'
  BY DEF RotateToken, RefreshAnswer, Answer
<1>8. tx' = [tx EXCEPT ![w] = t] /\ UNCHANGED <<now, subject>> BY DEF RotateToken, Goes
<1> HIDE DEF t
<1>9. Held(w)' BY <1>7, <1>8 DEF Held, Inv
<1> QED BY <1>3, <1>4, <1>6, <1>8, <1>9, RequestStep

-----------------------------------------------------------------------------
(* Sign-out and change of password. *)

LEMMA BeginLogoutKeeps ==
  ASSUME Inv, NEW w \in Workers, NEW b \in Browsers, BeginLogout(w, b)
  PROVE  ChainStep /\ Inv'
<1> DEFINE t == IF cookie[b] = Null THEN Answer(b, Null)
                ELSE [op |-> "logging out", browser |-> b, token |-> cookie[b],
                      line |-> SessionWith(cookie[b])]
<1>1. cookie[b] \in drawn \cup {Null} /\ drawn \subseteq Tokens BY DEF Inv, Rest, SessionLines
<1>2. SessionWith(cookie[b]) \subseteq opened /\ SessionWith(cookie[b]) \subseteq Sessions
  BY CookieStandsFor
<1>3. t \in Handled BY <1>1, <1>2 DEF Handled, Answer
<1>4. tx' = [tx EXCEPT ![w] = t] /\ UNCHANGED <<registry, auth>> BY DEF BeginLogout, Starts
<1>5. /\ t.token \in drawn \cup {Null} /\ t.op \in {"answer", "logging out"}
      /\ t.op = "logging out" => t.line \subseteq opened
  BY <1>1, <1>2 DEF Answer
<1> HIDE DEF t
<1> QED BY <1>3, <1>4, <1>5, ArrivalKeeps

LEMMA RevokeSessionKeeps ==
  ASSUME Inv, NEW w \in Workers, RevokeSession(w)
  PROVE  ChainStep /\ Inv'
<1> DEFINE t == [op |-> "logged out", browser |-> tx[w].browser, line |-> tx[w].line]
<1>1. tx[w] \in Handled /\ tx[w].op = "logging out" /\ Held(w) /\ tx[w] # Null
  BY GoingOn DEF RevokeSession, Continues
<1>2. /\ tx[w].browser \in Browsers /\ tx[w].line \subseteq Sessions
      /\ tx[w].line \subseteq opened
  BY <1>1, HandledShapes DEF Held
<1>3. t \in Handled BY <1>2 DEF Handled
<1>4. SessionWith(tx[w].token) \subseteq Sessions BY DEF SessionWith
<1>5. ChainStep BY <1>4, WithoutCloses DEF RevokeSession, auth
<1>6. tx' = [tx EXCEPT ![w] = t] /\ UNCHANGED auth BY DEF RevokeSession, Goes
<1>7. Rest' BY DEF RevokeSession, auth, Inv, Rest
<1>8. Held(w)' BY <1>2, <1>6 DEF Held, Inv, auth
<1> HIDE DEF t
<1> QED BY <1>3, <1>5, <1>6, <1>7, <1>8, RequestStep DEF auth

LEMMA AnswerLogoutKeeps ==
  ASSUME Inv, NEW w \in Workers, AnswerLogout(w)
  PROVE  ChainStep /\ Inv'
<1> DEFINE t == Answer(tx[w].browser, Null)
<1>1. tx[w] \in Handled /\ tx[w].op = "logged out" BY GoingOn DEF AnswerLogout, Continues
<1>2. t \in Handled BY <1>1, HandledShapes DEF Handled, Answer
<1>3. tx' = [tx EXCEPT ![w] = t] /\ UNCHANGED <<registry, auth>> BY DEF AnswerLogout, Goes
<1>4. t.token = Null /\ t.op = "answer" BY DEF Answer
<1> HIDE DEF t
<1> QED BY <1>2, <1>3, <1>4, ArrivalKeeps

LEMMA BeginChangePasswordKeeps ==
  ASSUME Inv, NEW w \in Workers, NEW b \in Browsers, NEW u \in Users, NEW current,
         NEW new \in Passwords, BeginChangePassword(w, b, u, current, new)
  PROVE  ChainStep /\ Inv'
<1> DEFINE t == [op |-> "changing", userId |-> u, token |-> cookie[b], password |-> new,
                 line |-> SessionWith(cookie[b]), revoked |-> {}]
<1>1. SessionWith(cookie[b]) # {} BY DEF BeginChangePassword
<1>2. /\ cookie[b] \in drawn /\ cookie[b] \in Tokens
      /\ SessionWith(cookie[b]) \subseteq opened /\ SessionWith(cookie[b]) \subseteq Sessions
  BY <1>1, CookieStandsFor
<1>3. t \in Handled BY <1>2 DEF Handled
<1>4. tx' = [tx EXCEPT ![w] = t] /\ UNCHANGED <<registry, auth>>
  BY DEF BeginChangePassword, Starts
<1>5. t.op = "changing" /\ t.token \in drawn /\ t.line \subseteq opened BY <1>2
<1> HIDE DEF t
<1> QED BY <1>3, <1>4, <1>5, ArrivalKeeps

LEMMA RevokeOtherSessionsKeeps ==
  ASSUME Inv, NEW w \in Workers, RevokeOtherSessions(w)
  PROVE  ChainStep /\ Inv'
<1> DEFINE others == OtherSessions(tx[w].userId, tx[w].token)
           t == [tx[w] EXCEPT !.op = "changed", !.revoked = others]
<1>1. tx[w] \in Handled /\ tx[w].op = "changing" /\ Held(w) /\ tx[w] # Null
  BY GoingOn DEF RevokeOtherSessions, Continues
<1>2. others \in SUBSET Sessions BY DEF OtherSessions, SessionsOf
<1>3. t \in Handled BY <1>1, <1>2, HandledMoves
<1>4. t.op = "changed" /\ t.token = tx[w].token /\ t.line = tx[w].line BY <1>1 DEF Handled
<1>5. tx' = [tx EXCEPT ![w] = t] /\ UNCHANGED <<registry, auth>> BY <1>1 DEF RevokeOtherSessions
<1>6. tx[w].token \in drawn \cup {Null} /\ tx[w].line \subseteq opened BY <1>1 DEF Held
<1> HIDE DEF t, others
<1>7. Held(w)' BY <1>4, <1>5, <1>6 DEF Held, Inv, auth
<1> QED BY <1>3, <1>5, <1>7, QuietStep DEF registry, auth, Inv, Rest

LEMMA CommitChangePasswordKeeps ==
  ASSUME Inv, NEW w \in Workers, CommitChangePassword(w)
  PROVE  ChainStep /\ Inv'
<1>1. tx[w] \in Handled /\ tx[w].op = "changed"
  BY GoingOn DEF CommitChangePassword, Commits
<1>2. /\ tx[w].userId \in Users /\ tx[w].password \in Passwords
      /\ tx[w].revoked \in SUBSET Sessions
  BY <1>1, HandledShapes
<1>3. ChainStep BY <1>2, WithoutCloses DEF CommitChangePassword, auth
<1>4. user' \in [Users -> UserRow]
  <2>1. user[tx[w].userId] \in UserRow BY <1>2 DEF Inv, Rest
  <2>2. [user[tx[w].userId] EXCEPT !.password = tx[w].password] \in UserRow
    BY <1>2, <2>1 DEF UserRow
  <2> QED BY <2>2 DEF CommitChangePassword, Inv, Rest
<1>5. tx' = [tx EXCEPT ![w] = Null] /\ UNCHANGED <<auth, career, clients>>
  BY DEF CommitChangePassword, Commits
<1>6. Rest' BY <1>4, <1>5 DEF auth, Inv, Rest
<1>7. Held(w)' BY <1>5 DEF Held, Inv
<1> QED BY <1>3, <1>5, <1>6, <1>7, RequestStep DEF auth

-----------------------------------------------------------------------------
(* Reset of the password and verification of the e-mail. *)

LEMMA RequestPasswordResetKeeps ==
  ASSUME Inv, NEW w \in Workers, NEW u \in Users, RequestPasswordReset(w, u)
  PROVE  ChainStep /\ Inv'
<1>1. [userId |-> u, until |-> now + ResetTTL] \in Message
  BY ClockTyped, SessionsAssumption DEF Message
<1>2. ChainStep BY DEF ChainStep, RequestPasswordReset, registry
<1>3. Rest' BY <1>1 DEF RequestPasswordReset, registry, Inv, Rest
<1>4. tx' = [tx EXCEPT ![w] = Null] /\ UNCHANGED <<now, subject>>
  BY DEF RequestPasswordReset, Accepts, Idle, Inv
<1>5. Held(w)' BY <1>4 DEF Held, Inv
<1> QED BY <1>2, <1>3, <1>4, <1>5, RequestStep

LEMMA BeginResetPasswordKeeps ==
  ASSUME Inv, NEW w \in Workers, NEW message \in reset, NEW password \in Passwords,
         BeginResetPassword(w, message, password)
  PROVE  ChainStep /\ Inv'
<1> DEFINE t == [op |-> "resetting", userId |-> message.userId, message |-> message,
                 password |-> password, line |-> {}]
<1>1. message \in Message /\ message.userId \in Users BY DEF Inv, Rest, Message
<1>2. t \in Handled BY <1>1 DEF Handled
<1>3. tx' = [tx EXCEPT ![w] = t] /\ UNCHANGED <<registry, auth>>
  BY DEF BeginResetPassword, Starts
<1>4. t.op = "resetting" OBVIOUS
<1> HIDE DEF t
<1> QED BY <1>2, <1>3, <1>4, ArrivalKeeps

LEMMA SetPasswordKeeps ==
  ASSUME Inv, NEW w \in Workers, SetPassword(w)
  PROVE  ChainStep /\ Inv'
<1> DEFINE u == tx[w].userId
           t == [tx[w] EXCEPT !.op = "revoking", !.line = SessionsOf(u)]
<1>1. tx[w] \in Handled /\ tx[w].op = "resetting" BY GoingOn DEF SetPassword, Continues
<1>2. u \in Users /\ tx[w].password \in Passwords BY <1>1, HandledShapes
<1>3. SessionsOf(u) \in SUBSET Sessions BY DEF SessionsOf
<1>4. t \in Handled BY <1>1, <1>3, HandledMoves
<1>5. t.op = "revoking" /\ t.userId = u /\ t.line = SessionsOf(u) BY <1>1 DEF Handled
<1>6. /\ tx' = [tx EXCEPT ![w] = t] /\ subject' = [subject EXCEPT ![w] = u]
      /\ user' = [user EXCEPT ![u].password = tx[w].password] /\ reset' \subseteq reset
      /\ UNCHANGED <<career, session, clients, cookie, opened, drawn, now>>
  BY <1>1 DEF SetPassword, Captured
<1> HIDE DEF t, u
<1>7. user' \in [Users -> UserRow]
  <2>1. user[u] \in UserRow BY <1>2 DEF Inv, Rest
  <2>2. [user[u] EXCEPT !.password = tx[w].password] \in UserRow BY <1>2, <2>1 DEF UserRow
  <2> QED BY <1>6, <2>2 DEF Inv, Rest
<1>8. Rest' BY <1>2, <1>6, <1>7 DEF Inv, Rest
<1>9. \A s \in t.line : s \in opened' /\ session'[s].userId = t.userId
  BY <1>5, <1>6 DEF SessionsOf, Inv, SessionLines
<1>10. Held(w)' BY <1>5, <1>6, <1>9 DEF Held, Inv, Rest
<1>11. ChainStep BY <1>6 DEF ChainStep
<1> QED BY <1>4, <1>6, <1>8, <1>10, <1>11, RequestStep DEF Inv, Rest

LEMMA RevokeUserSessionsKeeps ==
  ASSUME Inv, NEW w \in Workers, RevokeUserSessions(w)
  PROVE  ChainStep /\ Inv'
<1> DEFINE u == tx[w].userId
           t == [tx[w] EXCEPT !.op = "auditing"]
<1>1. tx[w] \in Handled /\ tx[w].op = "revoking" /\ Held(w) /\ tx[w] # Null
  BY GoingOn DEF RevokeUserSessions, Continues
<1>2. t \in Handled BY <1>1, HandledMoves
<1>3. t.op = "auditing" /\ t.userId = u /\ t.line = tx[w].line /\ t.line \subseteq Sessions
  BY <1>1 DEF Handled
<1>4. /\ tx' = [tx EXCEPT ![w] = t] /\ session' = Without(SessionsOf(u))
      /\ UNCHANGED <<auth, career, user, clients>>
  BY <1>1 DEF RevokeUserSessions
<1>5. /\ subject[w] = u
      /\ \A s \in tx[w].line : s \in opened /\ (session[s] = Null \/ session[s].userId = u)
  BY <1>1 DEF Held
<1> HIDE DEF t, u
<1>6. \A s \in tx[w].line : session'[s] = Null BY <1>3, <1>4, <1>5 DEF Without, SessionsOf
<1>7. SessionsOf(u) \in SUBSET Sessions BY DEF SessionsOf
<1>8. ChainStep BY <1>4, <1>7, WithoutCloses DEF auth
<1>9. Rest' BY <1>4 DEF auth, Inv, Rest
<1>10. Held(w)' BY <1>3, <1>4, <1>5, <1>6 DEF Held, Inv, auth
<1> QED BY <1>2, <1>4, <1>8, <1>9, <1>10, RequestStep DEF auth

LEMMA BeginVerifyEmailKeeps ==
  ASSUME Inv, NEW w \in Workers, NEW u \in Users, BeginVerifyEmail(w, u)
  PROVE  ChainStep /\ Inv'
<1> DEFINE t == [op |-> "verifying", userId |-> u, line |-> {}]
<1>1. t \in Handled BY DEF Handled
<1>2. tx' = [tx EXCEPT ![w] = t] /\ UNCHANGED <<registry, auth>> BY DEF BeginVerifyEmail, Starts
<1> QED BY <1>1, <1>2, ArrivalKeeps

\* Between its steps a verification holds no session.
LEMMA SetEmailVerifiedKeeps ==
  ASSUME Inv, NEW w \in Workers, SetEmailVerified(w)
  PROVE  ChainStep /\ Inv'
<1> DEFINE u == tx[w].userId
           t == [tx[w] EXCEPT !.op = "auditing"]
<1>1. tx[w] \in Handled /\ tx[w].op = "verifying" /\ Held(w) /\ tx[w] # Null
  BY GoingOn DEF SetEmailVerified, Continues
<1>2. t \in Handled /\ u \in Users BY <1>1, HandledMoves, HandledShapes
<1>3. t.op = "auditing" /\ t.userId = u /\ t.line = tx[w].line BY <1>1 DEF Handled
<1>4. /\ tx' = [tx EXCEPT ![w] = t] /\ subject' = [subject EXCEPT ![w] = u]
      /\ user' = [user EXCEPT ![u].emailVerified = TRUE]
      /\ UNCHANGED <<career, session, clients, cookie, opened, drawn, reset, now>>
  BY <1>1 DEF SetEmailVerified, Captured
<1>5. tx[w].line = {} BY <1>1 DEF Held
<1> HIDE DEF t, u
<1>6. user' \in [Users -> UserRow]
  <2>1. user[u] \in UserRow BY <1>2 DEF Inv, Rest
  <2>2. [user[u] EXCEPT !.emailVerified = TRUE] \in UserRow BY <2>1 DEF UserRow
  <2> QED BY <1>4, <2>2 DEF Inv, Rest
<1>7. Rest' BY <1>2, <1>4, <1>6 DEF Inv, Rest
<1>8. Held(w)' BY <1>3, <1>4, <1>5 DEF Held, Inv, Rest
<1>9. ChainStep BY <1>4 DEF ChainStep
<1> QED BY <1>2, <1>4, <1>7, <1>8, <1>9, RequestStep DEF Inv, Rest

\* The last step of a reset or a verification, and a request that is lost.
LEMMA EndingKeeps ==
  ASSUME Inv, NEW w \in Workers, RecordAuthAudit(w) \/ Lose(w)
  PROVE  ChainStep /\ Inv'
<1>1. /\ tx' = [tx EXCEPT ![w] = Null] /\ subject' = [subject EXCEPT ![w] = Null]
      /\ UNCHANGED <<registry, cookie, opened, drawn, reset, now>>
  BY DEF RecordAuthAudit, Lose, Goes
<1>2. subject' \in [Workers -> Users \cup {Null}] BY <1>1 DEF Inv, Rest
<1>3. Held(w)' BY <1>1 DEF Held, Inv
<1> QED BY <1>1, <1>2, <1>3, QuietStep DEF registry, Inv, Rest

-----------------------------------------------------------------------------
(* An administrator changes an account. *)

\* What is not undefined among the fields of an input tells of the account.
LEMMA ChangedTells ==
  ASSUME NEW before, NEW input \in AdminInput
  PROVE  Changed(before, input) \in Told
<1> DEFINE D == {f \in DOMAIN input : input[f] # Undefined /\ input[f] # before[f]}
           changes == Changed(before, input)
<1>1. DOMAIN input = DOMAIN UserColumns BY DEF AdminInput, UserColumns
<1>2. changes = [f \in D |-> input[f]] BY DEF Changed
<1>3. \A f \in D : f \in DOMAIN UserColumns /\ input[f] \in UserColumns[f]
  BY DEF AdminInput, UserColumns
<1>4. Tells(changes, UserColumns) BY <1>2, <1>3 DEF Tells
<1> HIDE DEF D, changes
<1>5. changes \in [D -> UNION {UserColumns[f] : f \in DOMAIN UserColumns}] BY <1>2, <1>3
<1>6. D \in SUBSET DOMAIN UserColumns BY <1>3
<1>7. changes \in Told BY <1>4, <1>5, <1>6 DEF Told
<1> QED BY <1>7 DEF changes

\* What the assignment resolves to is a unit there is, a career there is, or nothing.
LEMMA ResolvedTyped ==
  ASSUME Inv, NEW u \in Users, NEW input \in AdminInput, AssignmentAllowed(input, user[u])
  PROVE  LET data == resolveOrganizationAssignment(input, user[u])
         IN  /\ data.unitId \in Units \cup {Null, Undefined}
             /\ data.careerId \in Careers \cup {Null, Undefined}
<1> DEFINE data == resolveOrganizationAssignment(input, user[u])
<1>1. /\ input.unitId \in Units \cup {Null, Undefined}
      /\ input.careerId \in Careers \cup {Undefined}
  BY DEF AdminInput
<1>2. CASE input.unitId = Null
  <2>1. otrosCareer # {} BY <1>2 DEF AssignmentAllowed
  <2>2. (CHOOSE c \in otrosCareer : TRUE) \in otrosCareer BY <2>1
  <2>3. otrosCareer \subseteq Careers BY DEF otrosCareer
  <2> QED BY <1>2, <2>2, <2>3 DEF resolveOrganizationAssignment
<1>3. CASE input.unitId # Null
  <2>1. input.careerId # Undefined => career[input.careerId].unitId \in Units \cup {Null}
    BY <1>1, <1>3 DEF AssignmentAllowed, CareerExists, Inv, Rest, CareerRow
  <2> QED BY <1>1, <1>3, <2>1 DEF resolveOrganizationAssignment
<1> QED BY <1>2, <1>3

LEMMA BeginUpdateAdminUserKeeps ==
  ASSUME Inv, NEW w \in Workers, NEW actor, NEW u \in Users, NEW input \in Sent.adminInputs,
         BeginUpdateAdminUser(w, actor, u, input), UNCHANGED auth
  PROVE  ChainStep /\ Inv'
<1>0. input \in AdminInput BY SentTyped DEF Inv, Rest
<1> DEFINE data == resolveOrganizationAssignment(input, user[u])
           written == [input EXCEPT !.unitId = data.unitId, !.careerId = data.careerId]
           changes == buildAdminUserAuditEvents(user[u], input)
           t == [op |-> "updateAdminUser", id |-> u, data |-> written, changes |-> changes,
                 revoked |-> {}]
<1>1. /\ data.unitId \in Units \cup {Null, Undefined}
      /\ data.careerId \in Careers \cup {Null, Undefined}
  BY <1>0, ResolvedTyped DEF BeginUpdateAdminUser
<1>2. tx' = [tx EXCEPT ![w] = t] /\ UNCHANGED <<registry, auth>>
  BY DEF BeginUpdateAdminUser, Begin
<1>3. changes \in Told BY <1>0, ChangedTells DEF buildAdminUserAuditEvents
<1> HIDE DEF data, changes
<1>4. written \in AdminData BY <1>0, <1>1 DEF AdminInput, AdminData
<1> HIDE DEF written
<1>5. t \in Handled BY <1>3, <1>4 DEF Handled
<1>6. t.op = "updateAdminUser" OBVIOUS
<1> HIDE DEF t
<1> QED BY <1>2, <1>5, <1>6, ArrivalKeeps

LEMMA RevokeSessionsKeeps ==
  ASSUME Inv, NEW w \in Workers, RevokeSessions(w), UNCHANGED auth
  PROVE  ChainStep /\ Inv'
<1> DEFINE others == SessionsOf(tx[w].id)
           t == [tx[w] EXCEPT !.op = "updateAdminUser revoked", !.revoked = others]
<1>1. tx[w] \in Handled /\ tx[w].op = "updateAdminUser" BY GoingOn DEF RevokeSessions
<1>2. others \in SUBSET Sessions BY DEF SessionsOf
<1>3. t \in Handled BY <1>1, <1>2, HandledMoves
<1>4. t.op = "updateAdminUser revoked" BY <1>1 DEF Handled
<1>5. tx' = [tx EXCEPT ![w] = t] /\ UNCHANGED <<registry, auth>> BY <1>1 DEF RevokeSessions
<1> HIDE DEF t, others
<1> QED BY <1>3, <1>4, <1>5, ArrivalKeeps

LEMMA CommitUpdateAdminUserKeeps ==
  ASSUME Inv, NEW w \in Workers, CommitUpdateAdminUser(w), UNCHANGED auth
  PROVE  ChainStep /\ Inv'
<1> DEFINE u == tx[w].id
           data == tx[w].data
           new == [Assigned(user[u], data) EXCEPT
                     !.globalRole = Given(data.globalRole, @),
                     !.isActive = Given(data.isActive, @)]
<1>1. tx[w] \in Handled /\ tx[w].op \in {"updateAdminUser", "updateAdminUser revoked"}
  BY GoingOn DEF CommitUpdateAdminUser, Commits
<1>2. u \in Users /\ data \in AdminData /\ tx[w].revoked \in SUBSET Sessions
  BY <1>1, HandledShapes
<1>3. /\ tx' = [tx EXCEPT ![w] = Null] /\ user' = [user EXCEPT ![u] = new]
      /\ session' = Without(tx[w].revoked)
      /\ UNCHANGED <<auth, career, clients>>
  BY DEF CommitUpdateAdminUser, Commits
<1> HIDE DEF u, data
<1>4. user[u] \in UserRow BY <1>2 DEF Inv, Rest
<1>5. new \in UserRow
  BY <1>2, <1>4 DEF UserRow, AdminData, Assigned, Given
<1> HIDE DEF new
<1>6. user' \in [Users -> UserRow] BY <1>3, <1>5 DEF Inv, Rest
<1>7. ChainStep BY <1>2, <1>3, WithoutCloses DEF auth
<1>8. Rest' BY <1>3, <1>6 DEF auth, Inv, Rest
<1>9. Held(w)' BY <1>3 DEF Held, Inv
<1> QED BY <1>3, <1>7, <1>8, <1>9, RequestStep DEF auth

-----------------------------------------------------------------------------
(* All the steps. *)

LEMMA TickKeeps == ASSUME Inv, Tick PROVE ChainStep /\ Inv'
<1>1. UNCHANGED <<registry, tx, cookie, opened, drawn, reset, subject>> BY DEF Tick
<1>2. ChainStep BY <1>1 DEF ChainStep, registry
<1>3. SessionLines' /\ LinesMove BY <1>2, ChainKeepsLines DEF Inv
<1>4. now' \in 0 .. MaxNow /\ now' \in Nat /\ now <= now'
  <2>1. Sent.until \in 0 .. MaxNow BY SentTyped DEF Inv, Rest
  <2> HIDE DEF Sent
  <2>2. now \in Nat /\ MaxNow \in Nat BY SessionsAssumption, ClockTyped
  <2> QED BY <2>1, <2>2 DEF Tick
<1>5. Rest' BY <1>1, <1>4 DEF registry, Inv, Rest
<1>6. \A w \in Workers : Held(w)' BY <1>1, <1>3, <1>4, OthersKeepHeld
<1> QED BY <1>1, <1>2, <1>3, <1>5, <1>6 DEF Inv

LEMMA StutterKeeps == ASSUME Inv, UNCHANGED vars PROVE ChainStep /\ Inv'
<1>1. ChainStep BY DEF vars, ChainStep
<1>2. SessionLines' /\ Rest' BY DEF vars, Inv, SessionLines, Rest, Chain!TokensAreOfOneLine
<1>3. \A w \in Workers : Held(w)' BY DEF vars, Inv, Held
<1> QED BY <1>1, <1>2, <1>3 DEF vars, Inv

LEMMA StepKeeps == Inv /\ [Next]_vars => ChainStep /\ Inv'
<1> SUFFICES ASSUME Inv, [Next]_vars PROVE ChainStep /\ Inv'
  OBVIOUS
<1>1. ASSUME NEW w \in Workers, Arrives(w) PROVE ChainStep /\ Inv'
  BY <1>1, SignInEmailKeeps, BeginRefreshKeeps, BeginLogoutKeeps, BeginChangePasswordKeeps,
     RequestPasswordResetKeeps, BeginVerifyEmailKeeps, BeginResetPasswordKeeps,
     BeginUpdateAdminUserKeeps
  DEF Arrives
<1>2. ASSUME NEW w \in Workers, Serves(w) PROVE ChainStep /\ Inv'
  BY <1>2, CreateSessionKeeps, LoginUserKeeps, FinishLoginKeeps, RefuseKeeps, RotateTokenKeeps,
     RevokeSessionKeeps, AnswerLogoutKeeps, RevokeOtherSessionsKeeps, CommitChangePasswordKeeps,
     SetPasswordKeeps, RevokeUserSessionsKeeps, SetEmailVerifiedKeeps, EndingKeeps,
     RevokeSessionsKeeps, CommitUpdateAdminUserKeeps, ReceiveKeeps
  DEF Serves
<1> QED BY <1>1, <1>2, EndingKeeps, TickKeeps, StutterKeeps DEF Next

LEMMA InvInit == Init => Inv /\ Chain!Init
<1> SUFFICES ASSUME Init PROVE Inv /\ Chain!Init
  OBVIOUS
<1>1. user \in [Users -> UserRow] BY SentTyped DEF Init
<1>2. career \in [Careers -> CareerRow \cup {Null}] BY DEF Init
<1>3. SessionLines BY DEF Init, SessionLines, Chain!TokensAreOfOneLine
<1>4. Rest BY <1>1, <1>2, SessionsAssumption DEF Init, Rest
<1>5. \A w \in Workers : Held(w) BY DEF Init, Held
<1> QED BY <1>3, <1>4, <1>5 DEF Init, Inv, Chain!Init

THEOREM InvAlways == Spec => []Inv
BY InvInit, StepKeeps, PTL DEF Spec

(* No two sessions answer to the same token, and the tables of modules/auth *)
(* stay typed, whatever requests interleave (auth.service.ts).              *)
THEOREM SessionTablesAlways == Spec => []SessionTables
<1>1. Inv => SessionTables BY InvTypeOK DEF SessionTables, Inv, SessionLines
<1> QED BY <1>1, InvAlways, PTL

(* Every handler of modules/auth moves the sessions as lines of refresh     *)
(* tokens: it opens one, replaces the token of one by a new one, or ends    *)
(* some; the refinement of RefreshTokens, step by step.                     *)
THEOREM SessionsRefineLines == Spec => SessionsAreLines
<1>1. Inv /\ [Next]_vars => [Chain!Next]_<<session, opened, drawn>>
  BY StepKeeps DEF ChainStep
<1> QED BY <1>1, InvInit, InvAlways, PTL DEF Spec, SessionsAreLines, Chain!Spec

(* The event of a reset or a verification names the user whose token it     *)
(* was, however many requests are in flight (auth.audit.ts).                *)
THEOREM AuditNamesTheSubjectAlways == Spec => []AuditNamesTheSubject
<1>1. Inv => AuditNamesTheSubject BY GoingOn DEF AuditNamesTheSubject, Held
<1> QED BY <1>1, InvAlways, PTL

(* When a reset gets to its event, every session the user had when the      *)
(* password changed is gone: a refresh keeps the owner of a session, and    *)
(* one that ended never opens again (auth.service.ts).                      *)
THEOREM ResetClosesSessionsAlways == Spec => []ResetClosesSessions
<1>1. Inv => ResetClosesSessions BY GoingOn DEF ResetClosesSessions, Held
<1> QED BY <1>1, InvAlways, PTL

-----------------------------------------------------------------------------
(* Requests that run one at a time. *)

InFlight == {w \in Workers : ~Idle(w)}

OwnersActive(token) == \A s \in SessionWith(token) : user[session[s].userId].isActive

\* What the tables still are for a request nothing interferes with.
Kept(w) ==
  LET t == tx[w]
  IN  /\ t.op \in {"logging out", "changing"} => t.line \subseteq SessionWith(t.token)
      /\ t.op = "logged out" => \A s \in t.line : session[s] = Null
      /\ t.op = "changed" => t.line \cap t.revoked = {}
      /\ t.op \in {"signed in", "accepted"} =>
           \A s \in SessionWith(t.token) : session[s].userId = t.userId
      /\ t.op = "accepted" => user[t.userId].isActive
      /\ t.op \in {"answer", "rotating"} => OwnersActive(t.token)
      /\ t.op = "updateAdminUser revoked" => t.revoked = SessionsOf(t.id)

CookiesWork == \A b \in Browsers : OwnersActive(cookie[b])

AloneInv ==
  /\ IsFiniteSet(InFlight)
  /\ Alone => CookiesWork /\ \A w \in InFlight : InFlight = {w} /\ Kept(w)

LEMMA ActionsOf ==
  ASSUME NEW w \in Workers
  PROVE  /\ Arrives(w) => Accepts(w)
         /\ Serves(w) \/ Lose(w) => ~Idle(w)
<1>1. Arrives(w) => Accepts(w)
  BY DEF Arrives, SignInEmail, BeginRefresh, BeginLogout, BeginChangePassword,
         RequestPasswordReset, BeginVerifyEmail, BeginResetPassword, BeginUpdateAdminUser, Starts
<1>2. Serves(w) \/ Lose(w) => ~Idle(w)
  BY DEF Serves, CreateSession, LoginUser, FinishLogin, Refuse, RotateToken, RevokeSession,
         AnswerLogout, RevokeOtherSessions, CommitChangePassword, SetPassword,
         RevokeUserSessions, SetEmailVerified, RecordAuthAudit, RevokeSessions,
         CommitUpdateAdminUser, Receive, Continues, Commits, Lose
<1> QED BY <1>1, <1>2

LEMMA AcceptsAlone ==
  ASSUME AloneInv, Alone, NEW w \in Workers, Accepts(w)
  PROVE  InFlight = {}
<1>1. Cardinality(InFlight) \in Nat /\ Cardinality(InFlight) < 1
  BY FS_CardinalityType DEF AloneInv, Alone, Accepts, InFlight
<1>2. Cardinality(InFlight) = 0 BY <1>1
<1> QED BY <1>2, FS_EmptySet DEF AloneInv

\* While one request is in flight, it and the clock are all that moves.
LEMMA OnlyOneMoves ==
  ASSUME AloneInv, Alone, NEW w \in InFlight, Next
  PROVE  Tick \/ Serves(w) \/ Lose(w)
<1>1. ASSUME NEW v \in Workers, Arrives(v) PROVE FALSE BY <1>1, ActionsOf, AcceptsAlone
<1>2. ASSUME NEW v \in Workers, Serves(v) \/ Lose(v) PROVE v = w
  BY <1>2, ActionsOf DEF AloneInv, InFlight
<1> QED BY <1>1, <1>2 DEF Next

\* A token that was drawn stands for the session it stood for, or for none.
LEMMA OldTokens ==
  ASSUME Inv, ChainStep, NEW token \in drawn \cup {Null}, NEW s \in SessionWith(token)'
  PROVE  s \in SessionWith(token) /\ session'[s].userId = session[s].userId
<1>1. SessionLines' /\ LinesMove BY ChainKeepsLines DEF Inv
<1>2. s \in Sessions /\ session'[s] # Null /\ session'[s].token = token BY DEF SessionWith
<1>3. token \in drawn BY <1>1, <1>2, SessionsAssumption DEF SessionLines, SessionRow
<1> QED BY <1>1, <1>2, <1>3 DEF LinesMove, SessionWith

LEMMA OwnersStayActive ==
  ASSUME Inv, ChainStep, NEW token \in drawn \cup {Null}, OwnersActive(token),
         \A u \in Users : user[u].isActive => user'[u].isActive
  PROVE  OwnersActive(token)'
<1>1. ASSUME NEW s \in SessionWith(token)' PROVE user'[session'[s].userId].isActive
  BY <1>1, OldTokens, CookieStandsFor DEF OwnersActive
<1> QED BY <1>1 DEF OwnersActive

LEMMA CookiesStay ==
  ASSUME Inv, ChainStep, CookiesWork, UNCHANGED cookie,
         \A u \in Users : user[u].isActive => user'[u].isActive
  PROVE  CookiesWork'
<1> SUFFICES ASSUME NEW b \in Browsers, NEW token, token = cookie[b] PROVE OwnersActive(token)'
  BY DEF CookiesWork
<1>1. token \in drawn \cup {Null} BY DEF Inv, Rest
<1> QED BY <1>1, OwnersStayActive DEF CookiesWork

\* What the steps of a request that is alone have to leave.
AloneKept(w) == CookiesWork' /\ (tx'[w] # Null => Kept(w)')

\* The steps that change no owner's status and no cookie.
LEMMA PlainStep ==
  ASSUME Inv, AloneInv, Alone, ChainStep, NEW w \in Workers, NEW t, tx' = [tx EXCEPT ![w] = t],
         UNCHANGED cookie, \A u \in Users : user[u].isActive => user'[u].isActive,
         t # Null => t.op \notin {"logging out", "changing", "logged out", "changed",
                                  "signed in", "accepted", "answer", "rotating",
                                  "updateAdminUser revoked"}
  PROVE  AloneKept(w)
<1>1. tx'[w] = t BY DEF Inv
<1>2. CookiesWork' BY CookiesStay DEF AloneInv
<1> QED BY <1>1, <1>2 DEF AloneKept, Kept

LEMMA AloneHolds ==
  ASSUME Inv, AloneInv, Alone, NEW w \in Workers, ~Idle(w)
  PROVE  Kept(w) /\ tx[w] \in Handled /\ tx[w] # Null /\ Held(w)
BY GoingOn DEF AloneInv, InFlight

LEMMA AloneArrivals ==
  ASSUME Inv, AloneInv, Alone, ChainStep, NEW w \in Workers, Arrives(w)
  PROVE  AloneKept(w)
<1> USE DEF Starts
<1>1. ASSUME NEW t, tx' = [tx EXCEPT ![w] = t], UNCHANGED <<registry, auth>>,
             t.op \in {"logging out", "changing"} => t.line \subseteq SessionWith(t.token),
             t.op \in {"answer", "rotating"} => OwnersActive(t.token),
             t.op \notin {"logged out", "changed", "signed in", "accepted",
                          "updateAdminUser revoked"}
      PROVE  AloneKept(w)
  <2>1. tx'[w] = t BY <1>1 DEF Inv
  <2>2. CookiesWork' BY <1>1 DEF AloneInv, CookiesWork, OwnersActive, SessionWith, registry, auth
  <2>3. UNCHANGED <<session, user>> BY <1>1 DEF registry
  <2>4. SessionWith(t.token)' = SessionWith(t.token) BY <2>3 DEF SessionWith
  <2>5. OwnersActive(t.token)' <=> OwnersActive(t.token) BY <2>3, <2>4 DEF OwnersActive
  <2> QED BY <1>1, <2>1, <2>2, <2>4, <2>5 DEF AloneKept, Kept
<1>2. \A b \in Browsers : OwnersActive(cookie[b]) BY DEF AloneInv, CookiesWork
<1>3. OwnersActive(Null)
  BY SessionsAssumption DEF OwnersActive, SessionWith, Inv, SessionLines, SessionRow
<1>4. ASSUME NEW b \in Browsers, NEW u \in Users, NEW password, SignInEmail(w, b, u, password)
      PROVE  AloneKept(w)
  BY <1>1, <1>4 DEF SignInEmail
<1>5. ASSUME NEW b \in Browsers, BeginRefresh(w, b) PROVE AloneKept(w)
  <2>1. PICK s \in SessionWith(cookie[b]) :
          /\ tx' = [tx EXCEPT ![w] =
               IF user[session[s].userId].isActive
               THEN [op |-> "rotating", browser |-> b, token |-> cookie[b], now |-> now]
               ELSE [op |-> "refused", token |-> cookie[b]]]
          /\ UNCHANGED <<registry, auth>>
    BY <1>5 DEF BeginRefresh
  <2> DEFINE t == IF user[session[s].userId].isActive
                  THEN [op |-> "rotating", browser |-> b, token |-> cookie[b], now |-> now]
                  ELSE [op |-> "refused", token |-> cookie[b]]
  <2>2. t.op \in {"rotating", "refused"} /\ t.token = cookie[b] OBVIOUS
  <2>3. tx' = [tx EXCEPT ![w] = t] BY <2>1
  <2> HIDE DEF t
  <2>4. OwnersActive(t.token) BY <1>2, <2>2
  <2> QED BY <1>1, <2>1, <2>2, <2>3, <2>4
<1>6. ASSUME NEW b \in Browsers, BeginLogout(w, b) PROVE AloneKept(w)
  <2> DEFINE t == IF cookie[b] = Null THEN Answer(b, Null)
                  ELSE [op |-> "logging out", browser |-> b, token |-> cookie[b],
                        line |-> SessionWith(cookie[b])]
  <2>1. tx' = [tx EXCEPT ![w] = t] /\ UNCHANGED <<registry, auth>> BY <1>6 DEF BeginLogout
  <2>2. /\ t.op \in {"answer", "logging out"}
        /\ t.op = "answer" => t.token = Null
        /\ t.op = "logging out" => t.line \subseteq SessionWith(t.token)
    BY DEF Answer
  <2> HIDE DEF t
  <2>3. t.op = "answer" => OwnersActive(t.token) BY <1>3, <2>2
  <2> QED BY <1>1, <2>1, <2>2, <2>3
<1>7. ASSUME NEW b \in Browsers, NEW u \in Users, NEW current, NEW new,
             BeginChangePassword(w, b, u, current, new)
      PROVE  AloneKept(w)
  BY <1>1, <1>7 DEF BeginChangePassword
<1>8. ASSUME NEW u \in Users, RequestPasswordReset(w, u) PROVE AloneKept(w)
  <2>1. tx' = [tx EXCEPT ![w] = Null] /\ UNCHANGED <<registry, cookie>>
    BY <1>8 DEF RequestPasswordReset, Accepts, Idle, Inv
  <2> QED BY <2>1, PlainStep DEF registry
<1>9. ASSUME NEW u \in Users, BeginVerifyEmail(w, u) PROVE AloneKept(w)
  BY <1>1, <1>9 DEF BeginVerifyEmail
<1>10. ASSUME NEW message, NEW password, BeginResetPassword(w, message, password)
       PROVE  AloneKept(w)
  BY <1>1, <1>10 DEF BeginResetPassword
<1>11. ASSUME NEW actor, NEW u, NEW input, BeginUpdateAdminUser(w, actor, u, input),
              UNCHANGED auth
       PROVE  AloneKept(w)
  BY <1>1, <1>11 DEF BeginUpdateAdminUser, Begin
<1> QED BY <1>4, <1>5, <1>6, <1>7, <1>8, <1>9, <1>10, <1>11 DEF Arrives

LEMMA AloneSignIn ==
  ASSUME Inv, AloneInv, Alone, ChainStep, NEW w \in Workers
  PROVE  /\ \A s \in Sessions, token \in Tokens : CreateSession(w, s, token) => AloneKept(w)
         /\ LoginUser(w) => AloneKept(w)
         /\ FinishLogin(w) => AloneKept(w)
         /\ Refuse(w) => AloneKept(w)
         /\ Receive(w) => AloneKept(w)
<1>1. ASSUME NEW s \in Sessions, NEW token \in Tokens, CreateSession(w, s, token)
      PROVE  AloneKept(w)
  <2>0. PICK owner : owner = tx[w].userId OBVIOUS
  <2>1. tx'[w].op = "signed in" /\ tx'[w].token = token /\ tx'[w].userId = owner
    BY <1>1, <2>0 DEF CreateSession, Goes, Inv
  <2>2. CookiesWork' BY <1>1, CookiesStay DEF CreateSession, AloneInv
  <2>3. ASSUME NEW r \in Sessions, session'[r] # Null, session'[r].token = token
        PROVE  session'[r].userId = owner
    <3>1. /\ token \notin drawn
          /\ session' = [session EXCEPT ![s] =
               [userId |-> owner, token |-> token, expiresAt |-> now + SessionTTL]]
      BY <1>1, <2>0 DEF CreateSession
    <3>2. session \in [Sessions -> SessionRow \cup {Null}]
          /\ \A q \in Sessions : session[q] # Null => session[q].token \in drawn
      BY DEF Inv, SessionLines
    <3>3. r = s BY <2>3, <3>1, <3>2
    <3> QED BY <3>1, <3>2, <3>3
  <2>4. Kept(w)' BY <2>1, <2>3 DEF Kept, SessionWith
  <2> QED BY <2>2, <2>4 DEF AloneKept
<1>2. ASSUME LoginUser(w) PROVE AloneKept(w)
  <2>1. ~Idle(w) /\ tx[w].op = "signed in" BY <1>2 DEF LoginUser, Continues
  <2>2. Kept(w) /\ tx[w] \in Handled BY <2>1, AloneHolds
  <2>3. UNCHANGED <<session, user, cookie>> BY <1>2 DEF LoginUser, registry, auth
  <2>4. CookiesWork' BY <2>3, CookiesStay DEF AloneInv
  <2>5. CASE user[tx[w].userId].isActive
    <3> DEFINE t == [tx[w] EXCEPT !.op = "accepted"]
    <3>1. tx'[w] = t BY <1>2, <2>5, <2>1, <2>2 DEF LoginUser, Inv
    <3>2. t.op = "accepted" /\ t.token = tx[w].token /\ t.userId = tx[w].userId
      BY <2>1, <2>2 DEF Handled
    <3> HIDE DEF t
    <3>3. \A s \in SessionWith(tx[w].token) : session[s].userId = tx[w].userId
      BY <2>1, <2>2 DEF Kept
    <3>4. (\A s \in SessionWith(tx[w].token) : session[s].userId = tx[w].userId)'
      BY <2>3, <3>1, <3>2, <3>3 DEF SessionWith
    <3> QED BY <2>3, <2>4, <2>5, <3>1, <3>2, <3>4 DEF AloneKept, Kept
  <2>6. CASE ~user[tx[w].userId].isActive
    <3>1. tx' = [tx EXCEPT ![w] = [op |-> "refused", token |-> tx[w].token]]
      BY <1>2, <2>6 DEF LoginUser, Goes
    <3> QED BY <2>3, <3>1, PlainStep
  <2> QED BY <2>5, <2>6
<1>3. ASSUME FinishLogin(w) PROVE AloneKept(w)
  <2>1. ~Idle(w) /\ tx[w].op = "accepted" BY <1>3 DEF FinishLogin, Continues
  <2>2. Kept(w) BY <2>1, AloneHolds
  <2>3. UNCHANGED <<session, user, cookie>> BY <1>3 DEF FinishLogin, registry, auth
  <2>4. CookiesWork' BY <2>3, CookiesStay DEF AloneInv
  <2>5. tx'[w] = IF SessionWith(tx[w].token) # {} THEN Answer(tx[w].browser, tx[w].token) ELSE Null
    BY <1>3 DEF FinishLogin, Goes, Inv
  <2>6. OwnersActive(tx[w].token) BY <2>1, <2>2 DEF Kept, OwnersActive
  <2>7. ASSUME tx'[w] # Null PROVE Kept(w)'
    <3>1. tx'[w].op = "answer" /\ tx'[w].token = tx[w].token BY <2>5, <2>7 DEF Answer
    <3>2. OwnersActive(tx[w].token)' BY <2>3, <2>6, <3>1 DEF OwnersActive, SessionWith
    <3> QED BY <3>1, <3>2 DEF Kept
  <2> QED BY <2>4, <2>7 DEF AloneKept
<1>4. ASSUME Refuse(w) PROVE AloneKept(w)
  BY <1>4, PlainStep DEF Refuse, Goes, auth
<1>5. ASSUME Receive(w) PROVE AloneKept(w)
  <2>1. ~Idle(w) /\ tx[w].op = "answer" BY <1>5 DEF Receive, Continues
  <2>2. Kept(w) /\ tx[w] \in Handled BY <2>1, AloneHolds
  <2>3. OwnersActive(tx[w].token) BY <2>1, <2>2 DEF Kept
  <2>4. /\ UNCHANGED <<session, user>> /\ tx'[w] = Null
        /\ cookie' = [cookie EXCEPT ![tx[w].browser] = tx[w].token]
    BY <1>5 DEF Receive, registry, Goes, Inv
  <2>5. ASSUME NEW b \in Browsers PROVE OwnersActive(cookie[b])'
    <3>1. cookie'[b] = tx[w].token \/ cookie'[b] = cookie[b] BY <2>4 DEF Inv, Rest
    <3>2. OwnersActive(cookie[b]) BY DEF AloneInv, CookiesWork
    <3> QED BY <2>3, <2>4, <3>1, <3>2 DEF OwnersActive, SessionWith
  <2> QED BY <2>4, <2>5 DEF AloneKept, CookiesWork
<1> QED BY <1>1, <1>2, <1>3, <1>4, <1>5

LEMMA AloneRotation ==
  ASSUME Inv, AloneInv, Alone, ChainStep, NEW w \in Workers, NEW token \in Tokens,
         RotateToken(w, token)
  PROVE  AloneKept(w)
<1>1. ~Idle(w) /\ tx[w].op = "rotating" BY DEF RotateToken, Continues
<1>2. Kept(w) /\ Held(w) /\ tx[w] # Null BY <1>1, AloneHolds
<1> DEFINE rotated == Rotated(tx[w].token, tx[w].now)
<1>3. OwnersActive(tx[w].token) BY <1>1, <1>2 DEF Kept
<1>4. UNCHANGED <<user, cookie>> BY DEF RotateToken
<1>5. CookiesWork' BY <1>4, CookiesStay DEF AloneInv
<1>6. tx'[w] = RefreshAnswer(rotated, tx[w].browser, token) BY DEF RotateToken, Goes, Inv
<1>7. ASSUME NEW s \in Sessions, session'[s] # Null, session'[s].token = token
      PROVE  user'[session'[s].userId].isActive
  <2>1. /\ token \notin drawn
        /\ session' = [r \in Sessions |->
             IF r \in rotated THEN [session[r] EXCEPT !.token = token] ELSE session[r]]
    BY DEF RotateToken
  <2>2. session[s] # Null => session[s] \in SessionRow /\ session[s].token \in drawn
    BY DEF Inv, SessionLines
  <2>3. s \in rotated BY <1>7, <2>1, <2>2
  <2>4. s \in SessionWith(tx[w].token) /\ session[s] # Null BY <2>3 DEF Rotated, SessionWith
  <2>5. session'[s].userId = session[s].userId BY <2>1, <2>2, <2>3, <2>4 DEF SessionRow
  <2> QED BY <1>3, <1>4, <2>4, <2>5 DEF OwnersActive
<1>8. tx'[w] # Null => tx'[w].op = "answer" /\ tx'[w].token = token
  BY <1>6 DEF RefreshAnswer, Answer
<1>9. tx'[w] # Null => Kept(w)' BY <1>7, <1>8 DEF Kept, OwnersActive, SessionWith
<1> QED BY <1>5, <1>9 DEF AloneKept

LEMMA AloneSignOut ==
  ASSUME Inv, AloneInv, Alone, ChainStep, NEW w \in Workers
  PROVE  /\ RevokeSession(w) => AloneKept(w)
         /\ AnswerLogout(w) => AloneKept(w)
<1>1. ASSUME RevokeSession(w) PROVE AloneKept(w)
  <2>1. ~Idle(w) /\ tx[w].op = "logging out" BY <1>1 DEF RevokeSession, Continues
  <2>2. PICK line : line = tx[w].line OBVIOUS
  <2>3. line \subseteq SessionWith(tx[w].token) BY <2>1, <2>2, AloneHolds DEF Kept
  <2>4. tx'[w].op = "logged out" /\ tx'[w].line = line
    BY <1>1, <2>2 DEF RevokeSession, Goes, Inv
  <2>5. session' = Without(SessionWith(tx[w].token)) /\ UNCHANGED <<user, cookie>>
    BY <1>1 DEF RevokeSession, auth
  <2>6. \A s \in line : session'[s] = Null BY <2>3, <2>5 DEF Without, SessionWith
  <2>7. CookiesWork' BY <2>5, CookiesStay DEF AloneInv
  <2> QED BY <2>4, <2>6, <2>7 DEF AloneKept, Kept
<1>2. ASSUME AnswerLogout(w) PROVE AloneKept(w)
  <2>1. UNCHANGED <<user, cookie>> BY <1>2 DEF AnswerLogout, registry, auth
  <2>2. CookiesWork' BY <2>1, CookiesStay DEF AloneInv
  <2>3. tx'[w].op = "answer" /\ tx'[w].token = Null BY <1>2 DEF AnswerLogout, Goes, Answer, Inv
  <2>4. OwnersActive(Null)'
    BY ChainKeepsLines, SessionsAssumption DEF OwnersActive, SessionWith, Inv, SessionLines, SessionRow
  <2> QED BY <2>2, <2>3, <2>4 DEF AloneKept, Kept
<1> QED BY <1>1, <1>2

LEMMA AloneChangePassword ==
  ASSUME Inv, AloneInv, Alone, ChainStep, NEW w \in Workers
  PROVE  /\ RevokeOtherSessions(w) => AloneKept(w)
         /\ CommitChangePassword(w) => AloneKept(w)
<1>1. ASSUME RevokeOtherSessions(w) PROVE AloneKept(w)
  <2>1. ~Idle(w) /\ tx[w].op = "changing" BY <1>1 DEF RevokeOtherSessions, Continues
  <2>2. Kept(w) /\ tx[w] \in Handled BY <2>1, AloneHolds
  <2>3. PICK line, others : line = tx[w].line /\ others = OtherSessions(tx[w].userId, tx[w].token)
    OBVIOUS
  <2>4. line \cap others = {}
    BY <2>1, <2>2, <2>3 DEF Kept, OtherSessions, SessionsOf, SessionWith
  <2>5. tx'[w].op = "changed" /\ tx'[w].line = line /\ tx'[w].revoked = others
    BY <1>1, <2>1, <2>2, <2>3 DEF RevokeOtherSessions, Handled, Inv
  <2>6. UNCHANGED <<user, cookie>> BY <1>1 DEF RevokeOtherSessions, registry, auth
  <2>7. CookiesWork' BY <2>6, CookiesStay DEF AloneInv
  <2> QED BY <2>4, <2>5, <2>7 DEF AloneKept, Kept
<1>2. ASSUME CommitChangePassword(w) PROVE AloneKept(w)
  <2>1. tx' = [tx EXCEPT ![w] = Null] /\ UNCHANGED cookie
    BY <1>2 DEF CommitChangePassword, Commits, auth
  <2>2. \A u \in Users : user[u].isActive => user'[u].isActive
    BY <1>2 DEF CommitChangePassword, Inv, Rest, UserRow
  <2> QED BY <2>1, <2>2, PlainStep
<1> QED BY <1>1, <1>2

LEMMA AloneReset ==
  ASSUME Inv, AloneInv, Alone, ChainStep, NEW w \in Workers
  PROVE  /\ SetPassword(w) => AloneKept(w)
         /\ RevokeUserSessions(w) => AloneKept(w)
         /\ SetEmailVerified(w) => AloneKept(w)
         /\ RecordAuthAudit(w) \/ Lose(w) => AloneKept(w)
<1>1. ASSUME SetPassword(w) PROVE AloneKept(w)
  <2> DEFINE t == [tx[w] EXCEPT !.op = "revoking", !.line = SessionsOf(tx[w].userId)]
  <2>1. tx[w] \in Handled /\ tx[w].op = "resetting"
    BY <1>1, AloneHolds DEF SetPassword, Continues
  <2>2. t.op = "revoking" BY <2>1 DEF Handled
  <2>3. tx' = [tx EXCEPT ![w] = t] /\ UNCHANGED cookie BY <1>1, <2>1 DEF SetPassword
  <2>4. \A u \in Users : user[u].isActive => user'[u].isActive
    BY <1>1 DEF SetPassword, Inv, Rest, UserRow
  <2> HIDE DEF t
  <2> QED BY <2>2, <2>3, <2>4, PlainStep
<1>2. ASSUME RevokeUserSessions(w) PROVE AloneKept(w)
  <2> DEFINE t == [tx[w] EXCEPT !.op = "auditing"]
  <2>1. tx[w] \in Handled /\ tx[w].op = "revoking"
    BY <1>2, AloneHolds DEF RevokeUserSessions, Continues
  <2>2. t.op = "auditing" BY <2>1 DEF Handled
  <2>3. tx' = [tx EXCEPT ![w] = t] /\ UNCHANGED <<cookie, user>>
    BY <1>2, <2>1 DEF RevokeUserSessions, auth
  <2> HIDE DEF t
  <2> QED BY <2>2, <2>3, PlainStep
<1>3. ASSUME SetEmailVerified(w) PROVE AloneKept(w)
  <2> DEFINE t == [tx[w] EXCEPT !.op = "auditing"]
  <2>1. tx[w] \in Handled /\ tx[w].op = "verifying"
    BY <1>3, AloneHolds DEF SetEmailVerified, Continues
  <2>2. t.op = "auditing" BY <2>1 DEF Handled
  <2>3. tx' = [tx EXCEPT ![w] = t] /\ UNCHANGED cookie BY <1>3, <2>1 DEF SetEmailVerified
  <2>4. \A u \in Users : user[u].isActive => user'[u].isActive
    BY <1>3 DEF SetEmailVerified, Inv, Rest, UserRow
  <2> HIDE DEF t
  <2> QED BY <2>2, <2>3, <2>4, PlainStep
<1>4. ASSUME RecordAuthAudit(w) \/ Lose(w) PROVE AloneKept(w)
  BY <1>4, PlainStep DEF RecordAuthAudit, Lose, Goes, registry
<1> QED BY <1>1, <1>2, <1>3, <1>4

\* The sessions of an account that is deactivated go with it.
LEMMA AloneUpdateAdminUser ==
  ASSUME Inv, AloneInv, Alone, ChainStep, NEW w \in Workers, UNCHANGED auth
  PROVE  /\ RevokeSessions(w) => AloneKept(w)
         /\ CommitUpdateAdminUser(w) => AloneKept(w)
<1>1. ASSUME RevokeSessions(w) PROVE AloneKept(w)
  <2>1. tx[w] \in Handled /\ tx[w].op = "updateAdminUser"
    BY <1>1, AloneHolds DEF RevokeSessions
  <2>2. PICK u : u = tx[w].id OBVIOUS
  <2>3. /\ tx'[w].op = "updateAdminUser revoked" /\ tx'[w].id = u
        /\ tx'[w].revoked = SessionsOf(u)
    BY <1>1, <2>1, <2>2 DEF RevokeSessions, Handled, Inv
  <2>4. UNCHANGED <<user, cookie, session>> BY <1>1 DEF RevokeSessions, registry, auth
  <2>5. CookiesWork' BY <2>4, CookiesStay DEF AloneInv
  <2>6. SessionsOf(u)' = SessionsOf(u) BY <2>4 DEF SessionsOf
  <2> QED BY <2>3, <2>5, <2>6 DEF AloneKept, Kept
<1>2. ASSUME CommitUpdateAdminUser(w) PROVE AloneKept(w)
  <2> DEFINE u == tx[w].id
             data == tx[w].data
             new == [Assigned(user[u], data) EXCEPT
                       !.globalRole = Given(data.globalRole, @),
                       !.isActive = Given(data.isActive, @)]
  <2>1. ~Idle(w) /\ tx[w].op \in {"updateAdminUser", "updateAdminUser revoked"}
    BY <1>2 DEF CommitUpdateAdminUser, Commits
  <2>2. Kept(w) /\ tx[w] \in Handled BY <2>1, AloneHolds
  <2>3. u \in Users /\ data \in AdminData BY <2>1, <2>2, HandledShapes
  <2>4. /\ tx'[w] = Null /\ user' = [user EXCEPT ![u] = new]
        /\ session' = Without(tx[w].revoked) /\ UNCHANGED cookie
    BY <1>2 DEF CommitUpdateAdminUser, Commits, auth, Inv
  <2>5. data.isActive = FALSE => tx[w].revoked = SessionsOf(u)
    BY <1>2, <2>2 DEF CommitUpdateAdminUser, Commits, Kept
  <2> HIDE DEF u, data
  <2>6. user[u] \in UserRow BY <2>3 DEF Inv, Rest
  <2>7. new.isActive = Given(data.isActive, user[u].isActive)
    BY <2>3, <2>6 DEF UserRow, Assigned
  <2> HIDE DEF new
  <2>8. CASE data.isActive = FALSE
    <3>1. ASSUME NEW b \in Browsers, NEW token, token = cookie[b], NEW s \in SessionWith(token)'
          PROVE  user'[session'[s].userId].isActive
      <4>1. token \in drawn \cup {Null} BY <3>1 DEF Inv, Rest
      <4>2. s \in SessionWith(token) /\ session'[s].userId = session[s].userId
        BY <3>1, <4>1, OldTokens
      <4>3. session[s].userId \in Users /\ user[session[s].userId].isActive
        BY <3>1, <4>2, CookieStandsFor DEF AloneInv, CookiesWork, OwnersActive
      <4>4. session[s].userId # u
        BY <2>4, <2>5, <2>8, <3>1 DEF Without, SessionsOf, SessionWith
      <4> QED BY <2>4, <4>2, <4>3, <4>4 DEF Inv, Rest
    <3>2. CookiesWork' BY <2>4, <3>1 DEF CookiesWork, OwnersActive
    <3> QED BY <2>4, <3>2 DEF AloneKept
  <2>9. CASE data.isActive # FALSE
    <3>1. new.isActive \/ new.isActive = user[u].isActive
      BY <2>3, <2>7, <2>9 DEF AdminData, Given
    <3>2. \A v \in Users : user[v].isActive => user'[v].isActive
      BY <2>3, <2>4, <3>1 DEF Inv, Rest
    <3>3. CookiesWork' BY <2>4, <3>2, CookiesStay DEF AloneInv
    <3> QED BY <2>4, <3>3 DEF AloneKept
  <2> QED BY <2>8, <2>9
<1> QED BY <1>1, <1>2

\* A request that is alone leaves its tables as the next step expects them.
LEMMA AloneMoves ==
  ASSUME Inv, AloneInv, NEW w \in Workers, Accepts(w) \/ ~Idle(w),
         \A v \in Workers : v # w => tx'[v] = tx[v],
         UNCHANGED clients, Alone => AloneKept(w)
  PROVE  AloneInv'
<1>1. InFlight' \subseteq InFlight \cup {w} BY DEF InFlight, Idle
<1>2. IsFiniteSet(InFlight') BY <1>1, FS_AddElement, FS_Subset DEF AloneInv
<1>3. Alone' <=> Alone BY DEF Alone, Sent
<1>4. ASSUME Alone PROVE InFlight' \subseteq {w}
  <2>1. Accepts(w) => InFlight = {} BY <1>4, AcceptsAlone
  <2>2. ~Idle(w) => InFlight = {w} BY <1>4 DEF AloneInv, InFlight
  <2> QED BY <1>1, <2>1, <2>2
<1>5. w \in InFlight' => tx'[w] # Null BY DEF InFlight, Idle
<1>6. ASSUME Alone, NEW v \in InFlight' PROVE v = w /\ InFlight' = {w} /\ Kept(w)'
  BY <1>4, <1>5, <1>6 DEF AloneKept
<1>7. Alone => CookiesWork' BY DEF AloneKept
<1> QED BY <1>2, <1>3, <1>6, <1>7 DEF AloneInv

LEMMA OtherRequestsStay ==
  ASSUME Inv, NEW w \in Workers, Arrives(w) \/ Serves(w) \/ Lose(w)
  PROVE  UNCHANGED clients /\ \A v \in Workers : v # w => tx'[v] = tx[v]
<1>1. Arrives(w) => UNCHANGED clients /\ \A v \in Workers : v # w => tx'[v] = tx[v]
  BY DEF Arrives, SignInEmail, BeginRefresh, BeginLogout, BeginChangePassword,
         RequestPasswordReset, BeginVerifyEmail, BeginResetPassword, BeginUpdateAdminUser, Begin,
         Starts, registry, Inv
<1>2. Serves(w) \/ Lose(w) => UNCHANGED clients /\ \A v \in Workers : v # w => tx'[v] = tx[v]
  BY DEF Serves, CreateSession, LoginUser, FinishLogin, Refuse, RotateToken, RevokeSession,
         AnswerLogout, RevokeOtherSessions, CommitChangePassword, SetPassword,
         RevokeUserSessions, SetEmailVerified, RecordAuthAudit, RevokeSessions,
         CommitUpdateAdminUser, Receive, Continues, Commits, Lose, Goes, registry, Inv
<1> QED BY <1>1, <1>2

LEMMA AloneInvStep == Inv /\ AloneInv /\ [Next]_vars => AloneInv'
<1> SUFFICES ASSUME Inv, AloneInv, [Next]_vars PROVE AloneInv'
  OBVIOUS
<1>1. ChainStep BY StepKeeps
<1>2. ASSUME NEW w \in Workers, Arrives(w) PROVE AloneInv'
  BY <1>1, <1>2, ActionsOf, OtherRequestsStay, AloneArrivals, AloneMoves
<1>3. ASSUME NEW w \in Workers, Serves(w), Alone PROVE AloneKept(w)
  BY <1>1, <1>3, AloneSignIn, AloneRotation, AloneSignOut, AloneChangePassword, AloneReset,
     AloneUpdateAdminUser
  DEF Serves
<1>4. ASSUME NEW w \in Workers, Serves(w) PROVE AloneInv'
  BY <1>3, <1>4, ActionsOf, OtherRequestsStay, AloneMoves
<1>5. ASSUME NEW w \in Workers, Lose(w) PROVE AloneInv'
  BY <1>1, <1>5, ActionsOf, OtherRequestsStay, AloneReset, AloneMoves
<1>6. ASSUME Tick \/ UNCHANGED vars PROVE AloneInv'
  <2>1. UNCHANGED <<session, user, cookie, tx, clients>> BY <1>6 DEF Tick, vars, registry
  <2>2. InFlight' = InFlight BY <2>1 DEF InFlight, Idle
  <2>3. Alone' <=> Alone BY <2>1 DEF Alone, Sent
  <2>4. CookiesWork' <=> CookiesWork BY <2>1 DEF CookiesWork, OwnersActive, SessionWith
  <2>5. \A w \in InFlight : Kept(w)' <=> Kept(w)
    BY <2>1 DEF Kept, OwnersActive, SessionWith, SessionsOf
  <2> QED BY <2>2, <2>3, <2>4, <2>5 DEF AloneInv
<1> QED BY <1>2, <1>4, <1>5, <1>6 DEF Next

LEMMA AloneInvInit == Init => AloneInv
<1> SUFFICES ASSUME Init PROVE AloneInv
  OBVIOUS
<1>1. InFlight = {} BY DEF Init, InFlight, Idle
<1>2. CookiesWork BY DEF Init, CookiesWork, OwnersActive, SessionWith
<1> QED BY <1>1, <1>2, FS_EmptySet DEF AloneInv

LEMMA AloneInvariant == Spec => [](Inv /\ AloneInv)
BY InvInit, AloneInvInit, StepKeeps, AloneInvStep, PTL DEF Spec

(* Requests that run one at a time, lost ones included, leave no cookie     *)
(* that works for an account that is not active (auth.service.ts and        *)
(* users.service.ts).                                                       *)
THEOREM InactiveHoldNoCookieAlways == Spec => []InactiveHoldNoCookie
<1>1. AloneInv => InactiveHoldNoCookie
  BY DEF AloneInv, CookiesWork, OwnersActive, InactiveHoldNoCookie
<1> QED BY <1>1, AloneInvariant, PTL

(* A logout that succeeds, alone, has revoked the session its cookie stood  *)
(* for (auth.service.ts, logoutUser).                                       *)
THEOREM LogoutRevokesAlways == Spec => []LogoutRevokes
<1>1. Inv /\ AloneInv => LogoutRevokes BY AloneHolds DEF LogoutRevokes, Kept
<1> QED BY <1>1, AloneInvariant, PTL

(* A change of password, alone, keeps the session it was asked with         *)
(* (auth.service.ts, changePassword).                                       *)
THEOREM ChangeKeepsTheSessionAlways == Spec => ChangeKeepsTheSession
<1>1. ASSUME Inv, AloneInv, Alone, Next, NEW w \in Workers, ~Idle(w), tx[w].op = "changed",
             tx'[w] = Null, NEW s \in tx[w].line, session[s] # Null
      PROVE  session'[s] # Null
  <2>1. Tick \/ Serves(w) \/ Lose(w) BY <1>1, OnlyOneMoves DEF InFlight
  <2>2. CASE Tick \/ Lose(w) BY <1>1, <2>2 DEF Tick, Lose, registry
  <2>3. CASE Serves(w)
    <3>1. CommitChangePassword(w)
      BY <1>1, <2>3
      DEF Serves, CreateSession, LoginUser, FinishLogin, Refuse, RotateToken, RevokeSession,
          AnswerLogout, RevokeOtherSessions, SetPassword, RevokeUserSessions, SetEmailVerified,
          RecordAuthAudit, RevokeSessions, CommitUpdateAdminUser, Receive, Continues, Commits
    <3>2. s \notin tx[w].revoked /\ s \in Sessions
      BY <1>1, AloneHolds, HandledShapes DEF Kept
    <3> QED BY <1>1, <3>1, <3>2 DEF CommitChangePassword, Without
  <2> QED BY <2>1, <2>2, <2>3
<1>2. Inv /\ AloneInv /\ [Next]_vars =>
        [Alone => \A w \in Workers : ~Idle(w) /\ tx[w].op = "changed" /\ tx'[w] = Null =>
           \A s \in tx[w].line : session[s] # Null => session'[s] # Null]_vars
  BY <1>1
<1> QED BY <1>2, AloneInvariant, PTL DEF Spec, ChangeKeepsTheSession
=============================================================================
