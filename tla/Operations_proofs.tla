-------------------------- MODULE Operations_proofs --------------------------
(***************************************************************************)
(* What the processes beside the requests promise, for every number of     *)
(* requests, signals, purges, pages and rows: theorems of Operations.      *)
(*                                                                         *)
(* The server: exit code 0 is decided in three steps far apart.  The       *)
(* servers listened when the signal came, they have closed, and the pool   *)
(* has disconnected; SInv keeps what each found true until the flush.      *)
(*                                                                         *)
(* The log: AInv adds to what is promised that ids are given once, so that *)
(* a row that left the log never comes back; that a purge goes on with     *)
(* rows it archived as long as they are there; and that the cursor of a    *)
(* listing stands at its last row.  A page is the head of the rows in      *)
(* order, placed by how many come before them; what the runs erased is a   *)
(* sum over a set, shown to count units.                                   *)
(*                                                                         *)
(* The cleanup needs its types alone; what is said of a stored activity    *)
(* and the clock is in StatusOverTime_proofs.                              *)
(***************************************************************************)
EXTENDS Operations, StatusOverTime_proofs, FiniteSetTheorems, FunctionTheorems,
        WellFoundedInduction, TLAPS

-----------------------------------------------------------------------------
(* The server. *)

Closing(s) == server[s] \in {"closing", "closed"}
AllClosed == \A s \in Servers : server[s] = "closed"

\* A closed server serves no request.
ClosedServesNobody == \A s \in Servers : server[s] = "closed" => inFlight[s] = 0

\* A shutdown that promises code 0 found every server listening, and goes on
\* only when they have closed.
PromisedCode ==
  shuttingDown # Null /\ shuttingDown.code = 0 =>
    /\ \A s \in Servers : Closing(s)
    /\ shuttingDown.step # "closing" => AllClosed

\* Code 0 is flushed after the last step of such a shutdown.
FlushedCode ==
  0 \in exiting =>
    /\ shuttingDown # Null /\ shuttingDown.step = "done"
    /\ AllClosed /\ ~connected

EndedByFlush == exitCode # Null => exitCode \in exiting

SInv == ServerTypeOK /\ ClosedServesNobody /\ PromisedCode /\ FlushedCode /\ EndedByFlush

-----------------------------------------------------------------------------
\* The server before it listens.
LEMMA SInvInit == ServerInit => SInv
<1> SUFFICES ASSUME ServerInit PROVE SInv
  OBVIOUS
<1>1. PICK enabled \in {{API}, {API, Metrics}} :
        server = [s \in enabled |-> IF s = API THEN "binding" ELSE "new"]
  BY DEF ServerInit
<1>2. ServerTypeOK
  <2>1. Servers = enabled BY <1>1 DEF Servers
  <2>2. server \in [Servers -> {"new", "binding", "listening", "closing", "closed"}]
    BY <1>1, <2>1
  <2>3. inFlight \in [{API, Metrics} -> 0..MaxRequests]
    BY ServerLifecycleAssumption DEF ServerInit
  <2>4. signals \in 0..MaxSignals
    BY ServerLifecycleAssumption DEF ServerInit
  <2> QED BY <2>1, <2>2, <2>3, <2>4 DEF ServerInit, ServerTypeOK
<1>3. \A s \in Servers : server[s] # "closed"
  BY <1>1 DEF Servers
<1> QED
  BY <1>2, <1>3 DEF SInv, ServerInit, ClosedServesNobody, PromisedCode, FlushedCode, EndedByFlush

\* The names of the servers are two, and every server is one of them.
LEMMA ServerNames ==
  ServerTypeOK => API # Metrics /\ API \in Servers /\ Servers \subseteq {API, Metrics}
BY DEF ServerTypeOK, API, Metrics

-----------------------------------------------------------------------------
\* No server beyond the two, no request beyond the bound, no other exit code.
LEMMA TypesStep == ServerTypeOK /\ [ServerNext]_serverVars => ServerTypeOK'
<1> SUFFICES ASSUME ServerTypeOK, [ServerNext]_serverVars PROVE ServerTypeOK'
  OBVIOUS
<1> USE ServerLifecycleAssumption
<1> DEFINE States == {"new", "binding", "listening", "closing", "closed"}
<1>0. /\ server \in [Servers -> States] /\ Servers \in {{API}, {API, Metrics}}
      /\ inFlight \in [{API, Metrics} -> 0..MaxRequests]
  BY DEF ServerTypeOK
<1>a. ASSUME server' \in [Servers -> States]
      PROVE  /\ (Servers \in {{API}, {API, Metrics}})'
             /\ (server \in [Servers -> {"new", "binding", "listening", "closing", "closed"}])'
  BY <1>0, <1>a DEF Servers
<1>b. ASSUME NEW closed PROVE closeServers(closed) => server' \in [Servers -> States]
  BY <1>0 DEF closeServers
<1>1. ASSUME NEW s \in Servers, Listening(s) PROVE ServerTypeOK'
  <2>1. server' \in [Servers -> States] BY <1>1, <1>0 DEF Listening
  <2> QED BY <2>1, <1>a, <1>1 DEF Listening, ServerTypeOK
<1>2. ASSUME NEW s \in Servers, Accept(s) PROVE ServerTypeOK'
  <2>1. inFlight' \in [{API, Metrics} -> 0..MaxRequests]
    BY <1>0, <1>2, ServerNames DEF Accept
  <2> QED BY <2>1, <1>2 DEF Accept, ServerTypeOK, Servers
<1>3. ASSUME NEW s \in Servers, Answer(s) PROVE ServerTypeOK'
  <2>1. inFlight' \in [{API, Metrics} -> 0..MaxRequests]
    BY <1>0, <1>3, ServerNames DEF Answer
  <2> QED BY <2>1, <1>3 DEF Answer, ServerTypeOK, Servers
<1>4. ASSUME NEW s \in Servers, Closed(s) PROVE ServerTypeOK'
  <2>1. server' \in [Servers -> States] BY <1>4, <1>0 DEF Closed
  <2> QED BY <2>1, <1>a, <1>4 DEF Closed, ServerTypeOK
<1>5. ASSUME ListenFails PROVE ServerTypeOK'
  <2>1. server' \in [Servers -> States] BY <1>5, <1>0 DEF ListenFails
  <2> QED BY <2>1, <1>a, <1>5 DEF ListenFails, exitWithFlush, ServerTypeOK
<1>6. ASSUME MetricsFail PROVE ServerTypeOK'
  <2>1. server' \in [Servers -> States] BY <1>6, <1>b DEF MetricsFail
  <2> QED BY <2>1, <1>a, <1>6 DEF MetricsFail, ServerTypeOK
<1>7. ASSUME StartFails PROVE ServerTypeOK'
  BY <1>7 DEF StartFails, exitWithFlush, ServerTypeOK, Servers
<1>8. ASSUME shutdown PROVE ServerTypeOK'
  <2>1. server' \in [Servers -> States] BY <1>8, <1>b, <1>0 DEF shutdown
  <2>2. shuttingDown' \in {Null} \cup Shutdowns
    <3>1. CASE shuttingDown # Null BY <3>1, <1>8 DEF shutdown, ServerTypeOK
    <3>2. CASE shuttingDown = Null
      <4> DEFINE c == IF \A s \in Servers : server[s] = "listening" THEN 0 ELSE 1
      <4>1. shuttingDown' = [step |-> "closing", code |-> c] BY <3>2, <1>8 DEF shutdown
      <4>2. c \in {0, 1} OBVIOUS
      <4> HIDE DEF c
      <4> QED BY <4>1, <4>2 DEF Shutdowns
    <3> QED BY <3>1, <3>2
  <2>3. signals' \in 0..MaxSignals
    <3>1. signals < MaxSignals /\ signals' = signals + 1 BY <1>8 DEF shutdown
    <3>2. signals \in 0..MaxSignals BY DEF ServerTypeOK
    <3> QED BY <3>1, <3>2
  <2>4. deadline' \in BOOLEAN
    <3>1. deadline' = deadline \/ deadline' = TRUE BY <1>8 DEF shutdown
    <3> QED BY <3>1 DEF ServerTypeOK
  <2> QED BY <2>1, <2>2, <2>3, <2>4, <1>a, <1>8 DEF shutdown, ServerTypeOK
<1>9. ASSUME Settled PROVE ServerTypeOK'
  <2>1. shuttingDown' \in Shutdowns BY <1>9 DEF Settled, ServerTypeOK, Shutdowns
  <2> QED BY <2>1, <1>9 DEF Settled, ServerTypeOK, Servers
<1>10. ASSUME Forced PROVE ServerTypeOK'
  BY <1>10 DEF Forced, exitWithFlush, ServerTypeOK, Servers
<1>11. ASSUME Fatal PROVE ServerTypeOK'
  BY <1>11 DEF Fatal, exitWithFlush, ServerTypeOK, Servers
<1>12. ASSUME NEW ok \in BOOLEAN, Disconnected(ok) PROVE ServerTypeOK'
  <2>1. shuttingDown \in Shutdowns /\ shuttingDown' \in Shutdowns
    BY <1>12 DEF Disconnected, ServerTypeOK, Shutdowns
  <2>2. exiting' \subseteq {0, 1}
    BY <2>1, <1>12 DEF Disconnected, exitWithFlush, ServerTypeOK, Shutdowns
  <2>3. connected' \in BOOLEAN BY <1>12 DEF Disconnected
  <2> QED BY <2>1, <2>2, <2>3, <1>12 DEF Disconnected, ServerTypeOK, Servers
<1>13. ASSUME NEW code \in {0, 1}, Exit(code) PROVE ServerTypeOK'
  BY <1>13 DEF Exit, ServerTypeOK, Servers
<1>14. CASE UNCHANGED serverVars
  BY <1>14 DEF serverVars, ServerTypeOK, Servers
<1> QED
  BY <1>1, <1>2, <1>3, <1>4, <1>5, <1>6, <1>7, <1>8, <1>9, <1>10, <1>11, <1>12, <1>13, <1>14
  DEF ServerNext

-----------------------------------------------------------------------------
\* No step serves a request on a closed server, or opens it again.
LEMMA ClosedStep ==
  ServerTypeOK /\ ClosedServesNobody /\ ServerNext => ClosedServesNobody'
<1> SUFFICES ASSUME ServerTypeOK, ClosedServesNobody, ServerNext,
                    NEW s \in Servers', server'[s] = "closed"
             PROVE  inFlight'[s] = 0
  BY DEF ClosedServesNobody
<1>0. /\ server \in [Servers -> {"new", "binding", "listening", "closing", "closed"}]
      /\ inFlight \in [{API, Metrics} -> 0..MaxRequests]
  BY DEF ServerTypeOK
<1> USE DEF ClosedServesNobody, Servers
<1>1. ASSUME NEW x \in Servers, Listening(x) PROVE inFlight'[s] = 0
  BY <1>1, <1>0 DEF Listening
<1>2. ASSUME NEW x \in Servers, Accept(x) PROVE inFlight'[s] = 0
  BY <1>2, <1>0, ServerNames DEF Accept
<1>3. ASSUME NEW x \in Servers, Answer(x) PROVE inFlight'[s] = 0
  BY <1>3, <1>0, ServerNames DEF Answer
<1>4. ASSUME NEW x \in Servers, Closed(x) PROVE inFlight'[s] = 0
  BY <1>4, <1>0 DEF Closed
<1>5. CASE ListenFails BY <1>5, <1>0 DEF ListenFails
<1>6. CASE MetricsFail BY <1>6, <1>0 DEF MetricsFail, closeServers
<1>7. CASE shutdown BY <1>7, <1>0 DEF shutdown, closeServers
<1>8. CASE UNCHANGED <<server, inFlight>> BY <1>8
<1>9. ASSUME NEW ok \in BOOLEAN, Disconnected(ok) PROVE UNCHANGED <<server, inFlight>>
  BY <1>9 DEF Disconnected
<1>10. ASSUME NEW code \in {0, 1}, Exit(code) PROVE UNCHANGED <<server, inFlight>>
  BY <1>10 DEF Exit
<1> QED
  BY <1>1, <1>2, <1>3, <1>4, <1>5, <1>6, <1>7, <1>8, <1>9, <1>10
  DEF ServerNext, StartFails, Settled, Forced, Fatal

\* While servers close or are closed, no step changes one except by closing it.
LEMMA ClosingStays ==
  ASSUME ServerTypeOK, ServerNext, \A s \in Servers : Closing(s)
  PROVE  /\ Servers' = Servers
         /\ \A s \in Servers : Closing(s)' /\ (server[s] = "closed" => server'[s] = "closed")
<1>0. server \in [Servers -> {"new", "binding", "listening", "closing", "closed"}]
  BY DEF ServerTypeOK
<1> USE DEF Closing, Servers
<1>1. ASSUME NEW x \in Servers, Closed(x)
      PROVE  /\ Servers' = Servers
             /\ \A s \in Servers : Closing(s)' /\ (server[s] = "closed" => server'[s] = "closed")
  BY <1>1, <1>0 DEF Closed
<1>2. ASSUME closeServers({API}) \/ closeServers(Servers) PROVE server' = server
  <2>1. \A s \in Servers : server[s] # "listening" OBVIOUS
  <2> QED BY <2>1, <1>2, <1>0 DEF closeServers
<1>3. \A x \in Servers : ~Listening(x) /\ ~Accept(x) BY DEF Listening, Accept
<1>4. ~ListenFails BY ServerNames DEF ListenFails
<1>5. ASSUME NEW x \in Servers, Answer(x) PROVE server' = server BY <1>5 DEF Answer
<1>6. ASSUME NEW ok \in BOOLEAN, Disconnected(ok) PROVE server' = server
  BY <1>6 DEF Disconnected
<1>7. ASSUME NEW code \in {0, 1}, Exit(code) PROVE server' = server BY <1>7 DEF Exit
<1>8. MetricsFail \/ shutdown => server' = server BY <1>2 DEF MetricsFail, shutdown
<1>9. StartFails \/ Settled \/ Forced \/ Fatal => server' = server
  BY DEF StartFails, Settled, Forced, Fatal
<1>10. server' = server \/ \E x \in Servers : Closed(x)
  BY <1>3, <1>4, <1>5, <1>6, <1>7, <1>8, <1>9 DEF ServerNext
<1> QED BY <1>1, <1>10

\* The step of a shutdown moves by these three actions alone.
LEMMA ShutdownSteps ==
  ASSUME ServerTypeOK, ServerNext
  PROVE  \/ shutdown \/ Settled
         \/ \E ok \in BOOLEAN : Disconnected(ok)
         \/ /\ UNCHANGED <<shuttingDown, connected>>
            /\ 0 \in exiting' => 0 \in exiting
<1>1. ASSUME NEW s \in Servers, Listening(s) \/ Accept(s) \/ Answer(s) \/ Closed(s)
      PROVE  UNCHANGED <<shuttingDown, connected, exiting>>
  BY <1>1 DEF Listening, Accept, Answer, Closed
<1>2. ListenFails \/ StartFails \/ Forced \/ Fatal =>
        UNCHANGED <<shuttingDown, connected>> /\ (0 \in exiting' => 0 \in exiting)
  <2>1. exitWithFlush(1) => (0 \in exiting' => 0 \in exiting) BY DEF exitWithFlush
  <2> QED BY <2>1 DEF ListenFails, StartFails, Forced, Fatal
<1>3. MetricsFail => UNCHANGED <<shuttingDown, connected, exiting>> BY DEF MetricsFail
<1>4. ASSUME NEW code \in {0, 1}, Exit(code)
      PROVE  UNCHANGED <<shuttingDown, connected, exiting>>
  BY <1>4 DEF Exit
<1> QED BY <1>1, <1>2, <1>3, <1>4 DEF ServerNext

\* Each step of a shutdown finds what the one before it promised.
LEMMA PromiseStep ==
  SInv /\ ServerNext => PromisedCode' /\ FlushedCode'
<1> SUFFICES ASSUME SInv, ServerNext PROVE PromisedCode' /\ FlushedCode'
  OBVIOUS
<1>0. ServerTypeOK /\ PromisedCode /\ FlushedCode BY DEF SInv
<1>a. shuttingDown \in {Null} \cup Shutdowns
      /\ server \in [Servers -> {"new", "binding", "listening", "closing", "closed"}]
  BY <1>0 DEF ServerTypeOK
<1>b. ASSUME \A s \in Servers : Closing(s)
      PROVE  /\ \A s \in Servers' : Closing(s)'
             /\ AllClosed => AllClosed'
  BY <1>0, <1>b, ClosingStays DEF AllClosed
<1>c. AllClosed => \A s \in Servers : Closing(s) BY DEF AllClosed, Closing
<1>1. CASE shutdown
  <2>1. CASE shuttingDown # Null
    <3>1. UNCHANGED <<shuttingDown, exiting, connected>> BY <2>1, <1>1 DEF shutdown
    <3> QED BY <3>1, <1>0, <1>b, <1>c DEF PromisedCode, FlushedCode
  <2>2. CASE shuttingDown = Null
    <3>1. 0 \notin exiting' BY <2>2, <1>1, <1>0 DEF shutdown, FlushedCode
    <3> DEFINE c == IF \A s \in Servers : server[s] = "listening" THEN 0 ELSE 1
    <3>2. shuttingDown' = [step |-> "closing", code |-> c] /\ closeServers(Servers)
      BY <2>2, <1>1 DEF shutdown
    <3>3. c = 0 => \A s \in Servers : server[s] = "listening" OBVIOUS
    <3> HIDE DEF c
    <3>4. c = 0 => \A s \in Servers' : Closing(s)'
      BY <3>2, <3>3, <1>a DEF closeServers, Closing, Servers
    <3> QED BY <3>1, <3>2, <3>4 DEF PromisedCode, FlushedCode
  <2> QED BY <2>1, <2>2
<1>2. CASE Settled
  <2>1. /\ shuttingDown # Null /\ shuttingDown.step = "closing"
        /\ \A s \in Servers : server[s] # "closing"
        /\ shuttingDown' = [shuttingDown EXCEPT !.step = "disconnecting"]
        /\ UNCHANGED <<server, exiting>>
    BY <1>2 DEF Settled
  <2>2. shuttingDown \in Shutdowns BY <2>1, <1>a
  <2>3. shuttingDown'.code = shuttingDown.code BY <2>1, <2>2 DEF Shutdowns
  <2>4. 0 \notin exiting' BY <2>1, <1>0 DEF FlushedCode
  <2>5. shuttingDown.code = 0 => AllClosed
    BY <2>1, <1>0 DEF PromisedCode, Closing, AllClosed
  <2>6. shuttingDown.code = 0 => AllClosed' /\ \A s \in Servers' : Closing(s)'
    BY <2>5, <2>1 DEF AllClosed, Closing, Servers
  <2> QED BY <2>3, <2>4, <2>6 DEF PromisedCode, FlushedCode
<1>3. ASSUME NEW ok \in BOOLEAN, Disconnected(ok) PROVE PromisedCode' /\ FlushedCode'
  <2>1. /\ shuttingDown # Null /\ shuttingDown.step = "disconnecting"
        /\ connected' = ~ok
        /\ shuttingDown' = [shuttingDown EXCEPT !.step = "done"]
        /\ exiting' = exiting \cup {IF ok THEN shuttingDown.code ELSE 1}
        /\ UNCHANGED server
    BY <1>3 DEF Disconnected, exitWithFlush
  <2>2. shuttingDown \in Shutdowns BY <2>1, <1>a
  <2>3. shuttingDown'.code = shuttingDown.code /\ shuttingDown'.step = "done"
        /\ shuttingDown' \in Shutdowns
    BY <2>1, <2>2 DEF Shutdowns
  <2>4. shuttingDown' # Null BY <2>3, ServerLifecycleAssumption
  <2>5. 0 \notin exiting BY <2>1, <1>0 DEF FlushedCode
  <2>6. shuttingDown.code = 0 => AllClosed /\ \A s \in Servers : Closing(s)
    BY <2>1, <1>0 DEF PromisedCode
  <2>7. shuttingDown.code = 0 => AllClosed' /\ \A s \in Servers' : Closing(s)'
    BY <2>6, <2>1 DEF AllClosed, Closing, Servers
  <2>8. PromisedCode' BY <2>3, <2>7 DEF PromisedCode
  <2>9. 0 \in exiting' => ok /\ shuttingDown.code = 0 BY <2>1, <2>5
  <2> QED BY <2>8, <2>9, <2>1, <2>3, <2>4, <2>7 DEF FlushedCode
<1>4. CASE UNCHANGED <<shuttingDown, connected>> /\ (0 \in exiting' => 0 \in exiting)
  BY <1>4, <1>0, <1>b, <1>c DEF PromisedCode, FlushedCode
<1> QED BY <1>1, <1>2, <1>3, <1>4, <1>0, ShutdownSteps

\* A process ends with a code whose flush began, and takes no further step.
LEMMA EndStep == EndedByFlush /\ ServerNext => EndedByFlush'
<1> SUFFICES ASSUME EndedByFlush, ServerNext PROVE EndedByFlush'
  OBVIOUS
<1>1. ASSUME NEW s \in Servers, Listening(s) \/ Accept(s) \/ Answer(s) \/ Closed(s)
      PROVE  exitCode' = Null
  BY <1>1 DEF Listening, Accept, Answer, Closed, Running
<1>2. ListenFails \/ MetricsFail \/ StartFails \/ shutdown \/ Settled \/ Forced \/ Fatal =>
        exitCode' = Null
  BY DEF ListenFails, MetricsFail, StartFails, shutdown, Settled, Forced, Fatal, Running
<1>3. ASSUME NEW ok \in BOOLEAN, Disconnected(ok) PROVE exitCode' = Null
  BY <1>3 DEF Disconnected, Running
<1>4. ASSUME NEW code \in {0, 1}, Exit(code) PROVE exitCode' \in exiting'
  BY <1>4 DEF Exit
<1> QED BY <1>1, <1>2, <1>3, <1>4 DEF ServerNext, EndedByFlush

\* Every step of the server.
LEMMA ServerStep == SInv /\ [ServerNext]_serverVars => SInv'
<1>1. ServerNext /\ SInv => SInv'
  BY TypesStep, ClosedStep, PromiseStep, EndStep DEF SInv
<1>2. UNCHANGED serverVars /\ SInv => SInv'
  <2> SUFFICES ASSUME UNCHANGED serverVars, SInv PROVE SInv'
    OBVIOUS
  <2>1. ServerTypeOK' BY TypesStep DEF SInv
  <2> QED
    BY <2>1 DEF SInv, serverVars, ClosedServesNobody, PromisedCode, FlushedCode, EndedByFlush,
                AllClosed, Closing, Servers
<1> QED BY <1>1, <1>2

\* What the invariant says of a process that ended with code 0.
LEMMA CleanEnd == SInv => CleanExit
<1> SUFFICES ASSUME SInv, exitCode = 0
             PROVE  (\A s \in Servers : server[s] = "closed" /\ inFlight[s] = 0) /\ ~connected
  BY DEF CleanExit
<1>1. 0 \in exiting
  BY ServerLifecycleAssumption DEF SInv, EndedByFlush
<1> QED BY <1>1 DEF SInv, FlushedCode, AllClosed, ClosedServesNobody

-----------------------------------------------------------------------------
(* The audit log. *)

PurgeRun == [step : {"archiving", "deleting"}, rows : Seq(Event), purged : Nat]
Cursor == [t : 0..MaxTime, i : EventIds]

\* The rows of the log are finitely many, no id is given twice, and what is erased,
\* or not committed yet, is not in the log.
RowsAreDistinct ==
  /\ IsFiniteSet(events) /\ IsFiniteSet(erased)
  /\ \A e, f \in events \cup writing \cup erased : e.id = f.id => e = f
  /\ writing \cap (events \cup erased) = {} /\ events \cap erased = {}

\* What a run is about to erase, once it has planned.
Planned(r) ==
  /\ r \in PurgeRun
  /\ ToSet(r.rows) \subseteq events \cup erased
  /\ \A e \in ToSet(r.rows) : e.occurredAt < clock - Retention
  /\ r.step = "deleting" => ToSet(r.rows) \cap events \subseteq archived

PurgesArePlanned ==
  /\ DOMAIN purge = Purgers
  /\ \A p \in Purgers : purge[p] # Null => Planned(purge[p])

\* The walk of an administrator, as far as it has come.
WalkIsKept ==
  listing # Null =>
    /\ DOMAIN listing = {"query", "stored", "items", "nextCursor", "pages"}
    /\ listing.stored \subseteq events \cup erased
    /\ listing.nextCursor # Null =>
         listing.items # <<>> /\ listing.nextCursor = encodeAuditCursor(Last(listing.items))

AInv ==
  /\ AuditTypeOK /\ PagesAreComplete /\ AuditErasuresAreAccounted
  /\ RowsAreDistinct /\ PurgesArePlanned /\ WalkIsKept

-----------------------------------------------------------------------------
(* Rows in an order. *)

Rank(S, R, e) == Cardinality({f \in S : <<f, e>> \in R})

IsOrder(S, R) ==
  /\ \A e \in S : <<e, e>> \notin R
  /\ \A e, f, g \in S : <<e, f>> \in R /\ <<f, g>> \in R => <<e, g>> \in R
  /\ \A e, f \in S : e # f => <<e, f>> \in R \/ <<f, e>> \in R

\* A row has fewer rows before it than there are.
LEMMA RankBelow ==
  ASSUME NEW S, IsFiniteSet(S), NEW R, IsOrder(S, R), NEW e \in S
  PROVE  Cardinality(S) \in Nat /\ Rank(S, R, e) \in Nat /\ Rank(S, R, e) < Cardinality(S)
<1> DEFINE B == {f \in S : <<f, e>> \in R}
<1>1. B \subseteq S /\ B # S BY DEF IsOrder
<1> HIDE DEF B
<1>2. IsFiniteSet(B) /\ Cardinality(B) <= Cardinality(S) /\ Cardinality(B) # Cardinality(S)
  BY <1>1, FS_Subset
<1>3. Cardinality(B) \in Nat /\ Cardinality(S) \in Nat BY <1>2, FS_CardinalityType
<1>4. Rank(S, R, e) = Cardinality(B) BY DEF Rank, B
<1> QED BY <1>2, <1>3, <1>4

\* A row that comes before another has fewer before it.
LEMMA RankOrders ==
  ASSUME NEW S, IsFiniteSet(S), NEW R, IsOrder(S, R), NEW e \in S, NEW f \in S, <<e, f>> \in R
  PROVE  Rank(S, R, e) < Rank(S, R, f)
<1> DEFINE B == {g \in S : <<g, e>> \in R}
           C == {g \in S : <<g, f>> \in R}
<1>1. B \subseteq C /\ B # C BY DEF IsOrder
<1>2. C \subseteq S OBVIOUS
<1> HIDE DEF B, C
<1>3. IsFiniteSet(C) BY <1>2, FS_Subset
<1>4. IsFiniteSet(B) /\ Cardinality(B) <= Cardinality(C) /\ Cardinality(B) # Cardinality(C)
  BY <1>1, <1>3, FS_Subset
<1>5. Cardinality(B) \in Nat /\ Cardinality(C) \in Nat BY <1>3, <1>4, FS_CardinalityType
<1>6. Rank(S, R, e) = Cardinality(B) /\ Rank(S, R, f) = Cardinality(C) BY DEF Rank, B, C
<1> QED BY <1>4, <1>5, <1>6

\* There is a row for every place: no two share one, and there are as many.
LEMMA RankOnto ==
  ASSUME NEW S, IsFiniteSet(S), NEW R, IsOrder(S, R)
  PROVE  \A k \in 1 .. Cardinality(S) : \E e \in S : Rank(S, R, e) = k - 1
<1>1. PICK n \in Nat : n = Cardinality(S) BY FS_CardinalityType
<1>2. IsFiniteSet(1 .. n) /\ Cardinality(1 .. n) = n
  <2>1. Cardinality(1 .. n) = IF 1 > n THEN 0 ELSE n - 1 + 1 BY FS_Interval
  <2> QED BY <2>1, FS_Interval
<1> DEFINE h == [e \in S |-> Rank(S, R, e) + 1]
<1>3. h \in [S -> 1 .. n] BY <1>1, RankBelow
<1>4. ASSUME NEW e \in S, NEW f \in S, h[e] = h[f] PROVE e = f
  <2>1. Rank(S, R, e) \in Nat /\ Rank(S, R, f) \in Nat BY RankBelow
  <2>2. Rank(S, R, e) = Rank(S, R, f) BY <1>4, <2>1
  <2>3. ~ <<e, f>> \in R /\ ~ <<f, e>> \in R BY <2>1, <2>2, RankOrders
  <2> QED BY <2>3 DEF IsOrder
<1>5. DOMAIN h = S /\ \A e \in S : h[e] = Rank(S, R, e) + 1 OBVIOUS
<1> HIDE DEF h
<1>6. h \in Injection(S, 1 .. n) BY <1>3, <1>4, <1>5 DEF Injection, IsInjective
<1>7. h \in Surjection(S, 1 .. n) BY <1>1, <1>2, <1>6, FS_Injection
<1>8. ASSUME NEW k \in 1 .. n PROVE \E e \in S : Rank(S, R, e) = k - 1
  <2>1. PICK e \in S : h[e] = k BY <1>7 DEF Surjection
  <2>2. Rank(S, R, e) \in Nat BY RankBelow
  <2> QED BY <1>5, <2>1, <2>2
<1> QED BY <1>1, <1>8

\* The rows placed by their rank are all the rows, each once, in the order.
LEMMA PlacedInOrder ==
  ASSUME NEW S, IsFiniteSet(S), NEW R, IsOrder(S, R), NEW s,
         s = [k \in 1 .. Cardinality(S) |-> CHOOSE e \in S : Rank(S, R, e) = k - 1]
  PROVE  /\ Cardinality(S) \in Nat /\ DOMAIN s = 1 .. Cardinality(S)
         /\ \A k \in DOMAIN s : s[k] \in S
         /\ ToSet(s) = S
         /\ \A i, j \in DOMAIN s : i < j => <<s[i], s[j]>> \in R
<1>1. PICK n \in Nat : n = Cardinality(S) BY FS_CardinalityType
<1>2. DOMAIN s = 1 .. n BY <1>1
<1>3. ASSUME NEW k \in 1 .. n PROVE s[k] \in S /\ Rank(S, R, s[k]) = k - 1
  <2>1. s[k] = CHOOSE e \in S : Rank(S, R, e) = k - 1 BY <1>1
  <2>2. \E e \in S : Rank(S, R, e) = k - 1 BY <1>1, RankOnto
  <2> QED BY <2>1, <2>2
<1>4. \A e, f \in S : Rank(S, R, e) = Rank(S, R, f) => e = f
  <2> SUFFICES ASSUME NEW e \in S, NEW f \in S, Rank(S, R, e) = Rank(S, R, f), e # f
               PROVE FALSE
    OBVIOUS
  <2>1. Rank(S, R, e) \in Nat BY RankBelow
  <2>2. ~ <<e, f>> \in R /\ ~ <<f, e>> \in R BY <2>1, RankOrders
  <2> QED BY <2>2 DEF IsOrder
<1>5. ASSUME NEW e \in S PROVE \E k \in 1 .. n : s[k] = e
  <2>1. PICK r \in Nat : r = Rank(S, R, e) /\ r < n BY <1>1, RankBelow
  <2>2. r + 1 \in 1 .. n /\ (r + 1) - 1 = r BY <2>1
  <2>3. s[r + 1] \in S /\ Rank(S, R, s[r + 1]) = r BY <1>3, <2>2
  <2> QED BY <1>4, <2>1, <2>2, <2>3
<1>6. ToSet(s) = S BY <1>2, <1>3, <1>5 DEF ToSet
<1>7. ASSUME NEW i \in 1 .. n, NEW j \in 1 .. n, i < j PROVE <<s[i], s[j]>> \in R
  <2>1. /\ s[i] \in S /\ Rank(S, R, s[i]) = i - 1
        /\ s[j] \in S /\ Rank(S, R, s[j]) = j - 1
    BY <1>3
  <2>2. s[i] # s[j] BY <1>7, <2>1
  <2>3. ~ <<s[j], s[i]>> \in R
    <3>1. <<s[j], s[i]>> \in R => Rank(S, R, s[j]) < Rank(S, R, s[i]) BY <2>1, RankOrders
    <3> QED BY <1>7, <2>1, <3>1
  <2> QED BY <2>1, <2>2, <2>3 DEF IsOrder
<1> QED BY <1>1, <1>2, <1>3, <1>6, <1>7

-----------------------------------------------------------------------------
(* The log in its two orders. *)

Newest == {p \in Event \X Event : Newer(p[1], p[2])}
Oldest == {p \in Event \X Event : Newer(p[2], p[1])}

Distinct(rows) == \A e, f \in rows : e.id = f.id => e = f

\* Instants and ids are numbers.
LEMMA EventsTyped ==
  \A e \in Event : e.id \in Nat /\ e.id \in EventIds /\ e.occurredAt \in Nat
                   /\ e.occurredAt \in 0 .. MaxTime
<1>1. EventIds \subseteq Nat /\ MaxTime \in Nat BY AuditAssumption
<1>2. ASSUME NEW e \in Event
      PROVE  e.id \in EventIds /\ e.occurredAt \in 0 .. MaxTime
  BY <1>2 DEF Event
<1>3. 0 .. MaxTime \subseteq Nat BY <1>1
<1> QED BY <1>1, <1>2, <1>3

\* Events are ordered by instant and id, both ways.
LEMMA EventsInOrder ==
  ASSUME NEW S \in SUBSET Event, Distinct(S)
  PROVE  IsOrder(S, Newest) /\ IsOrder(S, Oldest)
<1>1. \A e, f \in S : /\ <<e, f>> \in Newest <=> Newer(e, f)
                      /\ <<e, f>> \in Oldest <=> Newer(f, e)
  BY DEF Newest, Oldest
<1>2. \A e \in S : ~ Newer(e, e) BY EventsTyped DEF Newer
<1>3. \A e, f, g \in S : Newer(e, f) /\ Newer(f, g) => Newer(e, g) BY EventsTyped DEF Newer
<1>4. \A e, f \in S : e # f => Newer(e, f) \/ Newer(f, e)
  <2>1. \A e, f \in S : e # f => e.id # f.id BY DEF Distinct
  <2> QED BY <2>1, EventsTyped DEF Newer
<1> HIDE DEF Newest, Oldest
<1>5. IsOrder(S, Newest) BY <1>1, <1>2, <1>3, <1>4 DEF IsOrder
<1>6. IsOrder(S, Oldest) BY <1>1, <1>2, <1>3, <1>4 DEF IsOrder
<1> QED BY <1>5, <1>6

\* A listing shows the rows of its query, each once, the newest first.
LEMMA NewestFirstLists ==
  ASSUME NEW S \in SUBSET Event, IsFiniteSet(S), Distinct(S), NEW s, s = NewestFirst(S)
  PROVE  /\ s \in Seq(S) /\ Len(s) = Cardinality(S) /\ Len(s) \in Nat /\ DOMAIN s = 1 .. Len(s)
         /\ ToSet(s) = S
         /\ \A i, j \in DOMAIN s : i < j => Newer(s[i], s[j])
<1>1. IsOrder(S, Newest) BY EventsInOrder
<1>2. \A e \in S : Cardinality({f \in S : Newer(f, e)}) = Rank(S, Newest, e)
  <2> SUFFICES ASSUME NEW e \in S
               PROVE  {f \in S : Newer(f, e)} = {f \in S : <<f, e>> \in Newest}
    BY DEF Rank
  <2> QED BY DEF Newest
<1>3. s = [k \in 1 .. Cardinality(S) |-> CHOOSE e \in S : Rank(S, Newest, e) = k - 1]
  <2>1. s = [k \in 1 .. Cardinality(S) |->
               CHOOSE e \in S : Cardinality({f \in S : Newer(f, e)}) = k - 1]
    BY DEF NewestFirst, Ordered
  <2>2. ASSUME NEW k
        PROVE  (CHOOSE e \in S : Cardinality({f \in S : Newer(f, e)}) = k - 1)
                 = (CHOOSE e \in S : Rank(S, Newest, e) = k - 1)
    BY <1>2
  <2> QED BY <2>1, <2>2
<1> HIDE DEF Newest
<1>4. /\ Cardinality(S) \in Nat /\ DOMAIN s = 1 .. Cardinality(S)
      /\ \A k \in DOMAIN s : s[k] \in S
      /\ ToSet(s) = S
      /\ \A i, j \in DOMAIN s : i < j => <<s[i], s[j]>> \in Newest
  BY <1>1, <1>3, PlacedInOrder
<1>5. s \in [1 .. Cardinality(S) -> S] BY <1>3, <1>4
<1>6. s \in Seq(S) /\ Len(s) = Cardinality(S) BY <1>4, <1>5
<1> QED BY <1>4, <1>6 DEF Newest

\* A purge plans the rows before its cutoff, each once.
LEMMA OldestFirstNames ==
  ASSUME NEW S \in SUBSET Event, IsFiniteSet(S), Distinct(S),
         NEW s, s = OldestFirst(S)
  PROVE  s \in Seq(S) /\ ToSet(s) = S
<1>1. IsOrder(S, Oldest) BY EventsInOrder
<1>2. \A e \in S : Cardinality({f \in S : Older(f, e)}) = Rank(S, Oldest, e)
  <2> SUFFICES ASSUME NEW e \in S
               PROVE  {f \in S : Older(f, e)} = {f \in S : <<f, e>> \in Oldest}
    BY DEF Rank
  <2> QED BY DEF Oldest, Older
<1>3. s = [k \in 1 .. Cardinality(S) |-> CHOOSE e \in S : Rank(S, Oldest, e) = k - 1]
  <2>1. s = [k \in 1 .. Cardinality(S) |->
               CHOOSE e \in S : Cardinality({f \in S : Older(f, e)}) = k - 1]
    BY DEF OldestFirst, Ordered
  <2>2. ASSUME NEW k
        PROVE  (CHOOSE e \in S : Cardinality({f \in S : Older(f, e)}) = k - 1)
                 = (CHOOSE e \in S : Rank(S, Oldest, e) = k - 1)
    BY <1>2
  <2> QED BY <2>1, <2>2
<1> HIDE DEF Oldest
<1>4. /\ Cardinality(S) \in Nat /\ DOMAIN s = 1 .. Cardinality(S)
      /\ \A k \in DOMAIN s : s[k] \in S
      /\ ToSet(s) = S
      /\ \A i, j \in DOMAIN s : i < j => <<s[i], s[j]>> \in Oldest
  BY <1>1, <1>3, PlacedInOrder
<1>5. s \in [1 .. Cardinality(S) -> S] BY <1>3, <1>4
<1> QED BY <1>4, <1>5

-----------------------------------------------------------------------------
(* Pages. *)

\* Rows of a list, the newest first.
Descending(s) == \A i, j \in DOMAIN s : i < j => Newer(s[i], s[j])

\* A cursor stands before what is older than the row it was made of.
LEMMA AfterIsOlder ==
  ASSUME NEW e \in Event, NEW f \in Event
  PROVE  /\ encodeAuditCursor(e) \in Cursor /\ encodeAuditCursor(e) # Null
         /\ AfterCursor(encodeAuditCursor(e), f) <=> Newer(e, f)
<1>1. encodeAuditCursor(e) = [t |-> e.occurredAt, i |-> e.id] BY DEF encodeAuditCursor
<1>2. encodeAuditCursor(e) \in Cursor BY <1>1, EventsTyped DEF Cursor
<1>3. Null \notin Cursor BY AuditAssumption DEF Cursor
<1>4. AfterCursor(encodeAuditCursor(e), f)
        <=> \/ f.occurredAt < e.occurredAt
            \/ f.occurredAt = e.occurredAt /\ f.id < e.id
  BY <1>1, <1>2, <1>3 DEF AfterCursor
<1>5. AfterCursor(encodeAuditCursor(e), f) <=> Newer(e, f)
  BY <1>4, EventsTyped DEF Newer
<1> QED BY <1>2, <1>3, <1>5

\* A page shows the first rows after its cursor; its own cursor stands before the others.
LEMMA PageFollows ==
  ASSUME NEW query, NEW cursor, NEW F \in SUBSET Event, F = toAuditEventFilters(query, cursor),
         IsFiniteSet(F), Distinct(F), NEW page, page = Page(query, cursor)
  PROVE  /\ page.items \in Seq(F) /\ Descending(page.items)
         /\ \A e \in F : \/ e \in ToSet(page.items)
                         \/ page.nextCursor # Null /\ AfterCursor(page.nextCursor, e)
         /\ page.nextCursor \in {Null} \cup Cursor
         /\ page.nextCursor # Null =>
              page.items # <<>> /\ page.nextCursor = encodeAuditCursor(Last(page.items))
<1>1. PICK s : s = NewestFirst(F) OBVIOUS
<1>2. PICK n \in Nat : n = Len(s) BY <1>1, NewestFirstLists
<1>3. /\ s \in Seq(F) /\ DOMAIN s = 1 .. n /\ ToSet(s) = F
      /\ \A i, j \in 1 .. n : i < j => Newer(s[i], s[j])
      /\ \A i \in 1 .. n : s[i] \in F
  <2>1. /\ s \in Seq(F) /\ DOMAIN s = 1 .. n /\ ToSet(s) = F
        /\ \A i, j \in DOMAIN s : i < j => Newer(s[i], s[j])
    BY <1>1, <1>2, NewestFirstLists
  <2> QED BY <2>1
<1>4. PICK m \in Nat \ {0} : m = PageSize BY AuditAssumption
<1>5. page = [items |-> IF n > m THEN SubSeq(s, 1, m) ELSE s,
              nextCursor |-> IF n > m THEN encodeAuditCursor(Last(SubSeq(s, 1, m))) ELSE Null]
  BY <1>1, <1>2, <1>4 DEF Page
<1>6. CASE n <= m
  <2>1. page.items = s /\ page.nextCursor = Null BY <1>5, <1>6
  <2> QED BY <1>3, <2>1 DEF Descending
<1>7. CASE n > m
  <2>1. PICK t : t = SubSeq(s, 1, m) OBVIOUS
  <2>2. t \in Seq(F) /\ Len(t) = m /\ DOMAIN t = 1 .. m /\ \A i \in 1 .. m : t[i] = s[i]
    BY <1>2, <1>3, <1>7, <2>1
  <2>3. page.items = t /\ page.nextCursor = encodeAuditCursor(Last(t)) BY <1>5, <1>7, <2>1
  <2>4. Last(t) = s[m] /\ s[m] \in F /\ t # <<>> BY <1>3, <1>7, <2>2 DEF Last
  <2>5. ASSUME NEW e \in F, e \notin ToSet(t) PROVE AfterCursor(encodeAuditCursor(Last(t)), e)
    <3>1. PICK k \in 1 .. n : s[k] = e BY <1>3 DEF ToSet
    <3>2. k \notin 1 .. m BY <2>2, <2>5, <3>1 DEF ToSet
    <3>3. Newer(s[m], e) BY <1>3, <1>7, <3>1, <3>2
    <3> QED BY <2>4, <3>3, AfterIsOlder
  <2>6. encodeAuditCursor(Last(t)) \in Cursor /\ encodeAuditCursor(Last(t)) # Null
    BY <2>4, AfterIsOlder
  <2>7. Descending(t) BY <1>3, <1>7, <2>2 DEF Descending
  <2> QED BY <2>2, <2>3, <2>4, <2>5, <2>6, <2>7
<1> QED BY <1>6, <1>7

\* What is newer than something newer is newer.
LEMMA NewerThanNewer ==
  \A e, f, g \in Event : Newer(e, f) /\ Newer(f, g) => Newer(e, g)
BY EventsTyped DEF Newer

\* A list and what is older than its last row, one after the other.
LEMMA Appended ==
  ASSUME NEW s \in Seq(Event), s # <<>>, Descending(s),
         NEW t \in Seq(Event), Descending(t), \A e \in ToSet(t) : Newer(Last(s), e)
  PROVE  /\ s \o t \in Seq(Event) /\ Descending(s \o t)
         /\ ToSet(s \o t) = ToSet(s) \cup ToSet(t)
         /\ t # <<>> => Last(s \o t) = Last(t)
<1>1. PICK m \in Nat : m = Len(s) OBVIOUS
<1>2. PICK n \in Nat : n = Len(t) OBVIOUS
<1>3. /\ DOMAIN s = 1 .. m /\ DOMAIN t = 1 .. n /\ m > 0
      /\ \A i \in 1 .. m : s[i] \in Event
      /\ \A i \in 1 .. n : t[i] \in Event
  BY <1>1, <1>2
<1>4. PICK u : u = s \o t OBVIOUS
<1>5. /\ u \in Seq(Event) /\ Len(u) = m + n /\ DOMAIN u = 1 .. (m + n)
      /\ \A i \in 1 .. m : u[i] = s[i]
      /\ \A i \in (m + 1) .. (m + n) : u[i] = t[i - m]
  BY <1>1, <1>2, <1>3, <1>4
<1>6. ASSUME NEW i \in 1 .. (m + n), NEW j \in 1 .. (m + n), i < j PROVE Newer(u[i], u[j])
  <2>1. CASE j <= m
    <3>1. i \in 1 .. m /\ j \in 1 .. m BY <1>6, <2>1
    <3>2. Newer(s[i], s[j]) BY <1>3, <1>6, <3>1 DEF Descending
    <3> QED BY <1>5, <3>1, <3>2
  <2>2. CASE i > m
    <3>1. u[i] = t[i - m] /\ u[j] = t[j - m] BY <1>5, <1>6, <2>2
    <3>2. i - m \in 1 .. n /\ j - m \in 1 .. n /\ i - m < j - m BY <1>6, <2>2
    <3> QED BY <1>3, <3>1, <3>2 DEF Descending
  <2>3. CASE i <= m /\ j > m
    <3>1. u[i] = s[i] /\ u[j] = t[j - m] /\ j - m \in 1 .. n BY <1>5, <1>6, <2>3
    <3>2. Last(s) = s[m] /\ Newer(s[m], u[j]) BY <1>1, <1>3, <3>1 DEF Last, ToSet
    <3>3. i = m \/ Newer(s[i], s[m]) BY <1>3, <2>3 DEF Descending
    <3>4. s[i] \in Event /\ s[m] \in Event /\ u[j] \in Event BY <1>3, <2>3, <3>1
    <3> QED BY <3>1, <3>2, <3>3, <3>4, NewerThanNewer
  <2> QED BY <2>1, <2>2, <2>3
<1>7. ToSet(u) = ToSet(s) \cup ToSet(t)
  <2>1. ToSet(u) \subseteq ToSet(s) \cup ToSet(t)
    <3> SUFFICES ASSUME NEW i \in 1 .. (m + n) PROVE u[i] \in ToSet(s) \cup ToSet(t)
      BY <1>5 DEF ToSet
    <3>1. CASE i <= m BY <1>3, <1>5, <3>1 DEF ToSet
    <3>2. CASE i > m
      <4>1. u[i] = t[i - m] /\ i - m \in 1 .. n BY <1>5, <3>2
      <4> QED BY <1>3, <4>1 DEF ToSet
    <3> QED BY <3>1, <3>2
  <2>2. ToSet(s) \subseteq ToSet(u)
    <3> SUFFICES ASSUME NEW i \in 1 .. m PROVE s[i] \in ToSet(u) BY <1>3 DEF ToSet
    <3>1. i \in DOMAIN u /\ u[i] = s[i] BY <1>5
    <3> QED BY <3>1 DEF ToSet
  <2>3. ToSet(t) \subseteq ToSet(u)
    <3> SUFFICES ASSUME NEW i \in 1 .. n PROVE t[i] \in ToSet(u) BY <1>3 DEF ToSet
    <3>1. u[i + m] = t[i] /\ i + m \in 1 .. (m + n)
      <4>1. i + m \in (m + 1) .. (m + n) /\ (i + m) - m = i OBVIOUS
      <4> QED BY <1>5, <4>1
    <3> QED BY <1>5, <3>1 DEF ToSet
  <2> QED BY <2>1, <2>2, <2>3
<1>8. t # <<>> => Last(u) = Last(t)
  <2> SUFFICES ASSUME t # <<>> PROVE Last(u) = Last(t) OBVIOUS
  <2>1. n > 0 BY <1>2
  <2>2. u[m + n] = t[n]
    <3>1. m + n \in (m + 1) .. (m + n) /\ (m + n) - m = n BY <2>1
    <3> QED BY <1>5, <3>1
  <2> QED BY <1>2, <1>5, <2>2 DEF Last
<1>9. Descending(u) BY <1>5, <1>6 DEF Descending
<1> QED BY <1>4, <1>5, <1>7, <1>8, <1>9

-----------------------------------------------------------------------------
(* Counting what the runs erased: a sum is the number of units it counts.  *)

OneOf(s) == CHOOSE x \in s : TRUE

\* What each run has erased, and the units of the runs in s.
Erasing == [p \in Purgers |-> PurgedBy(p)]
Units(h, s) == {u \in s \X Nat : 1 <= u[2] /\ u[2] <= h[u[1]]}

\* A run has as many units as it erased rows.
LEMMA UnitsOfOne ==
  ASSUME NEW h \in [Purgers -> Nat], NEW p \in Purgers
  PROVE  IsFiniteSet(Units(h, {p})) /\ Cardinality(Units(h, {p})) = h[p]
<1>1. PICK n \in Nat : n = h[p] OBVIOUS
<1>2. IsFiniteSet(1 .. n) /\ Cardinality(1 .. n) = n
  <2>1. Cardinality(1 .. n) = IF 1 > n THEN 0 ELSE n - 1 + 1 BY FS_Interval
  <2> QED BY <2>1, FS_Interval
<1>3. IsFiniteSet({p}) /\ Cardinality({p}) = 1 BY FS_Singleton
<1>4. IsFiniteSet({p} \X (1 .. n)) /\ Cardinality({p} \X (1 .. n)) = 1 * n
  BY <1>2, <1>3, FS_Product
<1>5. Units(h, {p}) = {p} \X (1 .. n) BY <1>1 DEF Units
<1>6. 1 * n = n OBVIOUS
<1> QED BY <1>1, <1>4, <1>5, <1>6

\* One run more adds its units.
LEMMA UnitsAdd ==
  ASSUME NEW h \in [Purgers -> Nat], NEW s \in SUBSET Purgers, NEW p \in s,
          IsFiniteSet(Units(h, s \ {p}))
  PROVE  /\ IsFiniteSet(Units(h, s))
         /\ Cardinality(Units(h, s)) = h[p] + Cardinality(Units(h, s \ {p}))
<1>1. Units(h, s) = Units(h, {p}) \cup Units(h, s \ {p}) BY DEF Units
<1>2. Units(h, {p}) \cap Units(h, s \ {p}) = {} BY DEF Units
<1>3. IsFiniteSet(Units(h, {p})) /\ Cardinality(Units(h, {p})) = h[p] BY UnitsOfOne
<1>4. PICK A : A = Units(h, {p}) OBVIOUS
<1>5. PICK B : B = Units(h, s \ {p}) OBVIOUS
<1>6. /\ IsFiniteSet(A \cup B)
      /\ Cardinality(A \cup B) = Cardinality(A) + Cardinality(B) - Cardinality(A \cap B)
  BY <1>3, <1>4, <1>5, FS_Union
<1>7. Cardinality(A \cap B) = 0 BY <1>2, <1>4, <1>5, FS_EmptySet
<1>8. Cardinality(A) \in Nat /\ Cardinality(B) \in Nat BY <1>3, <1>4, <1>5, FS_CardinalityType
<1> QED BY <1>1, <1>3, <1>4, <1>5, <1>6, <1>7, <1>8

\* A family of subsets of a finite set has a least member.
LEMMA LeastSubset ==
  ASSUME NEW S, IsFiniteSet(S), NEW B, B \subseteq SUBSET S, B # {}
  PROVE  \E m \in B : \A n \in B : n \subseteq m => n = m
<1>1. IsWellFoundedOn(StrictSubsetOrdering(S), FiniteSubsetsOf(S))
  BY FS_StrictSubsetOrderingWellFounded
<1>2. B \subseteq FiniteSubsetsOf(S) BY FS_FiniteSubsetsOfFinite
<1>3. PICK m \in B : \A n \in B : ~ (<<n, m>> \in StrictSubsetOrdering(S))
  BY <1>1, <1>2, WFMin
<1>4. ASSUME NEW n \in B, n \subseteq m PROVE n = m
  <2> SUFFICES ASSUME n # m PROVE FALSE
    OBVIOUS
  <2>1. <<n, m>> \in StrictSubsetOrdering(S) BY <1>4 DEF StrictSubsetOrdering
  <2> QED BY <1>3, <2>1
<1> QED BY <1>4

\* Finitely many runs have finitely many units.
LEMMA UnitsAreFinite ==
  ASSUME NEW h \in [Purgers -> Nat]
  PROVE  \A s \in SUBSET Purgers : IsFiniteSet(Units(h, s))
<1> DEFINE B == {s \in SUBSET Purgers : ~ IsFiniteSet(Units(h, s))}
<1> SUFFICES ASSUME B # {} PROVE FALSE
  OBVIOUS
<1>1. PICK m \in B : \A n \in B : n \subseteq m => n = m
  <2>1. B \subseteq SUBSET Purgers /\ IsFiniteSet(Purgers) BY AuditAssumption
  <2> HIDE DEF B
  <2> QED BY <2>1, LeastSubset
<1>2. CASE m = {}
  <2>1. Units(h, m) = {} BY <1>2 DEF Units
  <2> QED BY <1>1, <2>1, FS_EmptySet
<1>3. CASE m # {}
  <2>1. PICK p : p \in m BY <1>3
  <2>2. m \ {p} \in SUBSET Purgers /\ m \ {p} \notin B BY <1>1, <2>1
  <2>3. IsFiniteSet(Units(h, m \ {p})) BY <2>2
  <2> QED BY <1>1, <2>1, <2>3, UnitsAdd
<1> QED BY <1>2, <1>3

\* MapThenSumSet chooses a solution of a recursive equation.  The number of units is
\* one, and there is no other: they would differ first on a least set of runs.
SumCounts ==
  Erasing \in [Purgers -> Nat] =>
    MapThenSumSet(PurgedBy, Purgers) = Cardinality(Units(Erasing, Purgers))

\* So it counts them.
LEMMA SumCountsUnits == SumCounts
<1> SUFFICES ASSUME Erasing \in [Purgers -> Nat]
             PROVE  MapThenSumSet(PurgedBy, Purgers) = Cardinality(Units(Erasing, Purgers))
  BY DEF SumCounts
<1> DEFINE Equation(f) == f = [s \in SUBSET Purgers |->
             IF s = {} THEN 0 ELSE PurgedBy(OneOf(s)) + f[s \ {OneOf(s)}]]
           iter == CHOOSE f : Equation(f)
           g == [s \in SUBSET Purgers |-> Cardinality(Units(Erasing, s))]
<1>1. MapThenSumSet(PurgedBy, Purgers) = iter[Purgers]
  BY DEF MapThenSumSet, MapThenFoldSet, OneOf
<1>2. ASSUME NEW s \in SUBSET Purgers
      PROVE  g[s] = IF s = {} THEN 0 ELSE PurgedBy(OneOf(s)) + g[s \ {OneOf(s)}]
  <2>1. CASE s = {}
    <3>1. Units(Erasing, s) = {} BY <2>1 DEF Units
    <3> QED BY <2>1, <3>1, FS_EmptySet
  <2>2. CASE s # {}
    <3>1. PICK p \in s : p = OneOf(s) BY <2>2 DEF OneOf
    <3>2. IsFiniteSet(Units(Erasing, s \ {p})) BY UnitsAreFinite
    <3>3. Cardinality(Units(Erasing, s))
            = Erasing[p] + Cardinality(Units(Erasing, s \ {p}))
      BY <3>2, UnitsAdd
    <3>4. /\ g[s] = Cardinality(Units(Erasing, s))
          /\ g[s \ {p}] = Cardinality(Units(Erasing, s \ {p}))
      OBVIOUS
    <3>5. Erasing[p] = PurgedBy(p) BY DEF Erasing
    <3> QED BY <2>2, <3>1, <3>3, <3>4, <3>5
  <2> QED BY <2>1, <2>2
<1>3. Equation(g)
  <2>1. g = [s \in SUBSET Purgers |-> g[s]] OBVIOUS
  <2> HIDE DEF g
  <2> QED BY <1>2, <2>1
<1>4. Equation(iter) BY <1>3
<1>5. g[Purgers] = Cardinality(Units(Erasing, Purgers)) OBVIOUS
<1> HIDE DEF iter, g
<1>6. \A s \in SUBSET Purgers :
        iter[s] = IF s = {} THEN 0 ELSE PurgedBy(OneOf(s)) + iter[s \ {OneOf(s)}]
  BY <1>4
<1> DEFINE B == {s \in SUBSET Purgers : iter[s] # g[s]}
<1>7. B = {}
  <2> SUFFICES ASSUME B # {} PROVE FALSE
    OBVIOUS
  <2>1. PICK m \in B : \A n \in B : n \subseteq m => n = m
    <3>1. B \subseteq SUBSET Purgers /\ IsFiniteSet(Purgers) BY AuditAssumption
    <3> HIDE DEF B
    <3> QED BY <3>1, LeastSubset
  <2>2. CASE m = {} BY <1>2, <1>6, <2>1, <2>2
  <2>3. CASE m # {}
    <3>1. OneOf(m) \in m BY <2>3 DEF OneOf
    <3>2. m \ {OneOf(m)} \in SUBSET Purgers /\ m \ {OneOf(m)} \notin B BY <2>1, <3>1
    <3> QED BY <1>2, <1>6, <2>1, <2>3, <3>2
  <2> QED BY <2>2, <2>3
<1>8. iter[Purgers] = g[Purgers] BY <1>7
<1> QED BY <1>1, <1>5, <1>8

\* So after a step.
LEMMA SumCountsUnitsNext == SumCounts'
BY SumCountsUnits, PTL

\* A step that changes what one run has erased changes the sum by as much.
LEMMA SumChanges ==
  ASSUME Erasing \in [Purgers -> Nat], Erasing' \in [Purgers -> Nat],
         NEW p \in Purgers, NEW d \in Int, Erasing'[p] = Erasing[p] + d,
         \A q \in Purgers : q # p => Erasing'[q] = Erasing[q]
  PROVE  /\ MapThenSumSet(PurgedBy, Purgers) \in Nat
         /\ MapThenSumSet(PurgedBy, Purgers)' = MapThenSumSet(PurgedBy, Purgers) + d
<1>1. SumCounts /\ SumCounts' BY SumCountsUnitsNext, SumCountsUnits
<1>2. PICK h \in [Purgers -> Nat] : h = Erasing OBVIOUS
<1>3. PICK k \in [Purgers -> Nat] : k = Erasing' OBVIOUS
<1>4. /\ MapThenSumSet(PurgedBy, Purgers) = Cardinality(Units(h, Purgers))
      /\ MapThenSumSet(PurgedBy, Purgers)' = Cardinality(Units(k, Purgers))
  BY <1>1, <1>2, <1>3 DEF SumCounts
<1> DEFINE Rest == Purgers \ {p}
<1>5. /\ IsFiniteSet(Units(h, Rest)) /\ IsFiniteSet(Units(k, Rest))
      /\ IsFiniteSet(Units(h, Purgers))
  BY UnitsAreFinite
<1>6. Units(k, Rest) = Units(h, Rest) BY <1>2, <1>3 DEF Units
<1>7. Cardinality(Units(h, Purgers)) = h[p] + Cardinality(Units(h, Rest)) BY <1>5, UnitsAdd
<1>8. Cardinality(Units(k, Purgers)) = k[p] + Cardinality(Units(k, Rest)) BY <1>5, UnitsAdd
<1>9. Cardinality(Units(h, Rest)) \in Nat /\ Cardinality(Units(h, Purgers)) \in Nat
  BY <1>5, FS_CardinalityType
<1>10. h[p] \in Nat /\ k[p] = h[p] + d BY <1>2, <1>3
<1> HIDE DEF Rest
<1> QED BY <1>4, <1>6, <1>7, <1>8, <1>9, <1>10

-----------------------------------------------------------------------------
(* What a step leaves as it was. *)

\* A step in which no run erases leaves the sum.
LEMMA SumStays ==
  ASSUME Erasing \in [Purgers -> Nat], Erasing' = Erasing
  PROVE  MapThenSumSet(PurgedBy, Purgers)' = MapThenSumSet(PurgedBy, Purgers)
<1>1. SumCounts /\ SumCounts' BY SumCountsUnitsNext, SumCountsUnits
<1>2. PICK h \in [Purgers -> Nat] : h = Erasing OBVIOUS
<1>3. /\ MapThenSumSet(PurgedBy, Purgers) = Cardinality(Units(h, Purgers))
      /\ MapThenSumSet(PurgedBy, Purgers)' = Cardinality(Units(h, Purgers))
  BY <1>1, <1>2 DEF SumCounts
<1> QED BY <1>3

\* The tables, without the listing and the runs.
Rows ==
  /\ events \subseteq Event /\ writing \subseteq Event
  /\ archived \subseteq Event /\ erased \subseteq Event
  /\ told \in Nat /\ untold \in Nat /\ clock \in 0..MaxTime
  /\ RowsAreDistinct

Listing ==
  /\ listing # Null =>
       /\ listing.query \in Query /\ listing.items \in Seq(Event)
       /\ listing.nextCursor \in {Null} \cup Cursor
  /\ PagesAreComplete /\ WalkIsKept

\* The invariant, part by part, before a step and after it.
LEMMA AInvParts == AInv <=> Rows /\ Listing /\ PurgesArePlanned /\ AuditErasuresAreAccounted
<1>1. PurgesArePlanned =>
        \A p \in Purgers : purge[p] # Null =>
          /\ purge[p].step \in {"archiving", "deleting"}
          /\ purge[p].rows \in Seq(Event) /\ purge[p].purged \in Nat
  <2> SUFFICES ASSUME PurgesArePlanned, NEW p \in Purgers, purge[p] # Null
               PROVE  /\ purge[p].step \in {"archiving", "deleting"}
                      /\ purge[p].rows \in Seq(Event) /\ purge[p].purged \in Nat
    OBVIOUS
  <2>1. purge[p] \in PurgeRun BY DEF PurgesArePlanned, Planned
  <2> QED BY <2>1 DEF PurgeRun
<1>2. AuditTypeOK <=>
        /\ events \subseteq Event /\ writing \subseteq Event
        /\ archived \subseteq Event /\ erased \subseteq Event
        /\ told \in Nat /\ untold \in Nat /\ clock \in 0..MaxTime
        /\ \A p \in Purgers : purge[p] # Null =>
             /\ purge[p].step \in {"archiving", "deleting"}
             /\ purge[p].rows \in Seq(Event) /\ purge[p].purged \in Nat
        /\ listing # Null =>
             /\ listing.query \in Query /\ listing.items \in Seq(Event)
             /\ listing.nextCursor \in {Null} \cup Cursor
  BY DEF AuditTypeOK, Cursor
<1> QED BY <1>1, <1>2 DEF AInv, Rows, Listing

\* Runs erase a number of rows.
LEMMA RunsErase ==
  ASSUME PurgesArePlanned
  PROVE  Erasing \in [Purgers -> Nat]
<1>1. ASSUME NEW p \in Purgers, purge[p] # Null PROVE purge[p].purged \in Nat
  <2>1. purge[p] \in PurgeRun BY <1>1 DEF PurgesArePlanned, Planned
  <2> QED BY <2>1 DEF PurgeRun
<1> QED BY <1>1 DEF Erasing, PurgedBy

\* The log changed under a listing: what is new in it was not there when the listing began.
LEMMA ListingStays ==
  ASSUME Listing, UNCHANGED listing, events \cup erased \subseteq events' \cup erased',
         (events' \ events) \cap (events \cup erased) = {}
  PROVE  Listing'
<1>1. ASSUME listing # Null PROVE listing.stored \cap events' \subseteq listing.stored \cap events
  BY <1>1 DEF Listing, WalkIsKept
<1>2. PagesAreComplete' BY <1>1 DEF Listing, PagesAreComplete
<1>3. WalkIsKept' BY DEF Listing, WalkIsKept
<1> QED BY <1>2, <1>3 DEF Listing

\* The log changed under a run that has planned.
LEMMA PlannedStays ==
  ASSUME Rows, NEW r, Planned(r), events \cup erased \subseteq events' \cup erased',
         (events' \ events) \cap (events \cup erased) = {},
         archived \subseteq archived', clock' = clock \/ clock' = clock + 1
  PROVE  Planned(r)'
<1>1. r \in PurgeRun /\ ToSet(r.rows) \subseteq events' \cup erased' BY DEF Planned
<1>2. \A e \in ToSet(r.rows) : e.occurredAt < clock' - Retention
  <2> SUFFICES ASSUME NEW e \in ToSet(r.rows) PROVE e.occurredAt < clock' - Retention
    OBVIOUS
  <2>1. e \in Event BY DEF Planned, Rows
  <2>2. e.occurredAt \in Nat /\ e.occurredAt < clock - Retention BY <2>1, EventsTyped DEF Planned
  <2>3. clock \in Nat /\ Retention \in Nat BY AuditAssumption DEF Rows
  <2> QED BY <2>2, <2>3
<1>3. r.step = "deleting" => ToSet(r.rows) \cap events' \subseteq archived' BY DEF Planned
<1> QED BY <1>1, <1>2, <1>3 DEF Planned

\* No run moves.
LEMMA RunsStay ==
  ASSUME Rows, PurgesArePlanned, events \cup erased \subseteq events' \cup erased',
         (events' \ events) \cap (events \cup erased) = {},
         archived \subseteq archived', clock' = clock \/ clock' = clock + 1,
         UNCHANGED purge
  PROVE  PurgesArePlanned'
<1>1. ASSUME NEW p \in Purgers, purge'[p] # Null PROVE Planned(purge[p])'
  <2>1. PICK r : r = purge[p] OBVIOUS
  <2>2. Planned(r) BY <1>1, <2>1 DEF PurgesArePlanned
  <2>3. Planned(r)' BY <2>2, PlannedStays
  <2>4. purge'[p] = r BY <2>1
  <2> QED BY <2>3, <2>4 DEF Planned
<1> QED BY <1>1 DEF PurgesArePlanned

\* One run moves, as r.
LEMMA RunMoves ==
  ASSUME Rows, PurgesArePlanned, events \cup erased \subseteq events' \cup erased',
         (events' \ events) \cap (events \cup erased) = {},
         archived \subseteq archived', clock' = clock \/ clock' = clock + 1,
         NEW p \in Purgers, NEW r, purge' = [purge EXCEPT ![p] = r], r # Null => Planned(r)'
  PROVE  /\ PurgesArePlanned'
         /\ Erasing' = [Erasing EXCEPT ![p] = IF r = Null THEN 0 ELSE r.purged]
<1>1. DOMAIN purge' = Purgers /\ \A q \in Purgers : purge'[q] = IF q = p THEN r ELSE purge[q]
  BY DEF PurgesArePlanned
<1>2. ASSUME NEW q \in Purgers, purge'[q] # Null PROVE Planned(purge[q])'
  <2>1. PICK k : k = purge'[q] OBVIOUS
  <2>2. CASE q = p
    <3>1. k = r /\ r # Null BY <1>1, <1>2, <2>1, <2>2
    <3> QED BY <2>1, <3>1 DEF Planned
  <2>3. CASE q # p
    <3>1. k = purge[q] /\ k # Null BY <1>1, <1>2, <2>1, <2>3
    <3>2. Planned(k) BY <3>1 DEF PurgesArePlanned
    <3>3. Planned(k)' BY <3>2, PlannedStays
    <3> QED BY <2>1, <3>3 DEF Planned
  <2> QED BY <2>2, <2>3
<1>3. Erasing' = [Erasing EXCEPT ![p] = IF r = Null THEN 0 ELSE r.purged]
  BY <1>1 DEF Erasing, PurgedBy
<1> QED BY <1>1, <1>2, <1>3 DEF PurgesArePlanned

\* Nothing is erased, and nothing said.
LEMMA AccountsStay ==
  ASSUME Rows, PurgesArePlanned, AuditErasuresAreAccounted, UNCHANGED <<erased, told, untold>>,
         archived \subseteq archived', clock' = clock \/ clock' = clock + 1, Erasing' = Erasing
  PROVE  AuditErasuresAreAccounted'
<1>1. MapThenSumSet(PurgedBy, Purgers)' = MapThenSumSet(PurgedBy, Purgers)
  BY RunsErase, SumStays
<1>2. \A e \in erased : e.occurredAt < clock' - Retention
  <2> SUFFICES ASSUME NEW e \in erased PROVE e.occurredAt < clock' - Retention
    OBVIOUS
  <2>1. e.occurredAt \in Nat /\ e.occurredAt < clock - Retention
    BY EventsTyped DEF AuditErasuresAreAccounted, Rows
  <2>2. clock \in Nat /\ Retention \in Nat BY AuditAssumption DEF Rows
  <2> QED BY <2>1, <2>2
<1> QED BY <1>1, <1>2 DEF AuditErasuresAreAccounted

-----------------------------------------------------------------------------
(* Every step of the log keeps the invariant. *)

\* The invariant of the log is the conjunction of its parts.
Parts == AInv <=> Rows /\ Listing /\ PurgesArePlanned /\ AuditErasuresAreAccounted

\* It is so in every state.
LEMMA AInvPartsNow == Parts BY AInvParts DEF Parts

\* And so in the next state, with the definition kept closed.
LEMMA AInvPartsLater == Parts' BY AInvPartsNow, PTL

\* To show the invariant after a step it is enough to show each part.
LEMMA AInvPartsNext ==
  Rows' /\ Listing' /\ PurgesArePlanned' /\ AuditErasuresAreAccounted' => AInv'
BY AInvPartsLater DEF Parts

\* An id that is fresh makes a row unlike any other.
LEMMA NewEvent ==
  ASSUME Rows, NEW id \in EventIds, Fresh(id), NEW action \in {"user.updated", "audit.purged"},
         NEW e, e = [id |-> id, occurredAt |-> clock, action |-> action]
  PROVE  /\ e \in Event /\ e \notin events \cup writing \cup erased
         /\ \A f \in events \cup writing \cup erased : f.id # e.id
<1>1. e.id = id OBVIOUS
<1>2. e \in Event BY DEF Event, Rows
<1>3. \A f \in events \cup writing \cup erased : f.id # id BY DEF Fresh
<1> QED BY <1>1, <1>2, <1>3

\* An event is inserted; nobody sees it yet.
LEMMA WriteKeeps ==
  ASSUME AInv, NEW id \in EventIds, writeAuditEvent(id)
  PROVE  AInv'
<1>1. Rows /\ Listing /\ PurgesArePlanned /\ AuditErasuresAreAccounted BY AInvParts
<1>2. PICK e : e = [id |-> id, occurredAt |-> clock, action |-> "user.updated"] OBVIOUS
<1>3. /\ writing' = writing \cup {e} /\ Fresh(id)
      /\ UNCHANGED <<events, listing, purge, archived, erased, told, untold, clock>>
  BY <1>2 DEF writeAuditEvent
<1>4. /\ e \in Event /\ e \notin events \cup writing \cup erased
      /\ \A f \in events \cup writing \cup erased : f.id # e.id
  BY <1>1, <1>2, <1>3, NewEvent
<1>5. Rows'
  <2>1. \A f, g \in writing' \cup events \cup erased : f.id = g.id => f = g
    BY <1>1, <1>3, <1>4 DEF Rows, RowsAreDistinct
  <2> QED BY <1>1, <1>3, <1>4, <2>1 DEF Rows, RowsAreDistinct
<1>6. Listing' BY <1>1, <1>3, ListingStays
<1>7. PurgesArePlanned' BY <1>1, <1>3, RunsStay
<1>8. AuditErasuresAreAccounted' BY <1>1, <1>3, AccountsStay DEF Erasing, PurgedBy
<1> QED BY <1>5, <1>6, <1>7, <1>8, AInvPartsNext

\* Its transaction ends.
LEMMA EndWriteKeeps ==
  ASSUME AInv, NEW e \in writing, NEW committed \in BOOLEAN, EndWrite(e, committed)
  PROVE  AInv'
<1>1. Rows /\ Listing /\ PurgesArePlanned /\ AuditErasuresAreAccounted BY AInvParts
<1>2. /\ writing' = writing \ {e} /\ (events' = events \cup {e} \/ events' = events)
      /\ UNCHANGED <<listing, purge, archived, erased, told, untold, clock>>
  BY DEF EndWrite
<1>3. e \in Event /\ e \notin events \cup erased BY <1>1 DEF Rows, RowsAreDistinct
<1>4. Rows'
  <2>1. IsFiniteSet(events')
    <3>1. IsFiniteSet(events \cup {e}) BY <1>1, FS_AddElement DEF Rows, RowsAreDistinct
    <3> QED BY <1>1, <1>2, <3>1 DEF Rows, RowsAreDistinct
  <2>2. events' \cup writing' \cup erased' \subseteq events \cup writing \cup erased BY <1>2
  <2>3. \A f, g \in events' \cup writing' \cup erased' : f.id = g.id => f = g
    BY <1>1, <2>2 DEF Rows, RowsAreDistinct
  <2>4. writing' \cap (events' \cup erased') = {} /\ events' \cap erased' = {}
    BY <1>1, <1>2, <1>3 DEF Rows, RowsAreDistinct
  <2>5. events' \subseteq Event /\ writing' \subseteq Event BY <1>1, <1>2, <1>3 DEF Rows
  <2> QED BY <1>1, <1>2, <2>1, <2>3, <2>4, <2>5 DEF Rows, RowsAreDistinct
<1>5. events \subseteq events' /\ (events' \ events) \cap (events \cup erased) = {}
  BY <1>2, <1>3
<1>6. Listing' BY <1>1, <1>2, <1>5, ListingStays
<1>7. PurgesArePlanned' BY <1>1, <1>2, <1>5, RunsStay
<1>8. AuditErasuresAreAccounted' BY <1>1, <1>2, AccountsStay DEF Erasing, PurgedBy
<1> QED BY <1>4, <1>6, <1>7, <1>8, AInvPartsNext

\* The rows of a query are rows of the log.
LEMMA FilterTyped ==
  ASSUME Rows, NEW query, NEW cursor, NEW F, F = toAuditEventFilters(query, cursor)
  PROVE  F \in SUBSET Event /\ IsFiniteSet(F) /\ Distinct(F)
<1>1. F \subseteq events BY DEF toAuditEventFilters
<1>2. IsFiniteSet(F) BY <1>1, FS_Subset DEF Rows, RowsAreDistinct
<1> QED BY <1>1, <1>2 DEF Rows, RowsAreDistinct, Distinct

\* An administrator asks for the first page.
LEMMA FirstPageKeeps ==
  ASSUME AInv, NEW query \in Query, FirstPage(query)
  PROVE  AInv'
<1>1. Rows /\ Listing /\ PurgesArePlanned /\ AuditErasuresAreAccounted BY AInvParts
<1>2. PICK page : page = Page(query, Null) OBVIOUS
<1>3. /\ listing' = [query |-> query, stored |-> events, items |-> page.items,
                     nextCursor |-> page.nextCursor, pages |-> 1]
      /\ UNCHANGED <<events, writing, purge, archived, erased, told, untold, clock>>
  BY <1>2 DEF FirstPage
<1>4. PICK F : F = toAuditEventFilters(query, Null) OBVIOUS
<1>5. F \in SUBSET Event /\ IsFiniteSet(F) /\ Distinct(F) BY <1>1, <1>4, FilterTyped
<1>6. /\ page.items \in Seq(F) /\ Descending(page.items)
      /\ \A e \in F : \/ e \in ToSet(page.items)
                      \/ page.nextCursor # Null /\ AfterCursor(page.nextCursor, e)
      /\ page.nextCursor \in {Null} \cup Cursor
      /\ page.nextCursor # Null =>
           page.items # <<>> /\ page.nextCursor = encodeAuditCursor(Last(page.items))
  BY <1>2, <1>4, <1>5, PageFollows
<1>7. \A e \in events : Matches(query, e) => e \in F
  BY <1>4 DEF toAuditEventFilters, AfterCursor
<1>8. PICK walk : walk = listing' OBVIOUS
<1>9. /\ DOMAIN walk = {"query", "stored", "items", "nextCursor", "pages"}
      /\ walk.query = query /\ walk.stored = events /\ walk.items = page.items
      /\ walk.nextCursor = page.nextCursor
  BY <1>3, <1>8
<1>10. page.items \in Seq(Event) BY <1>5, <1>6
<1>11. PagesAreComplete'
  BY <1>3, <1>6, <1>7, <1>8, <1>9 DEF PagesAreComplete, Descending
<1>12. WalkIsKept' BY <1>3, <1>6, <1>8, <1>9 DEF WalkIsKept
<1>13. Listing' BY <1>6, <1>8, <1>9, <1>10, <1>11, <1>12 DEF Listing
<1>14. Rows' BY <1>1, <1>3 DEF Rows, RowsAreDistinct
<1>15. PurgesArePlanned' BY <1>1, <1>3, RunsStay
<1>16. AuditErasuresAreAccounted' BY <1>1, <1>3, AccountsStay DEF Erasing, PurgedBy
<1> QED BY <1>13, <1>14, <1>15, <1>16, AInvPartsNext

\* And for the one after it.
LEMMA NextPageKeeps ==
  ASSUME AInv, NextPage
  PROVE  AInv'
<1>1. Rows /\ Listing /\ PurgesArePlanned /\ AuditErasuresAreAccounted BY AInvParts
<1>2. PICK walk : walk = listing OBVIOUS
<1>3. PICK page : page = Page(walk.query, walk.nextCursor) OBVIOUS
<1>4. /\ walk # Null /\ walk.nextCursor # Null
      /\ listing' = [walk EXCEPT !.items = walk.items \o page.items,
                                 !.nextCursor = page.nextCursor,
                                 !.pages = walk.pages + 1]
      /\ UNCHANGED <<events, writing, purge, archived, erased, told, untold, clock>>
  BY <1>2, <1>3 DEF NextPage
<1>5. /\ DOMAIN walk = {"query", "stored", "items", "nextCursor", "pages"}
      /\ walk.stored \subseteq events \cup erased
      /\ walk.items # <<>> /\ walk.nextCursor = encodeAuditCursor(Last(walk.items))
      /\ walk.query \in Query /\ walk.items \in Seq(Event)
      /\ walk.nextCursor \in {Null} \cup Cursor
  BY <1>1, <1>2, <1>4 DEF Listing, WalkIsKept
<1>6. /\ Descending(walk.items)
      /\ \A e \in walk.stored \cap events :
           Matches(walk.query, e) =>
             e \in ToSet(walk.items) \/ AfterCursor(walk.nextCursor, e)
  BY <1>1, <1>2, <1>4 DEF Listing, PagesAreComplete, Descending
<1>7. PICK F : F = toAuditEventFilters(walk.query, walk.nextCursor) OBVIOUS
<1>8. F \in SUBSET Event /\ IsFiniteSet(F) /\ Distinct(F) BY <1>1, <1>7, FilterTyped
<1>9. /\ page.items \in Seq(F) /\ Descending(page.items)
      /\ \A e \in F : \/ e \in ToSet(page.items)
                      \/ page.nextCursor # Null /\ AfterCursor(page.nextCursor, e)
      /\ page.nextCursor \in {Null} \cup Cursor
      /\ page.nextCursor # Null =>
           page.items # <<>> /\ page.nextCursor = encodeAuditCursor(Last(page.items))
  BY <1>3, <1>7, <1>8, PageFollows
<1>10. PICK t : t = page.items OBVIOUS
<1>11. t \in Seq(Event) /\ ToSet(t) \subseteq F
  <2>1. t \in Seq(F) BY <1>9, <1>10
  <2>2. ToSet(t) \subseteq F BY <2>1 DEF ToSet
  <2> QED BY <1>8, <2>1, <2>2
<1>12. Last(walk.items) \in Event
  <2>1. PICK s \in Seq(Event) : s = walk.items BY <1>5
  <2>2. Len(s) \in Nat /\ Len(s) # 0 /\ DOMAIN s = 1 .. Len(s) BY <1>5, <2>1
  <2>3. s[Len(s)] \in Event BY <2>1, <2>2
  <2> QED BY <2>1, <2>3 DEF Last
<1>13. \A e \in ToSet(t) : Newer(Last(walk.items), e)
  <2> SUFFICES ASSUME NEW e \in ToSet(t) PROVE Newer(Last(walk.items), e)
    OBVIOUS
  <2>1. e \in Event /\ AfterCursor(walk.nextCursor, e)
    BY <1>7, <1>8, <1>11 DEF toAuditEventFilters
  <2> QED BY <1>5, <1>12, <2>1, AfterIsOlder
<1>14. PICK u : u = walk.items \o t OBVIOUS
<1>15. /\ u \in Seq(Event) /\ Descending(u) /\ ToSet(u) = ToSet(walk.items) \cup ToSet(t)
       /\ t # <<>> => u # <<>> /\ Last(u) = Last(t)
  <2>1. /\ u \in Seq(Event) /\ Descending(u) /\ ToSet(u) = ToSet(walk.items) \cup ToSet(t)
        /\ t # <<>> => Last(u) = Last(t)
    BY <1>5, <1>6, <1>9, <1>10, <1>11, <1>13, <1>14, Appended
  <2>2. u # <<>> BY <1>5, <1>11, <1>14
  <2> QED BY <2>1, <2>2
<1>16. PICK next : next = listing' OBVIOUS
<1>17. /\ DOMAIN next = {"query", "stored", "items", "nextCursor", "pages"}
       /\ next.query = walk.query /\ next.stored = walk.stored /\ next.items = u
       /\ next.nextCursor = page.nextCursor
  BY <1>4, <1>5, <1>10, <1>14, <1>16
<1>18. \A e \in walk.stored \cap events : Matches(walk.query, e) =>
         e \in ToSet(u) \/ (page.nextCursor # Null /\ AfterCursor(page.nextCursor, e))
  BY <1>6, <1>7, <1>9, <1>10, <1>15 DEF toAuditEventFilters
<1>19. PagesAreComplete'
  <2>1. \A i, j \in DOMAIN next.items : i < j => Newer(next.items[i], next.items[j])
    BY <1>15, <1>17 DEF Descending
  <2>2. \A e \in next.stored \cap events' : Matches(next.query, e) =>
          \/ e \in ToSet(next.items)
          \/ next.nextCursor # Null /\ AfterCursor(next.nextCursor, e)
    BY <1>4, <1>17, <1>18
  <2> QED BY <1>16, <2>1, <2>2 DEF PagesAreComplete
<1>20. WalkIsKept' BY <1>4, <1>5, <1>9, <1>10, <1>15, <1>16, <1>17 DEF WalkIsKept
<1>21. Listing' BY <1>5, <1>9, <1>15, <1>16, <1>17, <1>19, <1>20 DEF Listing
<1>22. Rows' BY <1>1, <1>4 DEF Rows, RowsAreDistinct
<1>23. PurgesArePlanned' BY <1>1, <1>4, RunsStay
<1>24. AuditErasuresAreAccounted' BY <1>1, <1>4, AccountsStay DEF Erasing, PurgedBy
<1> QED BY <1>21, <1>22, <1>23, <1>24, AInvPartsNext

\* A run decides what it will erase.
LEMMA PlanKeeps ==
  ASSUME AInv, NEW p \in Purgers, PlanPurge(p)
  PROVE  AInv'
<1>1. Rows /\ Listing /\ PurgesArePlanned /\ AuditErasuresAreAccounted BY AInvParts
<1>2. PICK plan : plan = planAuditPurge(clock - Retention) OBVIOUS
<1>3. PICK r : r = [step |-> "archiving", rows |-> plan, purged |-> 0] OBVIOUS
<1>4. /\ purge[p] = Null /\ purge' = [purge EXCEPT ![p] = r]
      /\ UNCHANGED <<events, writing, listing, archived, erased, told, untold, clock>>
  BY <1>2, <1>3 DEF PlanPurge
<1>5. PICK S : S = {e \in events : e.occurredAt < clock - Retention} OBVIOUS
<1>6. S \in SUBSET Event /\ IsFiniteSet(S) /\ Distinct(S)
  <2>1. S \subseteq events BY <1>5
  <2>2. IsFiniteSet(S) BY <1>1, <2>1, FS_Subset DEF Rows, RowsAreDistinct
  <2> QED BY <1>1, <2>1, <2>2 DEF Rows, RowsAreDistinct, Distinct
<1>7. plan \in Seq(S) /\ ToSet(plan) = S
  <2>1. plan = OldestFirst(S) BY <1>2, <1>5 DEF planAuditPurge
  <2> QED BY <1>6, <2>1, OldestFirstNames
<1>8. plan \in Seq(Event) BY <1>6, <1>7
<1>9. r \in PurgeRun BY <1>3, <1>8 DEF PurgeRun
<1>10. Planned(r)' BY <1>3, <1>4, <1>5, <1>7, <1>9 DEF Planned
<1>11. /\ PurgesArePlanned'
       /\ Erasing' = [Erasing EXCEPT ![p] = IF r = Null THEN 0 ELSE r.purged]
  BY <1>1, <1>4, <1>10, RunMoves
<1>12. Erasing' = Erasing
  <2>1. Erasing[p] = 0 BY <1>4 DEF Erasing, PurgedBy
  <2>2. (IF r = Null THEN 0 ELSE r.purged) = 0 BY <1>3
  <2>3. Erasing \in [Purgers -> Nat] BY <1>1, RunsErase
  <2> QED BY <1>11, <2>1, <2>2, <2>3
<1>13. Rows' BY <1>1, <1>4 DEF Rows, RowsAreDistinct
<1>14. Listing' BY <1>1, <1>4, ListingStays
<1>15. AuditErasuresAreAccounted' BY <1>1, <1>4, <1>12, AccountsStay
<1> QED BY <1>11, <1>13, <1>14, <1>15, AInvPartsNext

\* It reads the rows again and archives those that are still there.
LEMMA ArchiveKeeps ==
  ASSUME AInv, NEW p \in Purgers, writeArchive(p)
  PROVE  AInv'
<1>1. Rows /\ Listing /\ PurgesArePlanned /\ AuditErasuresAreAccounted BY AInvParts
<1>2. PICK q : q = purge[p] OBVIOUS
<1>3. PICK r : r = [q EXCEPT !.step = "deleting"] OBVIOUS
<1>4. /\ q # Null /\ purge' = [purge EXCEPT ![p] = r]
      /\ archived' = archived \cup (ToSet(q.rows) \cap events)
      /\ UNCHANGED <<events, writing, listing, erased, told, untold, clock>>
  <2>1. purge' = [purge EXCEPT ![p] = [purge[p] EXCEPT !.step = "deleting"]]
    BY DEF writeArchive
  <2> QED BY <1>2, <1>3, <2>1 DEF writeArchive
<1>5. Planned(q) BY <1>1, <1>2, <1>4 DEF PurgesArePlanned
<1>6. /\ r \in PurgeRun /\ r.rows = q.rows /\ r.purged = q.purged
  BY <1>3, <1>5 DEF Planned, PurgeRun
<1>7. Planned(r)' BY <1>4, <1>5, <1>6 DEF Planned
<1>8. /\ PurgesArePlanned'
      /\ Erasing' = [Erasing EXCEPT ![p] = IF r = Null THEN 0 ELSE r.purged]
  BY <1>1, <1>4, <1>7, RunMoves
<1>9. Erasing' = Erasing
  <2>1. Erasing[p] = q.purged BY <1>2, <1>4 DEF Erasing, PurgedBy
  <2>2. r # Null BY <1>6, AuditAssumption DEF PurgeRun
  <2>3. Erasing \in [Purgers -> Nat] BY <1>1, RunsErase
  <2> QED BY <1>6, <1>8, <2>1, <2>2, <2>3
<1>10. archived' \subseteq Event BY <1>1, <1>4 DEF Rows
<1>11. Rows' BY <1>1, <1>4, <1>10 DEF Rows, RowsAreDistinct
<1>12. Listing' BY <1>1, <1>4, ListingStays
<1>13. AuditErasuresAreAccounted' BY <1>1, <1>4, <1>9, AccountsStay
<1> QED BY <1>8, <1>11, <1>12, <1>13, AInvPartsNext

\* The first rows, and the others.
LEMMA Parted ==
  ASSUME NEW s \in Seq(Event), NEW k \in Nat, k <= Len(s)
  PROVE  /\ SubSeq(s, k + 1, Len(s)) \in Seq(Event)
         /\ ToSet(SubSeq(s, 1, k)) \subseteq ToSet(s)
         /\ ToSet(SubSeq(s, k + 1, Len(s))) \subseteq ToSet(s)
<1>1. PICK n \in Nat : n = Len(s) /\ DOMAIN s = 1 .. n OBVIOUS
<1>2. PICK t : t = SubSeq(s, 1, k) OBVIOUS
<1>3. DOMAIN t = 1 .. k /\ \A i \in 1 .. k : t[i] = s[i] BY <1>1, <1>2
<1>4. ToSet(t) \subseteq ToSet(s)
  <2> SUFFICES ASSUME NEW i \in 1 .. k PROVE t[i] \in ToSet(s) BY <1>3 DEF ToSet
  <2>1. i \in 1 .. n BY <1>1
  <2> QED BY <1>1, <1>3, <2>1 DEF ToSet
<1>5. PICK u : u = SubSeq(s, k + 1, Len(s)) OBVIOUS
<1>6. /\ u \in Seq(Event) /\ DOMAIN u = 1 .. (n - k)
      /\ \A i \in 1 .. (n - k) : u[i] = s[i + k]
  BY <1>1, <1>5
<1>7. ToSet(u) \subseteq ToSet(s)
  <2> SUFFICES ASSUME NEW i \in 1 .. (n - k) PROVE u[i] \in ToSet(s) BY <1>6 DEF ToSet
  <2>1. i + k \in 1 .. n BY <1>1
  <2> QED BY <1>1, <1>6, <2>1 DEF ToSet
<1> QED BY <1>2, <1>4, <1>5, <1>6, <1>7

\* It erases a batch: what is still there of it, and is counted.
LEMMA BatchKeeps ==
  ASSUME AInv, NEW p \in Purgers, deleteBatch(p)
  PROVE  AInv'
<1>1. Rows /\ Listing /\ PurgesArePlanned /\ AuditErasuresAreAccounted BY AInvParts
<1>2. PICK q : q = purge[p] OBVIOUS
<1>3. q # Null /\ q.step = "deleting" /\ Planned(q)
  BY <1>1, <1>2 DEF deleteBatch, PurgesArePlanned
<1>4. PICK s \in Seq(Event) : s = q.rows BY <1>3 DEF Planned, PurgeRun
<1>5. PICK k : k = IF Len(s) < BatchSize THEN Len(s) ELSE BatchSize OBVIOUS
<1>6. k \in Nat /\ k <= Len(s)
  <2>1. BatchSize \in Nat /\ Len(s) \in Nat BY <1>4, AuditAssumption
  <2> QED BY <1>5, <2>1
<1>7. PICK rest : rest = SubSeq(s, k + 1, Len(s)) OBVIOUS
<1>8. PICK batch : batch = ToSet(SubSeq(s, 1, k)) \cap events OBVIOUS
<1>9. PICK n : n = Cardinality(batch) OBVIOUS
<1>10. PICK r : r = [q EXCEPT !.rows = rest, !.purged = q.purged + n] OBVIOUS
<1>11. /\ events' = events \ batch /\ erased' = erased \cup batch
       /\ purge' = [purge EXCEPT ![p] = r]
       /\ UNCHANGED <<writing, listing, archived, told, untold, clock>>
  <2>1. purge' = [purge EXCEPT ![p] =
                    [purge[p] EXCEPT !.rows = rest, !.purged = purge[p].purged + n]]
    BY <1>2, <1>4, <1>5, <1>7, <1>8, <1>9 DEF deleteBatch
  <2>2. events' = events \ batch /\ erased' = erased \cup batch
    BY <1>2, <1>4, <1>5, <1>8 DEF deleteBatch
  <2>3. UNCHANGED <<writing, listing, archived, told, untold, clock>> BY DEF deleteBatch
  <2> QED BY <1>2, <1>10, <2>1, <2>2, <2>3
<1>12. /\ rest \in Seq(Event) /\ ToSet(rest) \subseteq ToSet(s)
       /\ batch \subseteq ToSet(s) /\ batch \subseteq events
  BY <1>4, <1>6, <1>7, <1>8, Parted
<1>13. IsFiniteSet(batch) /\ n \in Nat
  <2>1. IsFiniteSet(batch) BY <1>1, <1>12, FS_Subset DEF Rows, RowsAreDistinct
  <2> QED BY <1>9, <2>1, FS_CardinalityType
<1>14. /\ r \in PurgeRun /\ r.rows = rest /\ r.step = "deleting" /\ r.purged = q.purged + n
       /\ q.purged \in Nat
  <2>1. q \in PurgeRun BY <1>3 DEF Planned
  <2>2. q.purged + n \in Nat /\ q.purged \in Nat BY <1>13, <2>1 DEF PurgeRun
  <2> QED BY <1>3, <1>10, <1>12, <2>1, <2>2 DEF PurgeRun
<1>15. events' \cup erased' = events \cup erased BY <1>11, <1>12
<1>16. Planned(r)'
  <2>1. ToSet(rest) \subseteq ToSet(q.rows) BY <1>4, <1>12
  <2> QED BY <1>3, <1>11, <1>14, <1>15, <2>1 DEF Planned
<1>17. /\ PurgesArePlanned'
       /\ Erasing' = [Erasing EXCEPT ![p] = IF r = Null THEN 0 ELSE r.purged]
  BY <1>1, <1>11, <1>15, <1>16, RunMoves
<1>18. /\ MapThenSumSet(PurgedBy, Purgers) \in Nat
       /\ MapThenSumSet(PurgedBy, Purgers)' = MapThenSumSet(PurgedBy, Purgers) + n
  <2>1. Erasing[p] = q.purged BY <1>2, <1>3 DEF Erasing, PurgedBy
  <2>2. r # Null BY <1>14, AuditAssumption DEF PurgeRun
  <2>3. Erasing \in [Purgers -> Nat] BY <1>1, RunsErase
  <2>4. Erasing' = [Erasing EXCEPT ![p] = q.purged + n] BY <1>14, <1>17, <2>2
  <2>5. Erasing' \in [Purgers -> Nat] BY <1>13, <1>14, <2>3, <2>4
  <2>6. /\ Erasing'[p] = Erasing[p] + n
        /\ \A x \in Purgers : x # p => Erasing'[x] = Erasing[x]
    BY <2>1, <2>3, <2>4
  <2>7. n \in Int BY <1>13
  <2> QED BY <2>3, <2>5, <2>6, <2>7, SumChanges
<1>19. /\ IsFiniteSet(erased') /\ Cardinality(erased') = Cardinality(erased) + n
       /\ IsFiniteSet(events')
  <2>1. erased \cap batch = {} /\ IsFiniteSet(erased) BY <1>1, <1>12 DEF Rows, RowsAreDistinct
  <2>2. /\ IsFiniteSet(erased \cup batch)
        /\ Cardinality(erased \cup batch)
             = Cardinality(erased) + Cardinality(batch) - Cardinality(erased \cap batch)
    BY <1>13, <2>1, FS_Union
  <2>3. Cardinality(erased \cap batch) = 0 BY <2>1, FS_EmptySet
  <2>4. Cardinality(erased) \in Nat BY <2>1, FS_CardinalityType
  <2>5. IsFiniteSet(events') BY <1>1, <1>11, FS_Subset DEF Rows, RowsAreDistinct
  <2> QED BY <1>9, <1>11, <1>13, <2>2, <2>3, <2>4, <2>5
<1>20. Rows'
  <2>1. \A e, f \in events' \cup writing' \cup erased' : e.id = f.id => e = f
    BY <1>1, <1>11, <1>12 DEF Rows, RowsAreDistinct
  <2>2. writing' \cap (events' \cup erased') = {} /\ events' \cap erased' = {}
    BY <1>1, <1>11, <1>12 DEF Rows, RowsAreDistinct
  <2>3. events' \subseteq Event /\ erased' \subseteq Event BY <1>1, <1>11, <1>12 DEF Rows
  <2> QED BY <1>1, <1>11, <1>19, <2>1, <2>2, <2>3 DEF Rows, RowsAreDistinct
<1>21. Listing' BY <1>1, <1>11, <1>15, ListingStays
<1>22. AuditErasuresAreAccounted'
  <2>1. batch \subseteq archived BY <1>3, <1>4, <1>12 DEF Planned
  <2>2. \A e \in batch : e.occurredAt < clock - Retention BY <1>3, <1>4, <1>12 DEF Planned
  <2>3. told \in Nat /\ untold \in Nat /\ Cardinality(erased) \in Nat
    BY <1>1, FS_CardinalityType DEF Rows, RowsAreDistinct
  <2>4. told' + untold' + MapThenSumSet(PurgedBy, Purgers)' = Cardinality(erased')
    BY <1>1, <1>11, <1>13, <1>18, <1>19, <2>3 DEF AuditErasuresAreAccounted
  <2>5. /\ erased' \subseteq archived'
        /\ \A e \in erased' : e.occurredAt < clock' - Retention
    BY <1>1, <1>11, <2>1, <2>2 DEF AuditErasuresAreAccounted
  <2> QED BY <2>4, <2>5 DEF AuditErasuresAreAccounted
<1> QED BY <1>17, <1>20, <1>21, <1>22, AInvPartsNext

\* A run is over: what it erased is counted elsewhere.
LEMMA RunEnds ==
  ASSUME Rows, PurgesArePlanned, NEW p \in Purgers, purge[p] # Null,
         purge' = [purge EXCEPT ![p] = Null],
         events \cup erased \subseteq events' \cup erased',
         (events' \ events) \cap (events \cup erased) = {},
         UNCHANGED <<archived, clock>>
  PROVE  /\ PurgesArePlanned' /\ purge[p].purged \in Nat
         /\ MapThenSumSet(PurgedBy, Purgers) \in Nat
         /\ MapThenSumSet(PurgedBy, Purgers)'
              = MapThenSumSet(PurgedBy, Purgers) - purge[p].purged
<1>1. /\ PurgesArePlanned'
      /\ Erasing' = [Erasing EXCEPT ![p] = IF Null = Null THEN 0 ELSE Null.purged]
  BY RunMoves
<1>2. PICK n : n = purge[p].purged OBVIOUS
<1>3. n \in Nat
  <2>1. purge[p] \in PurgeRun BY DEF PurgesArePlanned, Planned
  <2> QED BY <1>2, <2>1 DEF PurgeRun
<1>4. Erasing[p] = n BY <1>2 DEF Erasing, PurgedBy
<1>5. Erasing \in [Purgers -> Nat] BY RunsErase
<1>6. Erasing' = [Erasing EXCEPT ![p] = 0] BY <1>1
<1>7. /\ Erasing' \in [Purgers -> Nat] /\ Erasing'[p] = Erasing[p] + (0 - n)
      /\ \A q \in Purgers : q # p => Erasing'[q] = Erasing[q]
  BY <1>3, <1>4, <1>5, <1>6
<1>8. 0 - n \in Int BY <1>3
<1>9. /\ MapThenSumSet(PurgedBy, Purgers) \in Nat
      /\ MapThenSumSet(PurgedBy, Purgers)' = MapThenSumSet(PurgedBy, Purgers) + (0 - n)
  BY <1>5, <1>7, <1>8, SumChanges
<1> QED BY <1>1, <1>2, <1>3, <1>9

\* It says how much it erased.
LEMMA RecordKeeps ==
  ASSUME AInv, NEW p \in Purgers, NEW id \in EventIds, RecordPurge(p, id)
  PROVE  AInv'
<1>1. Rows /\ Listing /\ PurgesArePlanned /\ AuditErasuresAreAccounted BY AInvParts
<1>2. PICK e : e = [id |-> id, occurredAt |-> clock, action |-> "audit.purged"] OBVIOUS
<1>3. /\ purge[p] # Null /\ Fresh(id)
      /\ events' = events \cup {e} /\ told' = told + purge[p].purged
      /\ purge' = [purge EXCEPT ![p] = Null]
      /\ UNCHANGED <<writing, listing, archived, erased, untold, clock>>
  BY <1>2 DEF RecordPurge
<1>4. /\ e \in Event /\ e \notin events \cup writing \cup erased
      /\ \A f \in events \cup writing \cup erased : f.id # e.id
  BY <1>1, <1>2, <1>3, NewEvent
<1>5. (events' \ events) \cap (events \cup erased) = {} /\ events \subseteq events'
  BY <1>3, <1>4
<1>6. /\ PurgesArePlanned' /\ purge[p].purged \in Nat
      /\ MapThenSumSet(PurgedBy, Purgers) \in Nat
      /\ MapThenSumSet(PurgedBy, Purgers)'
           = MapThenSumSet(PurgedBy, Purgers) - purge[p].purged
  BY <1>1, <1>3, <1>5, RunEnds
<1>7. Rows'
  <2>1. IsFiniteSet(events') BY <1>1, <1>3, FS_AddElement DEF Rows, RowsAreDistinct
  <2>2. \A f, g \in events' \cup writing' \cup erased' : f.id = g.id => f = g
    BY <1>1, <1>3, <1>4 DEF Rows, RowsAreDistinct
  <2>3. writing' \cap (events' \cup erased') = {} /\ events' \cap erased' = {}
    BY <1>1, <1>3, <1>4 DEF Rows, RowsAreDistinct
  <2>4. told' \in Nat BY <1>1, <1>3, <1>6 DEF Rows
  <2>5. events' \subseteq Event BY <1>1, <1>3, <1>4 DEF Rows
  <2> QED BY <1>1, <1>3, <2>1, <2>2, <2>3, <2>4, <2>5 DEF Rows, RowsAreDistinct
<1>8. Listing' BY <1>1, <1>3, <1>5, ListingStays
<1>9. AuditErasuresAreAccounted'
  <2>1. told \in Nat /\ untold \in Nat /\ Cardinality(erased) \in Nat
    BY <1>1, FS_CardinalityType DEF Rows, RowsAreDistinct
  <2>2. told' + untold' + MapThenSumSet(PurgedBy, Purgers)' = Cardinality(erased)
    BY <1>1, <1>3, <1>6, <2>1 DEF AuditErasuresAreAccounted
  <2> QED BY <1>1, <1>3, <2>2 DEF AuditErasuresAreAccounted
<1> QED BY <1>6, <1>7, <1>8, <1>9, AInvPartsNext

\* It stops before it has said so.
LEMMA StopKeeps ==
  ASSUME AInv, NEW p \in Purgers, StopPurge(p)
  PROVE  AInv'
<1>1. Rows /\ Listing /\ PurgesArePlanned /\ AuditErasuresAreAccounted BY AInvParts
<1>2. /\ purge[p] # Null /\ untold' = untold + purge[p].purged
      /\ purge' = [purge EXCEPT ![p] = Null]
      /\ UNCHANGED <<events, writing, listing, archived, erased, told, clock>>
  BY DEF StopPurge
<1>3. /\ PurgesArePlanned' /\ purge[p].purged \in Nat
      /\ MapThenSumSet(PurgedBy, Purgers) \in Nat
      /\ MapThenSumSet(PurgedBy, Purgers)'
           = MapThenSumSet(PurgedBy, Purgers) - purge[p].purged
  BY <1>1, <1>2, RunEnds
<1>4. Rows'
  <2>1. untold' \in Nat BY <1>1, <1>2, <1>3 DEF Rows
  <2> QED BY <1>1, <1>2, <2>1 DEF Rows, RowsAreDistinct
<1>5. Listing' BY <1>1, <1>2, ListingStays
<1>6. AuditErasuresAreAccounted'
  <2>1. told \in Nat /\ untold \in Nat /\ Cardinality(erased) \in Nat
    BY <1>1, FS_CardinalityType DEF Rows, RowsAreDistinct
  <2>2. told' + untold' + MapThenSumSet(PurgedBy, Purgers)' = Cardinality(erased)
    BY <1>1, <1>2, <1>3, <2>1 DEF AuditErasuresAreAccounted
  <2> QED BY <1>1, <1>2, <2>2 DEF AuditErasuresAreAccounted
<1> QED BY <1>3, <1>4, <1>5, <1>6, AInvPartsNext

\* Time passes, or nothing does.
LEMMA ElapseKeeps ==
  ASSUME AInv, Elapse \/ UNCHANGED auditVars
  PROVE  AInv'
<1>1. Rows /\ Listing /\ PurgesArePlanned /\ AuditErasuresAreAccounted BY AInvParts
<1>2. /\ UNCHANGED <<events, writing, listing, purge, archived, erased, told, untold>>
      /\ clock' = clock \/ (clock < MaxTime /\ clock' = clock + 1)
  BY DEF Elapse, auditVars
<1>3. clock' \in 0 .. MaxTime
  <2>1. MaxTime \in Nat /\ clock \in 0 .. MaxTime BY <1>1, AuditAssumption DEF Rows
  <2> QED BY <1>2, <2>1
<1>4. Rows' BY <1>1, <1>2, <1>3 DEF Rows, RowsAreDistinct
<1>5. Listing' BY <1>1, <1>2, ListingStays
<1>6. PurgesArePlanned' BY <1>1, <1>2, RunsStay
<1>7. AuditErasuresAreAccounted' BY <1>1, <1>2, AccountsStay DEF Erasing, PurgedBy
<1> QED BY <1>4, <1>5, <1>6, <1>7, AInvPartsNext

\* Every step of the log, and of the other parts.
LEMMA AuditStep == AInv /\ (AuditNext \/ UNCHANGED auditVars) => AInv'
BY WriteKeeps, EndWriteKeeps, FirstPageKeeps, NextPageKeeps, PlanKeeps, ArchiveKeeps,
   BatchKeeps, RecordKeeps, StopKeeps, ElapseKeeps DEF AuditNext

\* The log is empty at the start.
LEMMA AuditStart == AuditInit => AInv
<1> SUFFICES ASSUME AuditInit PROVE AInv
  OBVIOUS
<1>1. /\ events = {} /\ writing = {} /\ archived = {} /\ erased = {} /\ listing = Null
      /\ purge = [p \in Purgers |-> Null] /\ told = 0 /\ untold = 0 /\ clock = 0
  BY DEF AuditInit
<1>2. IsFiniteSet({}) /\ Cardinality({}) = 0 BY FS_EmptySet
<1>3. Rows BY <1>1, <1>2, AuditAssumption DEF Rows, RowsAreDistinct
<1>4. Listing BY <1>1 DEF Listing, PagesAreComplete, WalkIsKept
<1>5. PurgesArePlanned BY <1>1 DEF PurgesArePlanned
<1>6. Erasing = [p \in Purgers |-> 0] BY <1>1 DEF Erasing, PurgedBy
<1>7. MapThenSumSet(PurgedBy, Purgers) = 0
  <2>1. PICK h : h = [p \in Purgers |-> 0] OBVIOUS
  <2>2. h \in [Purgers -> Nat] /\ Units(h, Purgers) = {} BY <2>1 DEF Units
  <2>3. MapThenSumSet(PurgedBy, Purgers) = Cardinality(Units(h, Purgers))
    BY <1>6, <2>1, <2>2, SumCountsUnits DEF SumCounts
  <2> QED BY <1>2, <2>2, <2>3
<1>8. AuditErasuresAreAccounted BY <1>1, <1>2, <1>7 DEF AuditErasuresAreAccounted
<1> QED BY <1>3, <1>4, <1>5, <1>8, AInvParts

-----------------------------------------------------------------------------
(* The cleanup. *)

DevInv == DevTypeOK /\ RetainedSurvive

\* The script deletes what it planned and nobody got attached to since.
LEMMA DevStep == DevInv /\ (DevNext \/ UNCHANGED devVars) => DevInv'
<1> SUFFICES ASSUME DevInv, DevNext \/ UNCHANGED devVars PROVE DevInv'
  OBVIOUS
<1>1. /\ devActivity \in [DevActivities -> DevActivityRow \cup {Null}]
      /\ cleanup = Null \/ cleanup \subseteq DevActivities
      /\ wiped \subseteq DevActivityRow /\ RetainedSurvive
  BY DEF DevInv, DevTypeOK
<1>2. ASSUME NEW pattern \in Patterns, PlanCleanup(pattern) PROVE DevInv'
  BY <1>1, <1>2
  DEF PlanCleanup, resolveCleanupScope, Stored, DevInv, DevTypeOK, RetainedSurvive
<1>3. ASSUME ApplyCleanup PROVE DevInv'
  <2>1. PICK ids : ids = cleanup \cap Stored OBVIOUS
  <2>2. /\ cleanup # Null /\ cleanup' = Null
        /\ \/ /\ activities_restrict(ids)
              /\ devActivity' =
                   [a \in DevActivities |-> IF a \in ids THEN Null ELSE devActivity[a]]
              /\ wiped' = wiped \cup {devActivity[a] : a \in ids}
           \/ UNCHANGED <<devActivity, wiped>>
    BY <1>3, <2>1 DEF ApplyCleanup
  <2>3. \A a \in ids : devActivity[a] \in DevActivityRow BY <1>1, <2>1 DEF Stored
  <2>4. devActivity' \in [DevActivities -> DevActivityRow \cup {Null}] BY <1>1, <2>2
  <2>5. wiped' \subseteq DevActivityRow BY <1>1, <2>2, <2>3
  <2>6. RetainedSurvive' BY <1>1, <2>2 DEF RetainedSurvive, activities_restrict
  <2> QED BY <2>2, <2>4, <2>5, <2>6 DEF DevInv, DevTypeOK
<1>4. ASSUME NEW a \in DevActivities, NEW name \in Names,
             Attend(a) \/ Alert(a) \/ Rename(a, name)
      PROVE  DevInv'
  <2>1. PICK r : r = devActivity[a] OBVIOUS
  <2>2. r \in DevActivityRow BY <1>1, <1>4, <2>1 DEF Attend, Alert, Rename, Stored
  <2>3. \E k \in DevActivityRow : devActivity' = [devActivity EXCEPT ![a] = k]
    <3>1. CASE Attend(a)
      <4>1. devActivity' = [devActivity EXCEPT ![a] = [r EXCEPT !.attendance = TRUE]]
        BY <2>1, <3>1 DEF Attend
      <4>2. [r EXCEPT !.attendance = TRUE] \in DevActivityRow BY <2>2 DEF DevActivityRow
      <4> QED BY <4>1, <4>2
    <3>2. CASE Alert(a)
      <4>1. devActivity' = [devActivity EXCEPT ![a] = [r EXCEPT !.alerts = TRUE]]
        BY <2>1, <3>2 DEF Alert
      <4>2. [r EXCEPT !.alerts = TRUE] \in DevActivityRow BY <2>2 DEF DevActivityRow
      <4> QED BY <4>1, <4>2
    <3>3. CASE Rename(a, name)
      <4>1. devActivity' = [devActivity EXCEPT ![a] = [r EXCEPT !.name = name]]
        BY <2>1, <3>3 DEF Rename
      <4>2. [r EXCEPT !.name = name] \in DevActivityRow BY <2>2 DEF DevActivityRow
      <4> QED BY <4>1, <4>2
    <3> QED BY <1>4, <3>1, <3>2, <3>3
  <2>4. devActivity' \in [DevActivities -> DevActivityRow \cup {Null}] BY <1>1, <2>3
  <2>5. UNCHANGED <<cleanup, wiped>> BY <1>4 DEF Attend, Alert, Rename
  <2> QED BY <1>1, <2>4, <2>5 DEF DevInv, DevTypeOK, RetainedSurvive
<1>5. CASE UNCHANGED devVars BY <1>1, <1>5 DEF devVars, DevInv, DevTypeOK, RetainedSurvive
<1>6. ASSUME NEW a \in DevActivities, Attend(a) \/ Alert(a) PROVE DevInv'
  <2>1. "regular" \in Names BY DEF Names
  <2> QED BY <1>4, <1>6, <2>1
<1> QED BY <1>2, <1>3, <1>4, <1>5, <1>6 DEF DevNext

\* No activity is attended when the script begins.
LEMMA DevStart ==
  ASSUME \/ DevInit
         \/ devActivity = [a \in DevActivities |-> Null] /\ cleanup = Null /\ wiped = {}
  PROVE  DevInv
BY DEF DevInit, DevInv, DevTypeOK, DevActivityRow, RetainedSurvive

-----------------------------------------------------------------------------
(* One part at work, the others at rest. *)

OInv == AInv /\ DevInv /\ SInv /\ ReadInv

\* Every part starts as it promises, whichever is at work.
LEMMA OInvInit == Init => OInv
<1>1. Init => AuditInit /\ ServerInit /\ ReadInit BY DEF Init
<1>2. Init => \/ DevInit
              \/ devActivity = [a \in DevActivities |-> Null] /\ cleanup = Null /\ wiped = {}
  BY DEF Init
<1> QED BY <1>1, <1>2, AuditStart, DevStart, SInvInit, ReadStart DEF OInv

\* A step is a step of one part.
LEMMA OInvNext == OInv /\ [Next]_vars => OInv'
<1>1. [Next]_vars => /\ AuditNext \/ UNCHANGED auditVars
                     /\ DevNext \/ UNCHANGED devVars
                     /\ [ServerNext]_serverVars
                     /\ Tick \/ UNCHANGED readVars
  BY DEF Next, vars, AuditIdle, DevIdle, ServerIdle, ReadIdle
<1> QED BY <1>1, AuditStep, DevStep, ServerStep, ReadStep DEF OInv

\* The log, the cleanup, the server and the clock keep what they promise together.
THEOREM OInvAlways == Spec => []OInv
BY OInvInit, OInvNext, PTL DEF Spec

\* The three forms of the temporal cut draw one boundary at every instant: the filter of the
\* listings and the detail view, the guard of archival and of deactivation, and the archive
\* trigger (resolveActivityStatus, buildEffectiveStatusWhere, validate_event_program_transition).
THEOREM TemporalCutsAgreeAlways == Spec => []TemporalCutsAgree
<1>1. OInv => TemporalCutsAgree BY CutsAgree DEF OInv
<1> QED BY <1>1, OInvAlways, PTL

\* The status shown for an unchanged row only advances, one status at a time for a clock that
\* shows every instant (resolveActivityStatus).
THEOREM StatusOnlyAdvancesAlways == Spec => StatusOnlyAdvances
<1>1. OInv /\ [Next]_vars => [StatusAdvances]_readVars
  <2>1. [Next]_vars => Tick \/ UNCHANGED readVars
    BY DEF Next, vars, AuditIdle, DevIdle, ServerIdle, ReadIdle
  <2> QED BY <2>1, TickAdvances DEF OInv
<1> QED BY <1>1, OInvAlways, PTL DEF Spec, StatusOnlyAdvances

\* However pages, writes that commit late and purges interleave, the pages of a listing are one
\* descending list that leaves out nothing which was there and still is (listAuditEvents).
THEOREM PagesAreCompleteAlways == Spec => []PagesAreComplete
<1>1. OInv => PagesAreComplete BY DEF OInv, AInv
<1> QED BY <1>1, OInvAlways, PTL

\* Whatever runs of the purge overlap, stop or see each other's rows gone, what left the log is
\* archived, was old enough and is counted once (purge-audit-events.ts); and no activity that
\* somebody attended or was told of is wiped (cleanup-dev-activities.ts).
THEOREM ErasuresAreAccountedAlways == Spec => []ErasuresAreAccounted
<1>1. OInv => ErasuresAreAccounted BY 
  DEF OInv, AInv, DevInv, SInv, ReadInv, ErasuresAreAccounted, TypeOK
<1> QED BY <1>1, OInvAlways, PTL

\* A process that ends with code 0 has closed every server, answered every request it had
\* accepted and left no connection open, however signals, failures and the deadline fall
\* (shutdown and exitWithFlush, server.ts).
THEOREM CleanExitAlways == Spec => []CleanExit
<1>1. OInv => CleanExit BY CleanEnd DEF OInv
<1> QED BY <1>1, OInvAlways, PTL
=============================================================================
