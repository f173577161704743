-------------------------- MODULE ServerLifecycle --------------------------
(***************************************************************************)
(* The process of the API (src/server.ts): it listens on the port of the   *)
(* API, then on the one of the metrics, and it ends by a signal, by a      *)
(* fatal error or by its deadline, while requests are being served.        *)
(* Sockets, Prisma's pool and the logger's flush are external: what they   *)
(* answer, and when, is a choice.                                          *)
(***************************************************************************)
EXTENDS Absent, Naturals, FiniteSets

CONSTANTS
  MaxRequests,     (* bound: requests in flight on one server              *)
  MaxSignals       (* bound: signals the process gets                      *)

Shutdowns == [step : {"closing", "disconnecting", "done"}, code : {0, 1}]

ASSUME ServerLifecycleAssumption ==
  /\ MaxRequests \in Nat /\ MaxSignals \in Nat
  /\ Null \notin {0, 1} \cup Shutdowns

API == "api"
Metrics == "metrics"

VARIABLES
  server,      (* of each server there is: "new", "binding", "listening",  *)
               (* "closing" or "closed"; the metrics may be disabled       *)
  inFlight,    (* requests a server has accepted and not answered          *)
  starting,    (* what startApplication awaits: a server, "api closed"     *)
               (* after the metrics failed, or Null when it has returned   *)
  shuttingDown,(* Null, or the step of shutdown and the exit code so far   *)
  deadline,    (* the timer of shutdown is armed                           *)
  connected,   (* Prisma holds its connections                             *)
  signals,     (* signals received                                         *)
  exiting,     (* exit codes whose flush is under way                      *)
  exitCode     (* Null while the process runs                              *)

serverVars == <<server, inFlight, starting, shuttingDown, deadline, connected,
                signals, exiting, exitCode>>

Servers == DOMAIN server

ServerInit ==
  /\ \E enabled \in {{API}, {API, Metrics}} :
       server = [s \in enabled |-> IF s = API THEN "binding" ELSE "new"]
  /\ inFlight = [s \in {API, Metrics} |-> 0]
  /\ starting = API
  /\ shuttingDown = Null
  /\ deadline = FALSE
  /\ connected = TRUE
  /\ signals = 0
  /\ exiting = {}
  /\ exitCode = Null

Running == exitCode = Null

\* The process ends once the logger has flushed; it runs on until then.
exitWithFlush(code) == exiting' = exiting \cup {code}

\* closeServer waits for the requests of a server that listens, or that another
\* call is closing; all but the first call that finds it listening get an error.
closeServers(closed) ==
  server' = [s \in Servers |->
               IF s \in closed /\ server[s] = "listening" THEN "closing" ELSE server[s]]

(***************************************************************************)
(* startApplication                                                        *)
(***************************************************************************)
Listening(s) ==
  /\ Running /\ starting = s /\ server[s] = "binding"
  /\ IF s = API /\ Metrics \in Servers
     THEN /\ server' = [server EXCEPT ![API] = "listening", ![Metrics] = "binding"]
          /\ starting' = Metrics
     ELSE /\ server' = [server EXCEPT ![s] = "listening"]
          /\ starting' = Null
  /\ UNCHANGED <<inFlight, shuttingDown, deadline, connected, signals, exiting, exitCode>>

\* The port is taken.  The API does not stay up without the metrics.
ListenFails ==
  /\ Running /\ starting = API /\ server[API] = "binding"
  /\ server' = [server EXCEPT ![API] = "new"]
  /\ starting' = Null
  /\ exitWithFlush(1)
  /\ UNCHANGED <<inFlight, shuttingDown, deadline, connected, signals, exitCode>>

MetricsFail ==
  /\ Running /\ starting = Metrics /\ server[Metrics] = "binding"
  /\ closeServers({API})
  /\ starting' = "api closed"
  /\ UNCHANGED <<inFlight, shuttingDown, deadline, connected, signals, exiting, exitCode>>

StartFails ==
  /\ Running /\ starting = "api closed" /\ server[API] # "closing"
  /\ starting' = Null
  /\ exitWithFlush(1)
  /\ UNCHANGED <<server, inFlight, shuttingDown, deadline, connected, signals, exitCode>>

(***************************************************************************)
(* Requests.  A server that closes accepts none and waits for those it has.*)
(***************************************************************************)
Accept(s) ==
  /\ Running /\ server[s] = "listening" /\ inFlight[s] < MaxRequests
  /\ inFlight' = [inFlight EXCEPT ![s] = @ + 1]
  /\ UNCHANGED <<server, starting, shuttingDown, deadline, connected, signals, exiting, exitCode>>

Answer(s) ==
  /\ Running /\ inFlight[s] > 0
  /\ inFlight' = [inFlight EXCEPT ![s] = @ - 1]
  /\ UNCHANGED <<server, starting, shuttingDown, deadline, connected, signals, exiting, exitCode>>

Closed(s) ==
  /\ Running /\ server[s] = "closing" /\ inFlight[s] = 0
  /\ server' = [server EXCEPT ![s] = "closed"]
  /\ UNCHANGED <<inFlight, starting, shuttingDown, deadline, connected, signals, exiting, exitCode>>

(***************************************************************************)
(* shutdown.  The first signal counts.  The servers close side by side;    *)
(* when all have settled the pool is disconnected, and the deadline is     *)
(* cleared only then.                                                      *)
(***************************************************************************)
shutdown ==
  /\ Running /\ signals < MaxSignals
  /\ signals' = signals + 1
  /\ IF shuttingDown # Null
     THEN UNCHANGED <<server, shuttingDown, deadline>>
     ELSE /\ shuttingDown' = [step |-> "closing",
                              code |-> IF \A s \in Servers : server[s] = "listening" THEN 0 ELSE 1]
          /\ closeServers(Servers)
          /\ deadline' = TRUE
  /\ UNCHANGED <<inFlight, starting, connected, exiting, exitCode>>

\* Mutation: the deadline is cleared before the pool is asked to disconnect.
Settled_ClearsDeadline ==
  /\ Running /\ shuttingDown # Null /\ shuttingDown.step = "closing"
  /\ \A s \in Servers : server[s] # "closing"
  /\ shuttingDown' = [shuttingDown EXCEPT !.step = "disconnecting"]
  /\ deadline' = FALSE
  /\ UNCHANGED <<server, inFlight, starting, connected, signals, exiting, exitCode>>

Settled ==
  /\ Running /\ shuttingDown # Null /\ shuttingDown.step = "closing"
  /\ \A s \in Servers : server[s] # "closing"
  /\ shuttingDown' = [shuttingDown EXCEPT !.step = "disconnecting"]
  /\ UNCHANGED <<server, inFlight, starting, deadline, connected, signals, exiting, exitCode>>

\* disconnectPrisma ends, or fails; it may also never answer.
Disconnected(ok) ==
  /\ Running /\ shuttingDown # Null /\ shuttingDown.step = "disconnecting"
  /\ connected' = ~ok
  /\ shuttingDown' = [shuttingDown EXCEPT !.step = "done"]
  /\ deadline' = FALSE
  /\ exitWithFlush(IF ok THEN shuttingDown.code ELSE 1)
  /\ UNCHANGED <<server, inFlight, starting, signals, exitCode>>

Forced ==
  /\ Running /\ deadline
  /\ deadline' = FALSE
  /\ exitWithFlush(1)
  /\ UNCHANGED <<server, inFlight, starting, shuttingDown, connected, signals, exitCode>>

\* registerFatalHandlers, and the 'error' of a server that listens.
Fatal ==
  /\ Running /\ 1 \notin exiting
  /\ exitWithFlush(1)
  /\ UNCHANGED <<server, inFlight, starting, shuttingDown, deadline, connected, signals, exitCode>>

Exit(code) ==
  /\ Running /\ code \in exiting
  /\ exitCode' = code
  /\ UNCHANGED <<server, inFlight, starting, shuttingDown, deadline, connected, signals, exiting>>

ServerNext ==
  \/ \E s \in Servers :
       Listening(s) \/ Accept(s) \/ Answer(s) \/ Closed(s)
  \/ ListenFails \/ MetricsFail \/ StartFails \/ shutdown \/ Settled \/ Forced \/ Fatal
  \/ \E ok \in BOOLEAN : Disconnected(ok)
  \/ \E code \in {0, 1} : Exit(code)

\* The timer fires when it is due and the log is flushed.  Requests, the pool
\* and the clients owe nothing: a request may hang, and so may the pool.
ServerFairness ==
  /\ WF_serverVars(Forced)
  /\ WF_serverVars(\E code \in {0, 1} : Exit(code))

-----------------------------------------------------------------------------
ServerTypeOK ==
  /\ Servers \in {{API}, {API, Metrics}}
  /\ server \in [Servers -> {"new", "binding", "listening", "closing", "closed"}]
  /\ inFlight \in [{API, Metrics} -> 0..MaxRequests]
  /\ starting \in {API, Metrics} \cup {"api closed", Null}
  /\ shuttingDown \in {Null} \cup Shutdowns
  /\ deadline \in BOOLEAN /\ connected \in BOOLEAN
  /\ signals \in 0..MaxSignals
  /\ exiting \subseteq {0, 1} /\ exitCode \in {0, 1, Null}

\* Exit code 0 tells the operator that nothing was cut: no server listens,
\* no request was being served and no connection was left open.
CleanExit ==
  exitCode = 0 =>
    /\ \A s \in Servers : server[s] = "closed" /\ inFlight[s] = 0
    /\ ~connected

\* A process that was told to end ends, also when a request never does.
SignalsEndIt == signals > 0 ~> ~Running
=============================================================================
