----------------------------- MODULE Operations -----------------------------
(***************************************************************************)
(* What runs beside the requests: the start and the end of the server, the *)
(* purge of the audit log while it is read, the cleanup of development     *)
(* activities, the seeds, and the clock that gives a stored activity its   *)
(* status.  Each works on rows or servers of its own, so a behaviour is    *)
(* one part at work and the others at rest.                                *)
(***************************************************************************)
EXTENDS AuditEvents, DevCleanup, Seeds, ServerLifecycle, StatusOverTime

VARIABLE part      \* which part is at work

vars == <<auditVars, devVars, seedVars, serverVars, readVars, part>>

AuditIdle == UNCHANGED auditVars
DevIdle == UNCHANGED devVars
SeedIdle == UNCHANGED seedVars
ServerIdle == UNCHANGED serverVars
ReadIdle == UNCHANGED readVars

Init ==
  /\ part \in {"audit", "cleanup", "seeds", "server", "reads"}
  /\ AuditInit /\ SeedInit
  /\ IF part = "cleanup" THEN DevInit
     ELSE devActivity = [a \in DevActivities |-> Null] /\ cleanup = Null /\ wiped = {}
  /\ ServerInit /\ (part # "server" => Servers = {API})
  /\ ReadInit
  /\ part # "reads" =>
       activity = CHOOSE a \in StoredActivity : a.startTime < a.endTime

Next ==
  /\ UNCHANGED part
  /\ \/ part = "audit" /\ AuditNext /\ DevIdle /\ SeedIdle /\ ServerIdle /\ ReadIdle
     \/ part = "cleanup" /\ DevNext /\ AuditIdle /\ SeedIdle /\ ServerIdle /\ ReadIdle
     \/ part = "seeds" /\ SeedNext /\ AuditIdle /\ DevIdle /\ ServerIdle /\ ReadIdle
     \/ part = "server" /\ ServerNext /\ AuditIdle /\ DevIdle /\ SeedIdle /\ ReadIdle
     \/ part = "reads" /\ Tick /\ AuditIdle /\ DevIdle /\ SeedIdle /\ ServerIdle

Spec == Init /\ [][Next]_vars
FairSpec == Spec /\ ServerFairness

-----------------------------------------------------------------------------
TypeOK == AuditTypeOK /\ DevTypeOK /\ ServerTypeOK /\ ReadTypeOK

(***************************************************************************)
(* What a script erases is what it may erase: audit events that are        *)
(* archived, old enough and counted once (purge-audit-events.ts), and      *)
(* activities nobody attended or was told of (cleanup-dev-activities.ts).  *)
(***************************************************************************)
ErasuresAreAccounted == TypeOK /\ AuditErasuresAreAccounted /\ RetainedSurvive

(***************************************************************************)
(* A process that got a signal ends, whatever its requests and its pool    *)
(* do, and exit code 0 means that it cut nobody off (server.ts).           *)
(***************************************************************************)
ShutdownIsGraceful == SignalsEndIt /\ []CleanExit
=============================================================================
