---------------------------- MODULE DevCleanup ----------------------------
(***************************************************************************)
(* prisma/scripts/cleanup-dev-activities.ts: activities whose name matches *)
(* a pattern are deleted past the trigger that forbids it, unless somebody *)
(* attended them or was alerted about them.  The script reads, plans, and  *)
(* deletes in one transaction; the API serves requests meanwhile.          *)
(***************************************************************************)
EXTENDS Absent, Naturals, FiniteSets

CONSTANT DevActivities

(* Text is abstracted to what a pattern tells apart.                       *)
Names == {"temporal", "regular"}
Patterns == {"Actividad temporal%", "%", ""}

VARIABLES
  devActivity,   (* rows of activities, with the rows that refer to them   *)
  cleanup,       (* ids the script is about to delete, or Null             *)
  wiped          (* rows it deleted, as they were                          *)

devVars == <<devActivity, cleanup, wiped>>

DevActivityRow == [name : Names, attendance : BOOLEAN, alerts : BOOLEAN]

Stored == {a \in DevActivities : devActivity[a] # Null}

\* The database has some activities, none of them attended yet.
DevInit ==
  /\ devActivity \in [DevActivities -> {Null} \cup
                        [name : Names, attendance : {FALSE}, alerts : {FALSE}]]
  /\ cleanup = Null
  /\ wiped = {}

likeMatches(name, pattern) ==
  \/ pattern = "%"
  \/ pattern = "Actividad temporal%" /\ name = "temporal"

\* An empty pattern matches nothing here, although LIKE '' would.
resolveCleanupScope(pattern) ==
  {a \in Stored : /\ likeMatches(devActivity[a].name, pattern)
                  /\ ~devActivity[a].attendance
                  /\ ~devActivity[a].alerts}

\* A pattern that covers every name is refused, also when rows are retained.
planDevCleanup(pattern) ==
  /\ resolveCleanupScope(pattern) # {}
  /\ Cardinality(Stored) > 1 =>
       \E a \in Stored : ~likeMatches(devActivity[a].name, pattern)

PlanCleanup(pattern) ==
  /\ cleanup = Null
  /\ planDevCleanup(pattern)
  /\ cleanup' = resolveCleanupScope(pattern)
  /\ UNCHANGED <<devActivity, wiped>>

\* Foreign keys RESTRICT: one row that got attendance or an alert since the
\* plan fails the whole transaction, and the triggers are as they were.
activities_restrict(ids) ==
  \A a \in ids : ~devActivity[a].attendance /\ ~devActivity[a].alerts

ApplyCleanup ==
  LET ids == cleanup \cap Stored
  IN  /\ cleanup # Null
      /\ IF activities_restrict(ids)
         THEN /\ devActivity' = [a \in DevActivities |-> IF a \in ids THEN Null ELSE devActivity[a]]
              /\ wiped' = wiped \cup {devActivity[a] : a \in ids}
         ELSE UNCHANGED <<devActivity, wiped>>
      /\ cleanup' = Null

\* What the API does meanwhile.
Attend(a) ==
  /\ a \in Stored
  /\ devActivity' = [devActivity EXCEPT ![a].attendance = TRUE]
  /\ UNCHANGED <<cleanup, wiped>>

Alert(a) ==
  /\ a \in Stored
  /\ devActivity' = [devActivity EXCEPT ![a].alerts = TRUE]
  /\ UNCHANGED <<cleanup, wiped>>

Rename(a, name) ==
  /\ a \in Stored
  /\ devActivity' = [devActivity EXCEPT ![a].name = name]
  /\ UNCHANGED <<cleanup, wiped>>

DevNext ==
  \/ \E pattern \in Patterns : PlanCleanup(pattern)
  \/ ApplyCleanup
  \/ \E a \in DevActivities : Attend(a) \/ Alert(a) \/ \E name \in Names : Rename(a, name)

-----------------------------------------------------------------------------
DevTypeOK ==
  /\ devActivity \in [DevActivities -> DevActivityRow \cup {Null}]
  /\ cleanup = Null \/ cleanup \subseteq DevActivities
  /\ wiped \subseteq DevActivityRow

(***************************************************************************)
(* What somebody attended, or was alerted about, is never wiped, also when *)
(* it happened after the plan.                                             *)
(***************************************************************************)
RetainedSurvive == \A row \in wiped : ~row.attendance /\ ~row.alerts
=============================================================================
