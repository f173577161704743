------------------------ MODULE OrganizationalUnits ------------------------
(***************************************************************************)
(* modules/organizational-units: the life cycle of a unit and of the       *)
(* default program that shares it.                                         *)
(***************************************************************************)
EXTENDS Database

UnitTx ==
  [op : {"createOrganizationalUnit", "deactivateOrganizationalUnit",
         "reactivateOrganizationalUnit"}, id : Units]

DefaultProgramRow(status, archived) ==
  [status |-> status, startDate |-> Null, endDate |-> Null, archived |-> archived]

-----------------------------------------------------------------------------
(* createOrganizationalUnit: u stands for the unit with a given code. *)

BeginCreateOrganizationalUnit(w, u) ==
  /\ unit[u] = "NONE"
  /\ Begin(w, [op |-> "createOrganizationalUnit", id |-> u])

\* The unique index on the code refuses a second unit u.
CommitCreateOrganizationalUnit(w) ==
  LET u == tx[w].id
  IN  /\ Commits(w, "createOrganizationalUnit")
      /\ unit[u] = "NONE"
      /\ unit' = [unit EXCEPT ![u] = "ACTIVE"]
      /\ program' = [program EXCEPT ![DefaultProgram[u]] = DefaultProgramRow("ACTIVE", FALSE)]
      /\ UNCHANGED <<activity, classroom, retained, activityAudit, programAudit>>

-----------------------------------------------------------------------------
(* deactivateOrganizationalUnit *)

\* Mutation: the activities of the default program are not counted.
MayBeDeactivated_WithActivities(u) == unit[u] = "ACTIVE"

MayBeDeactivated(u) ==
  /\ unit[u] = "ACTIVE"
  /\ \A a \in activitiesOf(DefaultProgram[u]) :
       ~buildReservingActivityWhere(activity[a], now)

BeginDeactivateOrganizationalUnit(w, u) ==
  /\ MayBeDeactivated(u)
  /\ Begin(w, [op |-> "deactivateOrganizationalUnit", id |-> u])

\* The unit first, so that the trigger on its program sees it inactive.
CommitDeactivateOrganizationalUnit(w) ==
  LET u   == tx[w].id
      p   == DefaultProgram[u]
      new == [program[p] EXCEPT !.status = "ARCHIVED", !.archived = TRUE]
  IN  /\ Commits(w, "deactivateOrganizationalUnit")
      /\ unit' = [unit EXCEPT ![u] = "INACTIVE"]
      /\ validate_event_program_transition(p, new, FALSE)
      /\ event_programs_checks(p, new)
      /\ program' = [program EXCEPT ![p] = new]
      /\ UNCHANGED <<activity, classroom, retained, activityAudit, programAudit>>

-----------------------------------------------------------------------------
(* reactivateOrganizationalUnit *)

\* Mutation: the trigger is missing.
reactivate_default_event_program_Missing(u) == program

\* The trigger AFTER UPDATE OF is_active, on a unit that was not active.
reactivate_default_event_program(u) ==
  IF unit[u] = "ACTIVE" THEN program
  ELSE [program EXCEPT ![DefaultProgram[u]].status = "ACTIVE",
                       ![DefaultProgram[u]].archived = FALSE]

BeginReactivateOrganizationalUnit(w, u) ==
  /\ unit[u] = "INACTIVE"
  /\ Begin(w, [op |-> "reactivateOrganizationalUnit", id |-> u])

CommitReactivateOrganizationalUnit(w) ==
  LET u == tx[w].id
  IN  /\ Commits(w, "reactivateOrganizationalUnit")
      /\ unit' = [unit EXCEPT ![u] = "ACTIVE"]
      /\ program' = reactivate_default_event_program(u)
      /\ UNCHANGED <<activity, classroom, retained, activityAudit, programAudit>>
=============================================================================
