--------------------------- MODULE EventPrograms ---------------------------
(***************************************************************************)
(* modules/event-programs: creation, edition, archival and reactivation of *)
(* event programs.  Programs are never deleted.                            *)
(***************************************************************************)
EXTENDS Database

\* The body of PATCH /event-programs/:id; its only status is 'ACTIVE'.
ProgramPatch ==
  [status : {"ACTIVE", Undefined}, startDate : Dates \cup {Undefined},
   endDate : Dates \cup {Undefined}]

ProgramTx ==
       [op : {"createEventProgram"}, unit : Units, startDate : Dates, endDate : Dates]
  \cup [op : {"updateEventProgram"}, id : Programs, data : ProgramPatch]
  \cup [op : {"archiveEventProgram", "reactivateEventProgram"}, id : Programs]

ProgramStatusAfter(action) ==
  CASE action = "event_program.created" -> "DRAFT"
    [] action \in {"event_program.published", "event_program.reactivated"} -> "ACTIVE"
    [] action = "event_program.archived" -> "ARCHIVED"

\* An UPDATE of program p inside a transaction, with its constraints.
UpdatesProgram(p, new) ==
  /\ event_programs_checks(p, new)
  /\ program' = [program EXCEPT ![p] = new]

-----------------------------------------------------------------------------
(* createEventProgram *)

BeginCreateEventProgram(w, u, startDate, endDate) ==
  /\ unit[u] = "ACTIVE"
  /\ Begin(w, [op |-> "createEventProgram", unit |-> u,
               startDate |-> startDate, endDate |-> endDate])

\* The owner is not read again, and no constraint looks at its is_active.
CommitCreateEventProgram(w, p) ==
  LET new == [status |-> "DRAFT", startDate |-> tx[w].startDate,
              endDate |-> tx[w].endDate, archived |-> FALSE]
  IN  /\ Commits(w, "createEventProgram")
      /\ program[p] = Null
      /\ ~isDefault(p) /\ Owner[p] = tx[w].unit
      /\ UpdatesProgram(p, new)
      /\ programAudit' = [programAudit EXCEPT ![p] = "event_program.created"]
      /\ UNCHANGED <<unit, activity, classroom, retained, activityAudit>>

-----------------------------------------------------------------------------
(* updateEventProgram *)

\* Mutation: nothing stops the edition of an archived program.
BeginUpdateEventProgram_WhenArchived(w, p, input) ==
  /\ program[p] # Null
  /\ ~isDefault(p)
  /\ Begin(w, [op |-> "updateEventProgram", id |-> p, data |-> input])

BeginUpdateEventProgram(w, p, input) ==
  LET startDate    == Given(input.startDate, program[p].startDate)
      endDate      == Given(input.endDate, program[p].endDate)
      touchesDates == input.startDate # Undefined \/ input.endDate # Undefined
  IN  /\ program[p] # Null
      /\ program[p].status # "ARCHIVED"
      /\ input.status = "ACTIVE" => program[p].status = "DRAFT"
      /\ touchesDates =>
           /\ ~isDefault(p)
           /\ startDate <= endDate
           /\ \A a \in activitiesOf(p) :
                startDate <= activity[a].date /\ activity[a].date <= endDate
      /\ Begin(w, [op |-> "updateEventProgram", id |-> p, data |-> input])

WriteProgram(row, data) ==
  [row EXCEPT !.status = Given(data.status, @),
              !.startDate = Given(data.startDate, @),
              !.endDate = Given(data.endDate, @)]

\* The update names the row by its id only.
CommitUpdateEventProgram(w) ==
  LET p    == tx[w].id
      data == tx[w].data
      new  == WriteProgram(program[p], data)
  IN  /\ Commits(w, "updateEventProgram")
      /\ validate_event_program_transition(p, new, unit[Owner[p]] = "ACTIVE")
      /\ UpdatesProgram(p, new)
      /\ programAudit' =
           [programAudit EXCEPT ![p] =
              IF data.status = "ACTIVE" THEN "event_program.published" ELSE @]
      /\ UNCHANGED <<unit, activity, classroom, retained, activityAudit>>

-----------------------------------------------------------------------------
(* archiveEventProgram.  An archived program is returned as it is. *)

MayBeArchived(p) ==
  /\ program[p].status # "ARCHIVED"
  /\ IF isDefault(p)
     THEN unit[Owner[p]] # "ACTIVE"
     ELSE \A a \in activitiesOf(p) : ~buildReservingActivityWhere(activity[a], now)

BeginArchiveEventProgram(w, p) ==
  /\ program[p] # Null
  /\ MayBeArchived(p)
  /\ Begin(w, [op |-> "archiveEventProgram", id |-> p])

CommitArchiveEventProgram(w) ==
  LET p   == tx[w].id
      new == [program[p] EXCEPT !.status = "ARCHIVED", !.archived = TRUE]
  IN  /\ Commits(w, "archiveEventProgram")
      /\ validate_event_program_transition(p, new, unit[Owner[p]] = "ACTIVE")
      /\ UpdatesProgram(p, new)
      /\ programAudit' = [programAudit EXCEPT ![p] = "event_program.archived"]
      /\ UNCHANGED <<unit, activity, classroom, retained, activityAudit>>

-----------------------------------------------------------------------------
(* reactivateEventProgram *)

BeginReactivateEventProgram(w, p) ==
  /\ program[p] # Null
  /\ ~isDefault(p)
  /\ program[p].status = "ARCHIVED"
  /\ program[p].startDate <= program[p].endDate
  /\ Begin(w, [op |-> "reactivateEventProgram", id |-> p])

CommitReactivateEventProgram(w) ==
  LET p   == tx[w].id
      new == [program[p] EXCEPT !.status = "ACTIVE", !.archived = FALSE]
  IN  /\ Commits(w, "reactivateEventProgram")
      /\ validate_event_program_transition(p, new, unit[Owner[p]] = "ACTIVE")
      /\ UpdatesProgram(p, new)
      /\ programAudit' = [programAudit EXCEPT ![p] = "event_program.reactivated"]
      /\ UNCHANGED <<unit, activity, classroom, retained, activityAudit>>
=============================================================================
