----------------------------- MODULE Database ------------------------------
(***************************************************************************)
(* The PostgreSQL tables behind units, programs, activities and            *)
(* classrooms, with the CHECK constraints, the exclusion constraint and    *)
(* the triggers of prisma/migrations, and the requests the API has in      *)
(* flight.                                                                 *)
(*                                                                         *)
(* A request of the API first reads rows and checks its guards with        *)
(* ordinary queries, outside any transaction, and then runs one            *)
(* transaction.  Between the two, other requests may commit.  tx[w] is the *)
(* transaction request w is about to run: what it will write was decided   *)
(* from what it read.  The transaction is one atomic step, because the row *)
(* locks its triggers take serialise it against the others.  When a        *)
(* constraint refuses it, nothing of it is written.                        *)
(***************************************************************************)
EXTENDS ActivityStatus

CONSTANTS
  Units, Programs, Activities, Classrooms,    (* Row ids.                  *)
  Reasons,          (* Texts a client may give for cancelling.             *)
  Dates, Times,     (* Dates and times of day requests may name.           *)
  Owner,            (* The unit of each program; never rewritten.          *)
  DefaultProgram,   (* The default program of each unit.                   *)
  Workers,          (* Requests that can be in flight at the same time.    *)
  Null,             (* SQL NULL; also a row, or a transaction, not there.  *)
  Undefined         (* A field the body of a request does not have.        *)

VARIABLES
  unit,           (* organizational_units                                  *)
  program,        (* event_programs                                        *)
  activity,       (* activities                                            *)
  classroom,      (* classrooms: the is_active column                      *)
  retained,       (* activities an alert or attendance row refers to       *)
  activityAudit,  (* last life-cycle audit event of each activity          *)
  programAudit,   (* last life-cycle audit event of each program           *)
  now,            (* the instant the clock shows                           *)
  tx              (* the transaction each request is about to run          *)

tables == <<unit, program, activity, classroom, retained, activityAudit, programAudit>>
vars == <<unit, program, activity, classroom, retained,
          activityAudit, programAudit, now, tx>>

-----------------------------------------------------------------------------
(* Rows. *)

UnitStates == {"NONE", "ACTIVE", "INACTIVE"}
ProgramStatuses == {"DRAFT", "ACTIVE", "COMPLETED", "CANCELLED", "ARCHIVED"}

ActivityRow ==
  [status : ActivityStatuses, eventProgram : Programs, date : Dates,
   startTime : Times, endTime : Times, classroom : Classrooms \cup {Null},
   cancelReason : Reasons \cup {Null}]

ProgramRow ==
  [status : ProgramStatuses, startDate : Dates \cup {Null},
   endDate : Dates \cup {Null}, archived : BOOLEAN]   \* archived_at is set

isDefault(p) == p = DefaultProgram[Owner[p]]

ASSUME SchemaAssumption ==
  /\ Dates \subseteq Int
  /\ Times \subseteq TimesOfDay
  /\ Owner \in [Programs -> Units]
  /\ DefaultProgram \in [Units -> Programs]
  /\ \A u \in Units : Owner[DefaultProgram[u]] = u

ASSUME NullAssumption ==
  /\ Null \notin Dates /\ Null \notin Classrooms /\ Null \notin Reasons
  /\ Null \notin ActivityRow /\ Null \notin ProgramRow
  /\ Undefined \notin Dates /\ Undefined \notin Times
  /\ Undefined \notin Classrooms /\ Undefined \notin ActivityStatuses
  /\ Undefined \notin ProgramStatuses /\ Undefined # Null

activitiesOf(p) ==
  {a \in Activities : activity[a] # Null /\ activity[a].eventProgram = p}

-----------------------------------------------------------------------------
(* Constraints and triggers. *)

activities_time_range_check(row) == row.startTime < row.endTime

\* Mutation: only a booking that starts inside another one collides with it.
Overlapping_AtStart(r, s) ==
  /\ r.classroom # Null
  /\ r.classroom = s.classroom
  /\ r.date = s.date
  /\ s.startTime <= r.startTime
  /\ r.startTime < s.endTime

Overlapping(r, s) ==
  /\ r.classroom # Null
  /\ r.classroom = s.classroom
  /\ r.date = s.date
  /\ r.startTime < s.endTime
  /\ s.startTime < r.endTime

\* Mutation: a unique index on room, date and start time.
activities_classroom_no_overlap_AsUniqueIndex(a, row) ==
  row.status \in RESERVING_STATUSES =>
    \A b \in Activities \ {a} :
      activity[b] # Null /\ activity[b].status \in RESERVING_STATUSES
        => <<row.classroom, row.date, row.startTime>>
             # <<activity[b].classroom, activity[b].date, activity[b].startTime>>

\* EXCLUDE over the partial index on rows with a reserving stored status.
activities_classroom_no_overlap(a, row) ==
  row.status \in RESERVING_STATUSES =>
    \A b \in Activities \ {a} :
      activity[b] # Null /\ activity[b].status \in RESERVING_STATUSES
        => ~Overlapping(row, activity[b])

\* Mutation: the dates of the program are left to the service.
validate_activity_program_WithoutRange(old, new) ==
  \/ old # Null /\ new.date = old.date
     /\ (new.status = old.status \/ new.status \notin RESERVING_STATUSES)
  \/ program[new.eventProgram].status = "ACTIVE"

\* BEFORE INSERT (old is Null) OR UPDATE OF event_program_id, date, status.
validate_activity_program(old, new) ==
  LET p == program[new.eventProgram]
      requiresActiveProgram ==
        \/ old = Null
        \/ new.date # old.date
        \/ new.status # old.status /\ new.status \in RESERVING_STATUSES
  IN  /\ requiresActiveProgram => p.status = "ACTIVE"
      /\ ~isDefault(new.eventProgram) =>
            p.startDate <= new.date /\ new.date <= p.endDate

\* BEFORE DELETE, and the RESTRICT foreign keys of alerts and attendance.
prevent_activity_delete(a) ==
  /\ activity[a].status = "DRAFT"
  /\ program[activity[a].eventProgram].status = "ACTIVE"
  /\ a \notin retained

\* Mutation: status and archived_at are not tied together.
event_programs_checks_WithoutArchiveState(p, new) ==
  /\ isDefault(p) => /\ new.startDate = Null /\ new.endDate = Null
                     /\ new.status \in {"ACTIVE", "ARCHIVED"}
  /\ ~isDefault(p) => /\ new.startDate # Null /\ new.endDate # Null
                      /\ new.startDate <= new.endDate

\* The CHECK constraints of event_programs.
event_programs_checks(p, new) ==
  /\ isDefault(p) => /\ new.startDate = Null /\ new.endDate = Null
                     /\ new.status \in {"ACTIVE", "ARCHIVED"}
  /\ ~isDefault(p) => /\ new.startDate # Null /\ new.endDate # Null
                      /\ new.startDate <= new.endDate
  /\ (new.status = "ARCHIVED") <=> new.archived

\* Mutation: archival trusts the activities the service counted.
validate_event_program_transition_WithoutCount(p, new, ownerActive) ==
  LET old == program[p]
  IN  /\ (~isDefault(p) /\ <<new.startDate, new.endDate>> # <<old.startDate, old.endDate>>)
           => \A a \in activitiesOf(p) :
                new.startDate <= activity[a].date /\ activity[a].date <= new.endDate
      /\ (new.status = "ARCHIVED" /\ old.status # "ARCHIVED" /\ isDefault(p))
           => ~ownerActive

\* BEFORE UPDATE OF status, start_date, end_date.  ownerActive is is_active
\* of the owner as the transaction sees it, its own writes included.
validate_event_program_transition(p, new, ownerActive) ==
  LET old == program[p]
  IN  /\ (~isDefault(p) /\ <<new.startDate, new.endDate>> # <<old.startDate, old.endDate>>)
           => \A a \in activitiesOf(p) :
                new.startDate <= activity[a].date /\ activity[a].date <= new.endDate
      /\ (new.status = "ARCHIVED" /\ old.status # "ARCHIVED")
           => IF isDefault(p)
              THEN ~ownerActive
              ELSE \A a \in activitiesOf(p) : ~TriggerSeesReservation(activity[a], now)

-----------------------------------------------------------------------------
(* Requests in flight. *)

Idle(w) == tx[w] = Null

\* The read phase of request w ends: its guards held and t is what it will run.
Begin(w, t) ==
  /\ Idle(w)
  /\ tx' = [tx EXCEPT ![w] = t]
  /\ UNCHANGED <<tables, now>>

\* The transaction of request w, of kind op, runs in this step.
Commits(w, op) ==
  /\ ~Idle(w)
  /\ tx[w].op = op
  /\ tx' = [tx EXCEPT ![w] = Null]
  /\ UNCHANGED now

\* A field the request leaves out keeps the value of the column.
Given(field, column) == IF field = Undefined THEN column ELSE field
=============================================================================
