---------------------------- MODULE Activities -----------------------------
(***************************************************************************)
(* modules/activities: the operations that write an activity, each as the  *)
(* read phase of the service followed by its transaction.                  *)
(***************************************************************************)
EXTENDS Database

\* The body of POST /activities and of PATCH /activities/:id, as far as it
\* can matter: texts, type, speakers, equipment and capacity are left out.
NewActivity ==
  [eventProgram : Programs, date : Dates, startTime : Times, endTime : Times,
   classroom : Classrooms \cup {Null}]

ActivityPatch ==
  [status : {"DRAFT", "SCHEDULED", Undefined}, date : Dates \cup {Undefined},
   startTime : Times \cup {Undefined}, endTime : Times \cup {Undefined},
   classroom : Classrooms \cup {Null, Undefined}]

ActivityTx ==
       [op : {"createActivity"}, row : ActivityRow]
  \cup [op : {"updateActivity"}, id : Activities, data : ActivityPatch]
  \cup [op : {"cancelActivity"}, id : Activities, reason : Reasons \cup {Null}]
  \cup [op : {"deleteActivity"}, id : Activities]

StatusAfter(action) ==
  CASE action \in {"activity.created", "activity.unpublished"} -> "DRAFT"
    [] action = "activity.scheduled" -> "SCHEDULED"
    [] action = "activity.cancelled" -> "CANCELLED"

-----------------------------------------------------------------------------
(* Guards. *)

assertActivityTimeRange(startTime, endTime) == startTime < endTime

assertClassroomIsAssignable(r) == classroom[r]

\* The room is active and no other reserving activity overlaps the booking;
\* a is Null for an activity that does not exist yet.  Capacity and weekly
\* availability windows only add reasons to refuse.
assertActivityScheduleIsAvailable(a, booking) ==
  /\ assertClassroomIsAssignable(booking.classroom)
  /\ \A b \in Activities \ {a} :
       activity[b] # Null /\ activity[b].status \in RESERVING_STATUSES
         => ~Overlapping(booking, activity[b])

DateWithinProgram(p, date) ==
  ~isDefault(p) => program[p].startDate <= date /\ date <= program[p].endDate

\* Mutation: the effective status is not looked at.
MayBeModified_InAnyStatus(row) == program[row.eventProgram].status = "ACTIVE"

MayBeModified(row) ==
  /\ resolveActivityStatus(row, now) \in {"DRAFT", "SCHEDULED"}
  /\ program[row.eventProgram].status = "ACTIVE"

MayBeCancelled(row) ==
  /\ resolveActivityStatus(row, now) \notin {"COMPLETED", "CANCELLED"}
  /\ program[row.eventProgram].status = "ACTIVE"

RequiresBooking(row, input, status) ==
  /\ status \in RESERVING_STATUSES
  /\ \/ input.status # Undefined /\ input.status # row.status
     \/ input.date # Undefined \/ input.startTime # Undefined
     \/ input.endTime # Undefined \/ input.classroom # Undefined
  /\ Given(input.classroom, row.classroom) # Null

-----------------------------------------------------------------------------
(* createActivity *)

BeginCreateActivity(w, input) ==
  LET p   == input.eventProgram
      row == [status |-> "DRAFT", eventProgram |-> p, date |-> input.date,
              startTime |-> input.startTime, endTime |-> input.endTime,
              classroom |-> input.classroom, cancelReason |-> Null]
  IN  /\ program[p] # Null
      /\ program[p].status = "ACTIVE"
      /\ DateWithinProgram(p, input.date)
      /\ assertActivityTimeRange(input.startTime, input.endTime)
      /\ input.classroom # Null => assertActivityScheduleIsAvailable(Null, row)
      /\ Begin(w, [op |-> "createActivity", row |-> row])

\* The id is a fresh cuid: one no activity ever had.
CommitCreateActivity(w, a) ==
  /\ Commits(w, "createActivity")
  /\ activityAudit[a] = Null
  /\ activities_time_range_check(tx[w].row)
  /\ validate_activity_program(Null, tx[w].row)
  /\ activity' = [activity EXCEPT ![a] = tx[w].row]
  /\ activityAudit' = [activityAudit EXCEPT ![a] = "activity.created"]
  /\ UNCHANGED <<unit, program, classroom, retained, programAudit>>

-----------------------------------------------------------------------------
(* updateActivity *)

\* The columns the update sets: the fields given, and status only when the
\* status to have differs from the stored one that was read.
UpdateData(row, input) ==
  LET status == Given(input.status, resolveActivityStatus(row, now))
  IN  [input EXCEPT !.status = IF status = row.status THEN Undefined ELSE status]

BeginUpdateActivity(w, a, input) ==
  LET row    == activity[a]
      status == Given(input.status, resolveActivityStatus(row, now))
      next   == [row EXCEPT !.date = Given(input.date, @),
                            !.startTime = Given(input.startTime, @),
                            !.endTime = Given(input.endTime, @),
                            !.classroom = Given(input.classroom, @)]
  IN  /\ row # Null
      /\ MayBeModified(row)
      /\ assertActivityTimeRange(next.startTime, next.endTime)
      /\ input.date # Undefined => DateWithinProgram(row.eventProgram, next.date)
      /\ IF RequiresBooking(row, input, status)
         THEN assertActivityScheduleIsAvailable(a, next)
         ELSE input.classroom \in Classrooms => assertClassroomIsAssignable(input.classroom)
      /\ Begin(w, [op |-> "updateActivity", id |-> a, data |-> UpdateData(row, input)])

\* Mutation: the status column is set even when the request leaves it out.
WriteActivity_WithMissingStatus(row, data) ==
  [row EXCEPT !.status = data.status,
              !.date = Given(data.date, @),
              !.startTime = Given(data.startTime, @),
              !.endTime = Given(data.endTime, @),
              !.classroom = Given(data.classroom, @)]

WriteActivity(row, data) ==
  [row EXCEPT !.status = Given(data.status, @),
              !.date = Given(data.date, @),
              !.startTime = Given(data.startTime, @),
              !.endTime = Given(data.endTime, @),
              !.classroom = Given(data.classroom, @)]

\* The update names the row by its id only.
CommitUpdateActivity(w) ==
  LET a    == tx[w].id
      data == tx[w].data
      new  == WriteActivity(activity[a], data)
  IN  /\ Commits(w, "updateActivity")
      /\ activity[a] # Null
      /\ activities_time_range_check(new)
      /\ activities_classroom_no_overlap(a, new)
      /\ data.date # Undefined \/ data.status # Undefined
           => validate_activity_program(activity[a], new)
      /\ activity' = [activity EXCEPT ![a] = new]
      /\ activityAudit' =
           [activityAudit EXCEPT ![a] =
              CASE data.status = "SCHEDULED" -> "activity.scheduled"
                [] data.status = "DRAFT"     -> "activity.unpublished"
                [] OTHER                     -> @]
      /\ UNCHANGED <<unit, program, classroom, retained, programAudit>>

-----------------------------------------------------------------------------
(* cancelActivity *)

BeginCancelActivity(w, a, reason) ==
  /\ activity[a] # Null
  /\ MayBeCancelled(activity[a])
  /\ Begin(w, [op |-> "cancelActivity", id |-> a, reason |-> reason])

\* Mutation: the audit event is not part of the transaction.
CommitCancelActivity_Unaudited(w) ==
  LET a   == tx[w].id
      new == [activity[a] EXCEPT !.status = "CANCELLED", !.cancelReason = tx[w].reason]
  IN  /\ Commits(w, "cancelActivity")
      /\ activity[a] # Null
      /\ validate_activity_program(activity[a], new)
      /\ activity' = [activity EXCEPT ![a] = new]
      /\ UNCHANGED <<unit, program, classroom, retained, activityAudit, programAudit>>

CommitCancelActivity(w) ==
  LET a   == tx[w].id
      new == [activity[a] EXCEPT !.status = "CANCELLED", !.cancelReason = tx[w].reason]
  IN  /\ Commits(w, "cancelActivity")
      /\ activity[a] # Null
      /\ validate_activity_program(activity[a], new)
      /\ activity' = [activity EXCEPT ![a] = new]
      /\ activityAudit' = [activityAudit EXCEPT ![a] = "activity.cancelled"]
      /\ UNCHANGED <<unit, program, classroom, retained, programAudit>>

-----------------------------------------------------------------------------
(* deleteActivity *)

MayBeDeleted(a) ==
  /\ activity[a].status = "DRAFT"
  /\ program[activity[a].eventProgram].status = "ACTIVE"
  /\ a \notin retained

BeginDeleteActivity(w, a) ==
  /\ activity[a] # Null
  /\ MayBeDeleted(a)
  /\ Begin(w, [op |-> "deleteActivity", id |-> a])

\* deleteMany repeats the guard in its WHERE clause; no row is a conflict.
CommitDeleteActivity(w) ==
  LET a == tx[w].id
  IN  /\ Commits(w, "deleteActivity")
      /\ activity[a] # Null
      /\ MayBeDeleted(a)
      /\ prevent_activity_delete(a)
      /\ activity' = [activity EXCEPT ![a] = Null]
      /\ activityAudit' = [activityAudit EXCEPT ![a] = "activity.deleted"]
      /\ UNCHANGED <<unit, program, classroom, retained, programAudit>>

-----------------------------------------------------------------------------
(* createAlert: a row that refers to an activity, kept by a RESTRICT key. *)

\* Mutation: no foreign key from alerts to activities.
CreateAlert_WithoutForeignKey(a) ==
  /\ retained' = retained \cup {a}
  /\ UNCHANGED <<unit, program, activity, classroom, activityAudit, programAudit, now, tx>>

CreateAlert(a) ==
  /\ activity[a] # Null
  /\ retained' = retained \cup {a}
  /\ UNCHANGED <<unit, program, activity, classroom, activityAudit, programAudit, now, tx>>
=============================================================================
