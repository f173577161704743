------------------------------ MODULE Backend ------------------------------
(***************************************************************************)
(* The API as a whole: requests of every module interleave over one        *)
(* database while the clock runs.  A request that was answered leaves its  *)
(* worker free for another.                                                *)
(***************************************************************************)
EXTENDS Activities, EventPrograms, OrganizationalUnits, Classrooms

CONSTANTS
  NewActivities,      (* Bodies of the POST /activities requests.            *)
  ActivityPatches,    (* Bodies of the PATCH /activities/:id requests.       *)
  ProgramRanges,      (* <<startDate, endDate>> of POST /event-programs.     *)
  ProgramPatches,     (* Bodies of the PATCH /event-programs/:id requests.   *)
  MaxNow              (* Bound: the clock stops here.                        *)

ASSUME InputAssumption ==
  /\ NewActivities \subseteq NewActivity
  /\ ActivityPatches \subseteq ActivityPatch
  /\ ProgramRanges \subseteq Dates \X Dates
  /\ ProgramPatches \subseteq ProgramPatch
  /\ MaxNow \in Nat

Transactions == ActivityTx \cup ProgramTx \cup UnitTx \cup ClassroomTx

ActivityActions ==
  {"activity.created", "activity.scheduled", "activity.unpublished",
   "activity.cancelled", "activity.deleted"}
ProgramActions ==
  {"event_program.created", "event_program.published",
   "event_program.archived", "event_program.reactivated"}

ASSUME ActionAssumption == Null \notin ActivityActions \cup ProgramActions

TypeOK ==
  /\ unit \in [Units -> UnitStates]
  /\ program \in [Programs -> ProgramRow \cup {Null}]
  /\ activity \in [Activities -> ActivityRow \cup {Null}]
  /\ classroom \in [Classrooms -> BOOLEAN]
  /\ retained \in SUBSET Activities
  /\ activityAudit \in [Activities -> ActivityActions \cup {Null}]
  /\ programAudit \in [Programs -> ProgramActions \cup {Null}]
  /\ now \in Nat
  /\ tx \in [Workers -> Transactions \cup {Null}]

\* A migrated database with its classrooms and nothing else.
Init ==
  /\ unit = [u \in Units |-> "NONE"]
  /\ program = [p \in Programs |-> Null]
  /\ activity = [a \in Activities |-> Null]
  /\ classroom = [r \in Classrooms |-> TRUE]
  /\ retained = {}
  /\ activityAudit = [a \in Activities |-> Null]
  /\ programAudit = [p \in Programs |-> Null]
  /\ now = 0
  /\ tx = [w \in Workers |-> Null]

-----------------------------------------------------------------------------

Tick ==
  /\ now < MaxNow
  /\ now' = now + 1
  /\ UNCHANGED <<tables, tx>>

\* A constraint refused the transaction, the connection was lost or the
\* process stopped: nothing was written and the request is gone.
Rollback(w) ==
  /\ ~Idle(w)
  /\ tx' = [tx EXCEPT ![w] = Null]
  /\ UNCHANGED <<tables, now>>

ActivityRequest(w) ==
  \/ \E input \in NewActivities : BeginCreateActivity(w, input)
  \/ \E a \in Activities : CommitCreateActivity(w, a)
  \/ \E a \in Activities, input \in ActivityPatches : BeginUpdateActivity(w, a, input)
  \/ CommitUpdateActivity(w)
  \/ \E a \in Activities, reason \in Reasons \cup {Null} : BeginCancelActivity(w, a, reason)
  \/ CommitCancelActivity(w)
  \/ \E a \in Activities : BeginDeleteActivity(w, a)
  \/ CommitDeleteActivity(w)

ProgramRequest(w) ==
  \/ \E u \in Units, range \in ProgramRanges :
       BeginCreateEventProgram(w, u, range[1], range[2])
  \/ \E p \in Programs : CommitCreateEventProgram(w, p)
  \/ \E p \in Programs, input \in ProgramPatches : BeginUpdateEventProgram(w, p, input)
  \/ CommitUpdateEventProgram(w)
  \/ \E p \in Programs : BeginArchiveEventProgram(w, p)
  \/ CommitArchiveEventProgram(w)
  \/ \E p \in Programs : BeginReactivateEventProgram(w, p)
  \/ CommitReactivateEventProgram(w)

UnitRequest(w) ==
  \/ \E u \in Units : BeginCreateOrganizationalUnit(w, u)
  \/ CommitCreateOrganizationalUnit(w)
  \/ \E u \in Units : BeginDeactivateOrganizationalUnit(w, u)
  \/ CommitDeactivateOrganizationalUnit(w)
  \/ \E u \in Units : BeginReactivateOrganizationalUnit(w, u)
  \/ CommitReactivateOrganizationalUnit(w)

ClassroomRequest(w) ==
  \/ \E r \in Classrooms, isActive \in BOOLEAN : BeginUpdateClassroom(w, r, isActive)
  \/ CommitUpdateClassroom(w)

Next ==
  \/ Tick
  \/ \E a \in Activities : CreateAlert(a)
  \/ \E w \in Workers :
       \/ ActivityRequest(w)
       \/ ProgramRequest(w)
       \/ UnitRequest(w)
       \/ ClassroomRequest(w)
       \/ Rollback(w)

Spec == Init /\ [][Next]_vars

-----------------------------------------------------------------------------
(***************************************************************************)
(* What the database guarantees however the requests interleave.           *)
(***************************************************************************)

Exists(a) == activity[a] # Null

Effective(a) == resolveActivityStatus(activity[a], now)

(***************************************************************************)
(* No room is promised twice: two activities shown as SCHEDULED or ONGOING *)
(* in the same room occupy disjoint stretches of time, although each       *)
(* booking checks for overlaps (activities.schedule.ts) before another one *)
(* may commit.                                                             *)
(***************************************************************************)
NoDoubleBooking ==
  \A a, b \in Activities :
    LET ra == activity[a]
        rb == activity[b]
    IN  (/\ a # b
         /\ Exists(a) /\ Effective(a) \in {"SCHEDULED", "ONGOING"}
         /\ Exists(b) /\ Effective(b) \in {"SCHEDULED", "ONGOING"}
         /\ ra.classroom # Null /\ ra.classroom = rb.classroom)
        => \/ toInstitutionalInstant(ra.date, ra.endTime)
                <= toInstitutionalInstant(rb.date, rb.startTime)
           \/ toInstitutionalInstant(rb.date, rb.endTime)
                <= toInstitutionalInstant(ra.date, ra.startTime)

(***************************************************************************)
(* Every activity of an additional program lies within the dates of the    *)
(* program, also when a request moves the dates of the program while       *)
(* another creates or moves an activity.                                   *)
(***************************************************************************)
ActivitiesWithinProgram ==
  \A a \in Activities :
    LET p == activity[a].eventProgram
    IN  Exists(a) /\ ~isDefault(p) =>
          /\ program[p] # Null
          /\ program[p].startDate <= activity[a].date
          /\ activity[a].date <= program[p].endDate

(***************************************************************************)
(* A unit and its default program live and rest together: the program is   *)
(* active exactly while the unit is, through deactivations, reactivations  *)
(* and archivals that read an older state of either.                       *)
(***************************************************************************)
DefaultProgramFollowsUnit ==
  \A u \in Units :
    LET p == program[DefaultProgram[u]]
    IN  /\ unit[u] = "NONE" <=> p = Null
        /\ unit[u] = "ACTIVE" => p.status = "ACTIVE" /\ ~p.archived
        /\ unit[u] = "INACTIVE" => p.status = "ARCHIVED" /\ p.archived

(***************************************************************************)
(* The audit trail can be trusted to tell where an activity or a program   *)
(* stands: its last life-cycle event names the status the row has, and a   *)
(* deleted activity never comes back.  Events are decided from what a      *)
(* request read, and written with what it commits.                         *)
(***************************************************************************)
AuditMatchesStatus ==
  /\ \A a \in Activities :
       IF Exists(a) THEN /\ activityAudit[a] \notin {Null, "activity.deleted"}
                         /\ activity[a].status = StatusAfter(activityAudit[a])
       ELSE activityAudit[a] \in {Null, "activity.deleted"}
  /\ \A p \in Programs : ~isDefault(p) =>
       IF program[p] = Null THEN programAudit[p] = Null
       ELSE /\ programAudit[p] # Null
            /\ program[p].status = ProgramStatusAfter(programAudit[p])

(***************************************************************************)
(* An activity that alerts or attendance refer to is never deleted, also   *)
(* when they appear between the checks of deleteActivity and its delete.   *)
(***************************************************************************)
RetainedActivitiesSurvive == \A a \in retained : Exists(a)

(***************************************************************************)
(* An archived additional program holds no published activity of a later   *)
(* day: archival sees every activity that was published before it, and     *)
(* nothing is published in the program or moved to another date after it.  *)
(***************************************************************************)
ArchivedHoldsNothingLater ==
  \A a \in Activities :
    LET p == activity[a].eventProgram
    IN  (/\ Exists(a) /\ ~isDefault(p)
         /\ program[p].status = "ARCHIVED"
         /\ activity[a].status \in PUBLISHED_ACTIVITY_STATUSES)
        => DayStart(activity[a].date) <= now

(***************************************************************************)
(* An archived additional program only comes back to life by being         *)
(* reactivated; a publication decided while it was a draft does not revive *)
(* it.                                                                     *)
(***************************************************************************)
OnlyReactivationRevives ==
  [][\A p \in Programs :
       (/\ program[p] # Null /\ ~isDefault(p)
        /\ program[p].status = "ARCHIVED" /\ program'[p].status # "ARCHIVED")
       => programAudit'[p] = "event_program.reactivated"]_vars

-----------------------------------------------------------------------------
(***************************************************************************)
(* What the guards of the services guarantee, and only they: these hold    *)
(* when no other request commits between the reads of a request and its    *)
(* transaction.                                                            *)
(***************************************************************************)

(* "Completed or cancelled activities cannot be modified."                 *)
(* (activities.service.ts): a cancelled activity stays cancelled.          *)
CancelledStaysCancelled ==
  [][\A a \in Activities :
       Exists(a) /\ activity[a].status = "CANCELLED"
         => activity'[a] # Null /\ activity'[a].status = "CANCELLED"]_vars

(* Cancelling again is answered with what is there and does not overwrite  *)
(* the reason recorded the first time (cancelActivity).                    *)
CancelReasonIsKept ==
  [][\A a \in Activities :
       Exists(a) /\ activity[a].status = "CANCELLED"
         => activity'[a] # Null /\ activity'[a].cancelReason = activity[a].cancelReason]_vars

(* Archiving a program freezes its activities: update, cancel and delete   *)
(* all require the program to be active.                                   *)
ArchivedProgramsAreFrozen ==
  [][\A a \in Activities :
       Exists(a) /\ program[activity[a].eventProgram].status = "ARCHIVED"
         => activity'[a] = activity[a]]_vars

(* An archived program cannot be modified (updateEventProgram).            *)
ArchivedProgramsKeepTheirDates ==
  [][\A p \in Programs :
       program[p] # Null /\ program[p].status = "ARCHIVED"
         => /\ program'[p].startDate = program[p].startDate
            /\ program'[p].endDate = program[p].endDate]_vars

(* An archived additional program has no scheduled or ongoing activity     *)
(* (archiveEventProgram and the guards of updateActivity).                 *)
ArchivedProgramsAreQuiet ==
  \A a \in Activities :
    LET p == activity[a].eventProgram
    IN  Exists(a) /\ ~isDefault(p) /\ program[p].status = "ARCHIVED"
          => ~buildReservingActivityWhere(activity[a], now)

(* The default program of an inactive unit has no scheduled or ongoing     *)
(* activity (deactivateOrganizationalUnit).                                *)
InactiveUnitsAreQuiet ==
  \A a \in Activities :
    LET p == activity[a].eventProgram
    IN  Exists(a) /\ isDefault(p) /\ unit[Owner[p]] = "INACTIVE"
          => ~buildReservingActivityWhere(activity[a], now)

(* A classroom out of use has no scheduled or ongoing activity             *)
(* (updateClassroom, and the booking check of activities).                 *)
InactiveClassroomsAreQuiet ==
  \A r \in Classrooms : ~classroom[r] => ~ReservedFromNow(r)

(* Programs are only created for active units (createEventProgram).        *)
ProgramsAreBornInActiveUnits ==
  [][\A p \in Programs :
       program[p] = Null /\ program'[p] # Null /\ ~isDefault(p)
         => unit[Owner[p]] = "ACTIVE"]_vars

(***************************************************************************)
(* What was closed holds nothing that is still to happen: neither an       *)
(* archived program, nor the default program of an inactive unit, nor a    *)
(* classroom out of use (archiveEventProgram,                              *)
(* deactivateOrganizationalUnit, updateClassroom).                         *)
(***************************************************************************)
ClosedIsQuiet ==
  ArchivedProgramsAreQuiet /\ InactiveUnitsAreQuiet /\ InactiveClassroomsAreQuiet

(***************************************************************************)
(* A cancellation is final, and so is its reason (cancelActivity and       *)
(* updateActivity).                                                        *)
(***************************************************************************)
CancellationIsFinal == CancelledStaysCancelled /\ CancelReasonIsKept

(***************************************************************************)
(* What was archived or deactivated takes nothing new: the dates and every *)
(* activity of an archived program stay as they are until it is            *)
(* reactivated (updateEventProgram and the services of activities), and an *)
(* inactive unit gets no program (createEventProgram).                     *)
(***************************************************************************)
ArchivalFreezes ==
  /\ ArchivedProgramsAreFrozen
  /\ ArchivedProgramsKeepTheirDates
  /\ ProgramsAreBornInActiveUnits
=============================================================================
