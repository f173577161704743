-------------------------- MODULE ActivityStatus ---------------------------
(***************************************************************************)
(* Read-time status of an activity (ADR-0010).  The stored status is only  *)
(* the base life cycle; ONGOING and COMPLETED are derived from the clock.  *)
(* The same cut is written three times in the code: as a function of an    *)
(* instant (resolveActivityStatus), as database filters that compare a     *)
(* date and a time of day (buildEffectiveStatusWhere,                      *)
(* buildReservingActivityWhere), and in SQL, as a comparison of local      *)
(* timestamps, in the archive trigger.                                     *)
(***************************************************************************)
EXTENDS InstitutionalTime

ActivityStatuses == {"DRAFT", "SCHEDULED", "ONGOING", "COMPLETED", "CANCELLED"}

PUBLISHED_ACTIVITY_STATUSES == {"SCHEDULED", "ONGOING", "COMPLETED"}

\* The stored statuses that hold a classroom.
RESERVING_STATUSES == {"SCHEDULED", "ONGOING"}

\* Mutation: times of day compared without their dates.
resolveActivityStatus_WithoutDate(activity, now) ==
  IF activity.status \in {"DRAFT", "CANCELLED"} THEN activity.status
  ELSE IF getInstitutionalTimeOfDay(now) < activity.startTime THEN "SCHEDULED"
  ELSE IF getInstitutionalTimeOfDay(now) < activity.endTime THEN "ONGOING"
  ELSE "COMPLETED"

resolveActivityStatus(activity, now) ==
  IF activity.status \in {"DRAFT", "CANCELLED"} THEN activity.status
  ELSE IF now < toInstitutionalInstant(activity.date, activity.startTime)
       THEN "SCHEDULED"
  ELSE IF now < toInstitutionalInstant(activity.date, activity.endTime)
       THEN "ONGOING"
  ELSE "COMPLETED"

\* The rows the status filter of a listing selects, as a predicate on a row.
buildEffectiveStatusWhere(status, activity, now) ==
  LET today     == startOfInstitutionalDay(now)
      nowTime   == getInstitutionalTimeOfDay(now)
      published == activity.status \in PUBLISHED_ACTIVITY_STATUSES
  IN  \/ /\ status \in {"DRAFT", "CANCELLED"}
         /\ activity.status = status
      \/ /\ status = "SCHEDULED"
         /\ published
         /\ \/ activity.date > today
            \/ activity.date = today /\ activity.startTime > nowTime
      \/ /\ status = "ONGOING"
         /\ published
         /\ activity.date = today
         /\ activity.startTime <= nowTime
         /\ activity.endTime > nowTime
      \/ /\ status = "COMPLETED"
         /\ published
         /\ \/ activity.date < today
            \/ activity.date = today /\ activity.endTime <= nowTime

\* The rows that block archiving a program or deactivating a unit or a room.
buildReservingActivityWhere(activity, now) ==
  LET today   == startOfInstitutionalDay(now)
      nowTime == getInstitutionalTimeOfDay(now)
  IN  /\ activity.status \in PUBLISHED_ACTIVITY_STATUSES
      /\ \/ activity.date > today
         \/ activity.date = today /\ activity.endTime > nowTime

\* The SQL form of the same test in validate_event_program_transition:
\* ("date" + "end_time") > (now() AT TIME ZONE 'America/Panama').
TriggerSeesReservation(activity, now) ==
  /\ activity.status \in PUBLISHED_ACTIVITY_STATUSES
  /\ activity.date * DayLength + activity.endTime > now + ZoneOffset
=============================================================================
