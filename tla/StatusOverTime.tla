-------------------------- MODULE StatusOverTime ---------------------------
(***************************************************************************)
(* One stored activity read again and again while the clock advances: the  *)
(* three forms of the temporal cut must agree at every instant, the        *)
(* boundary ones included, and the status shown must only move forward.    *)
(***************************************************************************)
EXTENDS ActivityStatus

CONSTANTS
  Dates,      (* Dates an activity may have.            *)
  FirstNow,   (* The instants at which reads are made.  *)
  LastNow

ASSUME RangeAssumption ==
  /\ Dates \subseteq Int
  /\ FirstNow \in Int
  /\ LastNow \in Int

VARIABLES activity, now

readVars == <<activity, now>>

StoredActivity ==
  [status : ActivityStatuses, date : Dates,
   startTime : TimesOfDay, endTime : TimesOfDay]

ReadTypeOK ==
  /\ activity \in StoredActivity
  /\ now \in Int

ReadInit ==
  /\ activity \in {row \in StoredActivity : row.startTime < row.endTime}
  /\ now = FirstNow

Tick ==
  /\ now < LastNow
  /\ now' = now + 1
  /\ UNCHANGED activity

(***************************************************************************)
(* A listing filtered by a status returns exactly the activities that the  *)
(* detail view shows with that status: buildEffectiveStatusWhere and       *)
(* resolveActivityStatus draw the same boundaries, although one compares   *)
(* (date, time) pairs in the zone and the other instants.                  *)
(***************************************************************************)
FilterMatchesStatus ==
  \A status \in ActivityStatuses :
    buildEffectiveStatusWhere(status, activity, now)
      <=> resolveActivityStatus(activity, now) = status

(***************************************************************************)
(* The guard of archiving and deactivating blocks exactly on activities    *)
(* shown as SCHEDULED or ONGOING.                                          *)
(***************************************************************************)
ReservingMeansUnfinished ==
  buildReservingActivityWhere(activity, now)
    <=> resolveActivityStatus(activity, now) \in {"SCHEDULED", "ONGOING"}

(***************************************************************************)
(* The archive trigger, which works on local timestamps in SQL, blocks     *)
(* exactly when the guard of the service does.                             *)
(***************************************************************************)
TriggerMatchesGuard ==
  TriggerSeesReservation(activity, now)
    <=> buildReservingActivityWhere(activity, now)

(***************************************************************************)
(* The three forms of the temporal cut, on instants, on dates and times in *)
(* a query, and on local timestamps in SQL, draw one boundary.             *)
(***************************************************************************)
TemporalCutsAgree ==
  FilterMatchesStatus /\ ReservingMeansUnfinished /\ TriggerMatchesGuard

StatusAdvances ==
  LET before == resolveActivityStatus(activity, now)
      after  == resolveActivityStatus(activity', now')
  IN  \/ after = before
      \/ before = "SCHEDULED" /\ after = "ONGOING"
      \/ before = "ONGOING" /\ after = "COMPLETED"

(***************************************************************************)
(* Between two reads of an unchanged row the derived status only advances: *)
(* SCHEDULED, then ONGOING, then COMPLETED, and ONGOING is never skipped   *)
(* by a clock that shows every instant.                                    *)
(***************************************************************************)
StatusOnlyAdvances == [][StatusAdvances]_readVars
=============================================================================
