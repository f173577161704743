------------------------- MODULE InstitutionalTime -------------------------
(***************************************************************************)
(* Calendar dates, times of day and instants of utils/date.ts.             *)
(*                                                                         *)
(* Time is counted in ticks.  A date is the number of a calendar day, a    *)
(* time of day a number of ticks below DayLength, an instant a number of   *)
(* ticks since date 0 in UTC.  ZoneOffset is the offset of the             *)
(* institutional zone (America/Panama, GMT-05:00, no daylight saving): a   *)
(* local clock shows the instant plus ZoneOffset.                          *)
(***************************************************************************)
EXTENDS Integers

CONSTANTS
  DayLength,    (* Ticks in one institutional day.                  *)
  ZoneOffset    (* Local clock minus UTC, constant through the year. *)

ASSUME TimeAssumption ==
  /\ DayLength \in Nat \ {0}
  /\ ZoneOffset \in Int

TimesOfDay == 0 .. (DayLength - 1)

\* getInstitutionalDayRange: the first instant of a date.
DayStart(date) == date * DayLength - ZoneOffset

\* The instant at which the institutional clock shows this date and time.
toInstitutionalInstant(date, time) == DayStart(date) + time

\* The date the institutional calendar shows at an instant.
startOfInstitutionalDay(instant) == (instant + ZoneOffset) \div DayLength

\* Mutation: the time of day of the UTC clock instead of the institutional one.
getInstitutionalTimeOfDay_InUtc(instant) == instant % DayLength

\* The time elapsed since the start of the institutional day.
getInstitutionalTimeOfDay(instant) ==
  instant - DayStart(startOfInstitutionalDay(instant))
=============================================================================
