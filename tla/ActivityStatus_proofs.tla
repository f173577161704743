----------------------- MODULE ActivityStatus_proofs -----------------------
(***************************************************************************)
(* The three forms of the temporal cut agree for every length of the day,  *)
(* every offset of the zone, every stored activity and every instant.      *)
(*                                                                         *)
(* The argument is one fact of arithmetic: a date and a time of day below  *)
(* DayLength are ordered, first by date and then by time, as the ticks     *)
(* date * DayLength + time are.                                            *)
(***************************************************************************)
EXTENDS ActivityStatus, TLAPS

\* A later day starts at least one day later.
LEMMA DaysApart ==
  ASSUME NEW L \in Nat, NEW d \in Int, NEW e \in Int, d < e
  PROVE  d * L + L <= e * L
<1>1. PICK k \in Nat : e = d + 1 + k
  <2>1. e - d - 1 \in Nat /\ e = d + 1 + (e - d - 1) OBVIOUS
  <2> QED BY <2>1
<1>2. e * L = d * L + L + k * L BY <1>1
<1>3. k * L \in Nat OBVIOUS
<1>4. d * L \in Int OBVIOUS
<1> QED BY <1>2, <1>3, <1>4

\* Dates and times of day are ordered as the ticks they stand for.
LEMMA DateThenTime ==
  ASSUME NEW L \in Nat, NEW d \in Int, NEW e \in Int,
         NEW s \in 0 .. (L - 1), NEW t \in 0 .. (L - 1)
  PROVE  d * L + s < e * L + t <=> d < e \/ (d = e /\ s < t)
<1>0. d * L \in Int /\ e * L \in Int OBVIOUS
<1>1. CASE d < e BY <1>0, <1>1, DaysApart
<1>2. CASE d = e BY <1>0, <1>2
<1>3. CASE e < d BY <1>0, <1>3, DaysApart
<1> QED BY <1>1, <1>2, <1>3

\* The institutional clock shows a date and a time of day below DayLength.
LEMMA ClockReading ==
  ASSUME NEW instant \in Int
  PROVE  /\ startOfInstitutionalDay(instant) \in Int
         /\ getInstitutionalTimeOfDay(instant) \in TimesOfDay
         /\ instant = toInstitutionalInstant(startOfInstitutionalDay(instant),
                                             getInstitutionalTimeOfDay(instant))
<1> DEFINE local == instant + ZoneOffset
           day   == local \div DayLength
<1>1. local \in Int /\ DayLength \in Int /\ DayLength > 0 BY TimeAssumption
<1>2. day \in Int /\ day * DayLength <= local /\ local < day * DayLength + DayLength
  BY <1>1
<1>3. day * DayLength \in Int BY <1>1, <1>2
<1> QED
  BY <1>1, <1>2, <1>3, TimeAssumption
  DEF startOfInstitutionalDay, getInstitutionalTimeOfDay, toInstitutionalInstant,
      DayStart, TimesOfDay

\* Comparing instants is comparing what the institutional clock shows.
LEMMA ClockOrder ==
  ASSUME NEW instant \in Int, NEW date \in Int, NEW time \in TimesOfDay
  PROVE  instant < toInstitutionalInstant(date, time)
           <=> \/ date > startOfInstitutionalDay(instant)
               \/ /\ date = startOfInstitutionalDay(instant)
                  /\ time > getInstitutionalTimeOfDay(instant)
<1> DEFINE today   == startOfInstitutionalDay(instant)
           nowTime == getInstitutionalTimeOfDay(instant)
<1>1. /\ today \in Int
      /\ nowTime \in TimesOfDay
      /\ instant = toInstitutionalInstant(today, nowTime)
  BY ClockReading
<1>2. DayLength \in Nat /\ ZoneOffset \in Int BY TimeAssumption
<1>3. today * DayLength \in Int /\ date * DayLength \in Int BY <1>1, <1>2
<1>4. nowTime \in Int /\ time \in Int BY <1>1, <1>2 DEF TimesOfDay
<1> HIDE DEF today, nowTime
<1>5. instant < toInstitutionalInstant(date, time)
        <=> today * DayLength + nowTime < date * DayLength + time
  BY <1>1, <1>2, <1>3, <1>4 DEF toInstitutionalInstant, DayStart
<1>6. today * DayLength + nowTime < date * DayLength + time
        <=> today < date \/ (today = date /\ nowTime < time)
  BY <1>1, <1>2, DateThenTime DEF TimesOfDay
<1>7. instant < toInstitutionalInstant(date, time)
        <=> \/ date > today
            \/ date = today /\ time > nowTime
  BY <1>1, <1>4, <1>5, <1>6
<1> QED BY <1>7 DEF today, nowTime

-----------------------------------------------------------------------------

\* What the next three theorems need of a row and of an instant.
LEMMA RowOnClock ==
  ASSUME NEW row, row.date \in Int, row.startTime \in TimesOfDay,
         row.endTime \in TimesOfDay, row.startTime < row.endTime,
         NEW instant \in Int
  PROVE  LET today   == startOfInstitutionalDay(instant)
             nowTime == getInstitutionalTimeOfDay(instant)
             start   == toInstitutionalInstant(row.date, row.startTime)
             end     == toInstitutionalInstant(row.date, row.endTime)
         IN  /\ today \in Int /\ nowTime \in Int
             /\ row.startTime \in Int /\ row.endTime \in Int
             /\ start \in Int /\ end \in Int /\ start < end
             /\ instant < start
                  <=> row.date > today \/ (row.date = today /\ row.startTime > nowTime)
             /\ instant < end
                  <=> row.date > today \/ (row.date = today /\ row.endTime > nowTime)
<1>1. DayLength \in Nat /\ ZoneOffset \in Int BY TimeAssumption
<1>2. /\ startOfInstitutionalDay(instant) \in Int
      /\ getInstitutionalTimeOfDay(instant) \in Int
      /\ row.startTime \in Int /\ row.endTime \in Int
  BY <1>1, ClockReading DEF TimesOfDay
<1>3. row.date * DayLength \in Int BY <1>1
<1>4. /\ toInstitutionalInstant(row.date, row.startTime) \in Int
      /\ toInstitutionalInstant(row.date, row.endTime) \in Int
      /\ toInstitutionalInstant(row.date, row.startTime)
           < toInstitutionalInstant(row.date, row.endTime)
  BY <1>1, <1>2, <1>3 DEF toInstitutionalInstant, DayStart
<1> QED BY <1>2, <1>4, ClockOrder

(* What the agreement lemmas need to know of a stored activity. *)
StoredRow(row) ==
  /\ row.status \in ActivityStatuses
  /\ row.date \in Int
  /\ row.startTime \in TimesOfDay
  /\ row.endTime \in TimesOfDay
  /\ row.startTime < row.endTime

\* The status filter of a listing selects a row exactly under the status
\* that resolveActivityStatus gives it.
LEMMA FilterAgrees ==
  ASSUME NEW row, StoredRow(row), NEW instant \in Int, NEW status \in ActivityStatuses
  PROVE  buildEffectiveStatusWhere(status, row, instant)
           <=> resolveActivityStatus(row, instant) = status
<1> DEFINE today   == startOfInstitutionalDay(instant)
           nowTime == getInstitutionalTimeOfDay(instant)
           start   == toInstitutionalInstant(row.date, row.startTime)
           end     == toInstitutionalInstant(row.date, row.endTime)
<1>1. /\ today \in Int /\ nowTime \in Int
      /\ row.startTime \in Int /\ row.endTime \in Int /\ row.date \in Int
      /\ start \in Int /\ end \in Int /\ start < end
      /\ instant < start
           <=> row.date > today \/ (row.date = today /\ row.startTime > nowTime)
      /\ instant < end
           <=> row.date > today \/ (row.date = today /\ row.endTime > nowTime)
  BY RowOnClock DEF StoredRow
<1>2. row.startTime < row.endTime /\ row.status \in ActivityStatuses BY DEF StoredRow
<1>3. /\ resolveActivityStatus(row, instant) =
           IF row.status \in {"DRAFT", "CANCELLED"} THEN row.status
           ELSE IF instant < start THEN "SCHEDULED"
           ELSE IF instant < end THEN "ONGOING" ELSE "COMPLETED"
      /\ buildEffectiveStatusWhere(status, row, instant) <=>
           \/ status \in {"DRAFT", "CANCELLED"} /\ row.status = status
           \/ /\ status = "SCHEDULED" /\ row.status \in PUBLISHED_ACTIVITY_STATUSES
              /\ row.date > today \/ (row.date = today /\ row.startTime > nowTime)
           \/ /\ status = "ONGOING" /\ row.status \in PUBLISHED_ACTIVITY_STATUSES
              /\ row.date = today /\ row.startTime <= nowTime /\ row.endTime > nowTime
           \/ /\ status = "COMPLETED" /\ row.status \in PUBLISHED_ACTIVITY_STATUSES
              /\ row.date < today \/ (row.date = today /\ row.endTime <= nowTime)
  BY DEF resolveActivityStatus, buildEffectiveStatusWhere
<1> HIDE DEF today, nowTime, start, end
<1>4. CASE row.status \in {"DRAFT", "CANCELLED"}
  BY <1>2, <1>3, <1>4 DEF PUBLISHED_ACTIVITY_STATUSES, ActivityStatuses
<1>5. CASE row.status \in PUBLISHED_ACTIVITY_STATUSES
  BY <1>1, <1>2, <1>3, <1>5 DEF PUBLISHED_ACTIVITY_STATUSES, ActivityStatuses
<1> QED BY <1>2, <1>4, <1>5 DEF PUBLISHED_ACTIVITY_STATUSES, ActivityStatuses

\* The guard of archival and deactivation blocks exactly on the activities
\* shown as scheduled or ongoing.
LEMMA ReservingAgrees ==
  ASSUME NEW row, StoredRow(row), NEW instant \in Int
  PROVE  buildReservingActivityWhere(row, instant)
           <=> resolveActivityStatus(row, instant) \in {"SCHEDULED", "ONGOING"}
<1>1. resolveActivityStatus(row, instant) \in {"SCHEDULED", "ONGOING"}
        <=> /\ row.status \in PUBLISHED_ACTIVITY_STATUSES
            /\ instant < toInstitutionalInstant(row.date, row.endTime)
  BY RowOnClock DEF StoredRow, resolveActivityStatus, PUBLISHED_ACTIVITY_STATUSES,
                    ActivityStatuses
<1>2. instant < toInstitutionalInstant(row.date, row.endTime)
        <=> \/ row.date > startOfInstitutionalDay(instant)
            \/ /\ row.date = startOfInstitutionalDay(instant)
               /\ row.endTime > getInstitutionalTimeOfDay(instant)
  BY RowOnClock DEF StoredRow
<1> QED BY <1>1, <1>2 DEF buildReservingActivityWhere

\* The archive trigger, in local timestamps, blocks exactly when that guard does.
LEMMA TriggerAgrees ==
  ASSUME NEW row, StoredRow(row), NEW instant \in Int
  PROVE  TriggerSeesReservation(row, instant) <=> buildReservingActivityWhere(row, instant)
<1>1. instant < toInstitutionalInstant(row.date, row.endTime)
        <=> \/ row.date > startOfInstitutionalDay(instant)
            \/ /\ row.date = startOfInstitutionalDay(instant)
               /\ row.endTime > getInstitutionalTimeOfDay(instant)
  BY RowOnClock DEF StoredRow
<1>2. /\ DayLength \in Nat /\ ZoneOffset \in Int
      /\ row.date \in Int /\ row.endTime \in Int
  BY TimeAssumption DEF StoredRow, TimesOfDay
<1>3. row.date * DayLength \in Int BY <1>2
<1>4. instant < toInstitutionalInstant(row.date, row.endTime)
        <=> row.date * DayLength + row.endTime > instant + ZoneOffset
  BY <1>2, <1>3 DEF toInstitutionalInstant, DayStart
<1> QED BY <1>1, <1>4 DEF TriggerSeesReservation, buildReservingActivityWhere
=============================================================================
