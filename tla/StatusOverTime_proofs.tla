----------------------- MODULE StatusOverTime_proofs -----------------------
(***************************************************************************)
(* What StatusOverTime says of one row, for every set of dates, every      *)
(* length of the day and every offset of the zone.  The inductive          *)
(* invariant adds to the types that an activity starts before it ends,     *)
(* which the CHECK constraint of the table guarantees.  Operations_proofs  *)
(* makes theorems of its specification from these lemmas.                  *)
(***************************************************************************)
EXTENDS StatusOverTime, ActivityStatus_proofs

ReadInv ==
  /\ ReadTypeOK
  /\ activity.startTime < activity.endTime

\* The first read is of a stored row.
LEMMA ReadStart == ReadInit => ReadInv
BY RangeAssumption DEF ReadInit, ReadInv, ReadTypeOK

\* The clock never leaves the instants, and the stored row never changes.
LEMMA ReadStep == ReadInv /\ (Tick \/ UNCHANGED readVars) => ReadInv'
BY DEF ReadInv, ReadTypeOK, Tick, readVars

\* A row of the invariant is one the lemmas on the cut speak of.
LEMMA ReadInvStored == ReadInv => StoredRow(activity) /\ now \in Int
BY RangeAssumption DEF ReadInv, ReadTypeOK, StoredActivity, StoredRow

\* The three forms of the cut draw one boundary at the present instant.
LEMMA CutsAgree == ReadInv => TemporalCutsAgree
<1>1. ReadInv => FilterMatchesStatus BY ReadInvStored, FilterAgrees DEF FilterMatchesStatus
<1>2. ReadInv => ReservingMeansUnfinished
  BY ReadInvStored, ReservingAgrees DEF ReservingMeansUnfinished
<1>3. ReadInv => TriggerMatchesGuard BY ReadInvStored, TriggerAgrees DEF TriggerMatchesGuard
<1> QED BY <1>1, <1>2, <1>3 DEF TemporalCutsAgree

\* One tick moves the status by one at most, and forward.
LEMMA TickAdvances == ReadInv /\ Tick => StatusAdvances
<1> DEFINE start    == toInstitutionalInstant(activity.date, activity.startTime)
           end      == toInstitutionalInstant(activity.date, activity.endTime)
           before   == resolveActivityStatus(activity, now)
           after    == resolveActivityStatus(activity', now')
           Advances == \/ after = before
                       \/ before = "SCHEDULED" /\ after = "ONGOING"
                       \/ before = "ONGOING" /\ after = "COMPLETED"
<1>1. ASSUME ReadInv, Tick PROVE Advances
  <2>1. start \in Int /\ end \in Int /\ start < end /\ now \in Int
    BY <1>1, ReadInvStored, RowOnClock DEF StoredRow
  <2>2. activity' = activity /\ now' = now + 1 BY <1>1 DEF Tick
  <2>3. /\ before = IF activity.status \in {"DRAFT", "CANCELLED"} THEN activity.status
                    ELSE IF now < start THEN "SCHEDULED"
                    ELSE IF now < end THEN "ONGOING" ELSE "COMPLETED"
        /\ after  = IF activity.status \in {"DRAFT", "CANCELLED"} THEN activity.status
                    ELSE IF now + 1 < start THEN "SCHEDULED"
                    ELSE IF now + 1 < end THEN "ONGOING" ELSE "COMPLETED"
    BY <2>2 DEF resolveActivityStatus
  <2> HIDE DEF start, end, before, after
  <2> QED BY <2>1, <2>3
<1> QED BY <1>1 DEF StatusAdvances
=============================================================================
