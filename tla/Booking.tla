------------------------------ MODULE Booking ------------------------------
(***************************************************************************)
(* The backend implements RoomCalendar: the slot of an activity is what    *)
(* the exclusion constraint sees of it.                                    *)
(***************************************************************************)
EXTENDS Backend

slotOf(a) ==
  IF /\ activity[a] # Null
     /\ activity[a].status \in RESERVING_STATUSES
     /\ activity[a].classroom # Null
  THEN [room |-> activity[a].classroom, date |-> activity[a].date,
        from |-> activity[a].startTime, to |-> activity[a].endTime]
  ELSE Null

Calendar == INSTANCE RoomCalendar
  WITH Holders <- Activities, Rooms <- Classrooms, NoSlot <- Null,
       slot <- [a \in Activities |-> slotOf(a)]

ASSUME SlotAssumption == Null \notin Calendar!Slots

(***************************************************************************)
(* Every step of the backend, the commits of concurrent requests included, *)
(* is a step of the calendar or leaves it as it is.  A booking is checked  *)
(* long before it is written, so the promise rests on the constraint.      *)
(***************************************************************************)
ImplementsCalendar == Calendar!Spec
=============================================================================
