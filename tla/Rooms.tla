------------------------------- MODULE Rooms -------------------------------
(***************************************************************************)
(* modules/classrooms with everything a booking looks at: capacity, the    *)
(* windows of the week in which a room is available, and its amenities;    *)
(* and the bookings themselves, as modules/activities makes them.          *)
(*                                                                         *)
(* A request reads and decides first, leaves in tx[w] what it will write,  *)
(* and runs its transaction against the tables as they are by then.        *)
(***************************************************************************)
EXTENDS ActivityStatus, FiniteSets

CONSTANTS
  Classrooms, Windows, Activities,   (* Row ids: none is used twice.       *)
  Dates,
  FirstDayOfWeek,   (* The day of the week of date 0.                      *)
  Capacities,
  Amenities,
  Folded,           (* Each amenity without the difference of case.        *)
  Workers,
  Clients,          (* What clients send, by the name of the scenario.     *)
  Null              (* SQL NULL; also a row, or a transaction, not there.  *)

VARIABLES
  classroom,     (* classrooms                                             *)
  window,        (* classroom_availability                                 *)
  amenity,       (* classroom_amenities: those of each classroom           *)
  activity,      (* activities that name a classroom                       *)
  issued,        (* ids of windows that were given out                     *)
  log,           (* classroom events of the audit log, replayed            *)
  now, tx,
  clients        (* the scenario: it never changes                         *)

rooms == <<classroom, window, amenity, activity, issued, log>>
vars == <<classroom, window, amenity, activity, issued, log, now, tx, clients>>

ClassroomRow == [isActive : BOOLEAN, capacity : Capacities]
Slot == [dayOfWeek : 1..7, startTime : TimesOfDay, endTime : TimesOfDay]
WindowRow == [classroomId : Classrooms, slot : Slot]
ActivityRow ==
  [status : {"DRAFT", "SCHEDULED", "CANCELLED"}, classroomId : Classrooms,
   date : Dates, startTime : TimesOfDay, endTime : TimesOfDay,
   maxCapacity : Capacities \cup {Null}]

\* The body of PATCH /classrooms/:id.
ClassroomInput == [isActive : BOOLEAN] \cup [capacity : Capacities] \cup ClassroomRow

ASSUME RoomsAssumption ==
  /\ DOMAIN Folded = Amenities
  /\ Dates \subseteq Int /\ FirstDayOfWeek \in 1..7
  /\ Capacities \subseteq Nat \ {0}
  /\ Null \notin ClassroomRow /\ Null \notin WindowRow /\ Null \notin ActivityRow
  /\ Null \notin Capacities \cup Activities
  /\ \A name \in DOMAIN Clients : LET sent == Clients[name] IN
       /\ sent.slots \subseteq Slot           (* windows they add                *)
       /\ sent.drafts \subseteq ActivityRow   (* activities they make            *)
       /\ sent.rooms \subseteq ClassroomRow   (* classrooms they make            *)
       /\ sent.inputs \subseteq ClassroomInput
       /\ sent.amenities \subseteq Amenities
       /\ sent.inFlight \in Nat              (* requests at the same time       *)
       /\ sent.until \in Int                 (* bound: the clock stops there    *)

Sent == Clients[clients]
Alone == Sent.inFlight = 1

-----------------------------------------------------------------------------
(* Queries. *)

getInstitutionalDayOfWeek(date) ==
  LET dayOfWeek == (date + FirstDayOfWeek) % 7
  IN  IF dayOfWeek = 0 THEN 7 ELSE dayOfWeek

Exists(r) == classroom[r] # Null
WindowsOf(r) == {n \in Windows : window[n] # Null /\ window[n].classroomId = r}
SlotsOf(r) == {window[n].slot : n \in WindowsOf(r)}
Booked == {a \in Activities : activity[a] # Null}

Overlap(x, y) == x.startTime < y.endTime /\ x.endTime > y.startTime

\* One window holds the whole range: two that touch are not joined.
AvailableFor(r, date, range) ==
  \E slot \in SlotsOf(r) :
    /\ slot.dayOfWeek = getInstitutionalDayOfWeek(date)
    /\ slot.startTime <= range.startTime /\ slot.endTime >= range.endTime

assertActivityScheduleIsAvailable(a, r, booking) ==
  /\ Exists(r) /\ classroom[r].isActive
  /\ booking.maxCapacity # Null => classroom[r].capacity >= booking.maxCapacity
  /\ AvailableFor(r, booking.date, booking)
  /\ \A b \in Booked \ {a} :
       /\ activity[b].classroomId = r /\ activity[b].date = booking.date
       /\ activity[b].status \in RESERVING_STATUSES
       => ~Overlap(activity[b], booking)

\* Mutation: a room is taken by the activities that begin within the range.
BlockedFor_ByStart(r, query) ==
  \E a \in Booked :
    /\ activity[a].classroomId = r /\ activity[a].date = query.date
    /\ buildReservingActivityWhere(activity[a], now)
    /\ query.startTime <= activity[a].startTime /\ activity[a].startTime < query.endTime

BlockedFor(r, query) ==
  \E a \in Booked :
    /\ activity[a].classroomId = r /\ activity[a].date = query.date
    /\ buildReservingActivityWhere(activity[a], now)
    /\ Overlap(activity[a], query)

HasAmenity(r, name) == \E b \in amenity[r] : Folded[b] = Folded[name]

findAvailableClassrooms(query) ==
  {r \in Classrooms :
     /\ Exists(r) /\ classroom[r].isActive
     /\ query.minCapacity # Null => classroom[r].capacity >= query.minCapacity
     /\ query.amenity # Null => HasAmenity(r, query.amenity)
     /\ AvailableFor(r, query.date, query)
     /\ ~BlockedFor(r, query)}

-----------------------------------------------------------------------------

Idle(w) == tx[w] = Null

\* w may serve a request: fewer are in flight than clients send at a time.
Accepts(w) ==
  /\ Idle(w)
  /\ Cardinality({other \in Workers : ~Idle(other)}) < Sent.inFlight

Begin(w, t) ==
  /\ tx' = [tx EXCEPT ![w] = t]
  /\ UNCHANGED <<rooms, now, clients>>

Commits(w, op) ==
  /\ ~Idle(w)
  /\ tx[w].op = op
  /\ tx' = [tx EXCEPT ![w] = Null]
  /\ UNCHANGED <<now, clients>>

(* createClassroom *)

CreateClassroom(w, r, row) ==
  /\ Accepts(w)
  /\ ~Exists(r)
  /\ classroom' = [classroom EXCEPT ![r] = row]
  /\ UNCHANGED <<window, amenity, activity, issued, log, now, tx, clients>>

(* updateClassroom: the capacity is written whatever is booked. *)

BeginUpdateClassroom(w, r, input) ==
  /\ Accepts(w)
  /\ Exists(r)
  /\ ("isActive" \in DOMAIN input /\ ~input.isActive) /\ classroom[r].isActive =>
       ~ \E a \in Booked : /\ activity[a].classroomId = r
                           /\ buildReservingActivityWhere(activity[a], now)
  /\ Begin(w, [op |-> "updateClassroom", id |-> r, data |-> input])

CommitUpdateClassroom(w) ==
  /\ Commits(w, "updateClassroom")
  /\ classroom' = [classroom EXCEPT ![tx[w].id] =
                     [field \in DOMAIN @ |-> IF field \in DOMAIN tx[w].data
                                             THEN tx[w].data[field] ELSE @[field]]]
  /\ UNCHANGED <<window, amenity, activity, issued, log>>

(* addClassroomAmenity *)

BeginAddClassroomAmenity(w, r, name) ==
  /\ Accepts(w)
  /\ Exists(r)
  /\ ~HasAmenity(r, name)
  /\ Begin(w, [op |-> "addClassroomAmenity", id |-> r, amenity |-> name])

\* The primary key (classroom_id, amenity) tells upper from lower case.
CommitAddClassroomAmenity(w) ==
  LET r == tx[w].id
  IN  /\ Commits(w, "addClassroomAmenity")
      /\ tx[w].amenity \notin amenity[r]
      /\ amenity' = [amenity EXCEPT ![r] = @ \cup {tx[w].amenity}]
      /\ log' = [log EXCEPT ![r].amenities = @ \cup {tx[w].amenity}]
      /\ UNCHANGED <<classroom, window, activity, issued>>

(* removeClassroomAmenity *)

\* Mutation: the event tells the amenity as the client wrote it.
BeginRemoveClassroomAmenity_AsWritten(w, r, name) ==
  /\ Accepts(w)
  /\ \E existing \in amenity[r] :
       /\ Folded[existing] = Folded[name]
       /\ Begin(w, [op |-> "removeClassroomAmenity", id |-> r, amenity |-> existing,
                    told |-> name])

\* findFirst: any of the amenities that differ from name in case only.
BeginRemoveClassroomAmenity(w, r, name) ==
  /\ Accepts(w)
  /\ \E existing \in amenity[r] :
       /\ Folded[existing] = Folded[name]
       /\ Begin(w, [op |-> "removeClassroomAmenity", id |-> r, amenity |-> existing,
                    told |-> existing])

CommitRemoveClassroomAmenity(w) ==
  LET r == tx[w].id
  IN  /\ Commits(w, "removeClassroomAmenity")
      /\ tx[w].amenity \in amenity[r]
      /\ amenity' = [amenity EXCEPT ![r] = @ \ {tx[w].amenity}]
      /\ log' = [log EXCEPT ![r].amenities = @ \ {tx[w].told}]
      /\ UNCHANGED <<classroom, window, activity, issued>>

(* addClassroomAvailability *)

\* Mutation: only a window that holds the new one is in its way.
OverlapsWindow_Within(r, slot) ==
  \E other \in SlotsOf(r) :
    /\ other.dayOfWeek = slot.dayOfWeek
    /\ other.startTime <= slot.startTime /\ slot.endTime <= other.endTime

OverlapsWindow(r, slot) ==
  \E other \in SlotsOf(r) : other.dayOfWeek = slot.dayOfWeek /\ Overlap(other, slot)

BeginAddClassroomAvailability(w, r, slot) ==
  /\ Accepts(w)
  /\ slot.startTime < slot.endTime   \* addClassroomAvailabilitySchema
  /\ Exists(r)
  /\ ~OverlapsWindow(r, slot)
  /\ Begin(w, [op |-> "addClassroomAvailability", id |-> r, slot |-> slot])

\* The unique index refuses an equal window only.
CommitAddClassroomAvailability(w, n) ==
  LET r == tx[w].id
  IN  /\ Commits(w, "addClassroomAvailability")
      /\ n \notin issued
      /\ tx[w].slot \notin SlotsOf(r)
      /\ window' = [window EXCEPT ![n] = [classroomId |-> r, slot |-> tx[w].slot]]
      /\ issued' = issued \cup {n}
      /\ log' = [log EXCEPT ![r].slots = @ \cup {tx[w].slot}]
      /\ UNCHANGED <<classroom, amenity, activity>>

(* removeClassroomAvailability: whatever is booked in the window. *)

BeginRemoveClassroomAvailability(w, r, n) ==
  /\ Accepts(w)
  /\ n \in WindowsOf(r)
  /\ Begin(w, [op |-> "removeClassroomAvailability", id |-> n])

CommitRemoveClassroomAvailability(w) ==
  LET n == tx[w].id
  IN  /\ Commits(w, "removeClassroomAvailability")
      /\ window[n] # Null
      /\ window' = [window EXCEPT ![n] = Null]
      /\ log' = [log EXCEPT ![window[n].classroomId].slots = @ \ {window[n].slot}]
      /\ UNCHANGED <<classroom, amenity, activity, issued>>

(* createActivity, publication by updateActivity, and cancelActivity, as    *)
(* far as a room is concerned.                                              *)

assertActivityTimeRange(startTime, endTime) == startTime < endTime

\* The exclusion constraint.
activities_classroom_no_overlap(a, row) ==
  \A b \in Booked \ {a} :
    /\ activity[b].classroomId = row.classroomId /\ activity[b].date = row.date
    /\ activity[b].status \in RESERVING_STATUSES
    => ~Overlap(activity[b], row)

BeginCreateActivity(w, a, row) ==
  /\ Accepts(w)
  /\ activity[a] = Null
  /\ assertActivityTimeRange(row.startTime, row.endTime)
  /\ assertActivityScheduleIsAvailable(Null, row.classroomId, row)
  /\ Begin(w, [op |-> "booking", id |-> a, row |-> row])

BeginPublishActivity(w, a) ==
  /\ Accepts(w)
  /\ activity[a] # Null /\ activity[a].status = "DRAFT"
  /\ assertActivityScheduleIsAvailable(a, activity[a].classroomId, activity[a])
  /\ Begin(w, [op |-> "booking", id |-> a,
               row |-> [activity[a] EXCEPT !.status = "SCHEDULED"]])

CommitBooking(w) ==
  LET a == tx[w].id
      row == tx[w].row
  IN  /\ Commits(w, "booking")
      /\ row.status = "DRAFT" => activity[a] = Null   \* an id not used before
      /\ row.status = "SCHEDULED" => activities_classroom_no_overlap(a, row)
      /\ activity' = [activity EXCEPT ![a] = row]
      /\ UNCHANGED <<classroom, window, amenity, issued, log>>

CancelActivity(w, a) ==
  /\ Accepts(w)
  /\ activity[a] # Null
  /\ resolveActivityStatus(activity[a], now) \notin {"COMPLETED", "CANCELLED"}
  /\ activity' = [activity EXCEPT ![a].status = "CANCELLED"]
  /\ UNCHANGED <<classroom, window, amenity, issued, log, now, tx, clients>>

-----------------------------------------------------------------------------

Rollback(w) ==
  /\ ~Idle(w)
  /\ tx' = [tx EXCEPT ![w] = Null]
  /\ UNCHANGED <<rooms, now, clients>>

Tick ==
  /\ now < Sent.until
  /\ now' = now + 1
  /\ UNCHANGED <<rooms, tx, clients>>

Init ==
  /\ clients \in DOMAIN Clients
  /\ classroom = [r \in Classrooms |-> Null]
  /\ window = [n \in Windows |-> Null]
  /\ amenity = [r \in Classrooms |-> {}]
  /\ activity = [a \in Activities |-> Null]
  /\ issued = {}
  /\ log = [r \in Classrooms |-> [amenities |-> {}, slots |-> {}]]
  /\ now = 0
  /\ tx = [w \in Workers |-> Null]

ClassroomRequest(w) ==
  \/ \E r \in Classrooms, row \in Sent.rooms : CreateClassroom(w, r, row)
  \/ \E r \in Classrooms, input \in Sent.inputs : BeginUpdateClassroom(w, r, input)
  \/ CommitUpdateClassroom(w)
  \/ \E r \in Classrooms, name \in Sent.amenities : BeginAddClassroomAmenity(w, r, name)
  \/ CommitAddClassroomAmenity(w)
  \/ \E r \in Classrooms, name \in Sent.amenities : BeginRemoveClassroomAmenity(w, r, name)
  \/ CommitRemoveClassroomAmenity(w)

WindowRequest(w) ==
  \/ \E r \in Classrooms, slot \in Sent.slots : BeginAddClassroomAvailability(w, r, slot)
  \/ \E n \in Windows : CommitAddClassroomAvailability(w, n)
  \/ \E r \in Classrooms, n \in Windows : BeginRemoveClassroomAvailability(w, r, n)
  \/ CommitRemoveClassroomAvailability(w)

BookingRequest(w) ==
  \/ \E a \in Activities, row \in Sent.drafts : BeginCreateActivity(w, a, row)
  \/ \E a \in Activities : BeginPublishActivity(w, a)
  \/ CommitBooking(w)
  \/ \E a \in Activities : CancelActivity(w, a)

Next ==
  \/ Tick
  \/ \E w \in Workers :
       ClassroomRequest(w) \/ WindowRequest(w) \/ BookingRequest(w) \/ Rollback(w)

Spec == Init /\ [][Next]_vars

-----------------------------------------------------------------------------

TypeOK ==
  /\ classroom \in [Classrooms -> ClassroomRow \cup {Null}]
  /\ window \in [Windows -> WindowRow \cup {Null}]
  /\ amenity \in [Classrooms -> SUBSET Amenities]
  /\ activity \in [Activities -> ActivityRow \cup {Null}]
  /\ issued \subseteq Windows
  /\ log \in [Classrooms -> [amenities : SUBSET Amenities, slots : SUBSET Slot]]
  /\ now \in Int
  /\ clients \in DOMAIN Clients

(***************************************************************************)
(* A room has no two windows of a day that overlap and no amenity twice in *)
(* different case, one request at a time: the indexes refuse only what is  *)
(* equal (addClassroomAvailability, addClassroomAmenity).                  *)
(***************************************************************************)
WindowsAndAmenitiesAreDistinct ==
  Alone => \A r \in Classrooms :
    /\ \A m, n \in WindowsOf(r) :
         /\ m # n /\ window[m].slot.dayOfWeek = window[n].slot.dayOfWeek
         => ~Overlap(window[m].slot, window[n].slot)
    /\ \A b, c \in amenity[r] : Folded[b] = Folded[c] => b = c

(***************************************************************************)
(* The rows have their types, windows are apart and amenities distinct.    *)
(***************************************************************************)
RoomTables == TypeOK /\ WindowsAndAmenitiesAreDistinct

(***************************************************************************)
(* The search for available rooms and the check of a booking agree on all  *)
(* that has not begun: a room that is offered can be booked, and a room    *)
(* that can be booked is offered.  One looks at what is unfinished now,    *)
(* the other at every reservation of the day (findAvailableClassrooms,     *)
(* assertActivityScheduleIsAvailable).                                     *)
(***************************************************************************)
OfferedIsBookable ==
  \A date \in Dates, startTime, endTime \in TimesOfDay, least \in Capacities \cup {Null} :
    (startTime < endTime /\ toInstitutionalInstant(date, startTime) >= now) =>
      findAvailableClassrooms([date |-> date, startTime |-> startTime, endTime |-> endTime,
                               minCapacity |-> least, amenity |-> Null])
        = {r \in Classrooms :
             assertActivityScheduleIsAvailable(Null, r,
               [date |-> date, startTime |-> startTime, endTime |-> endTime,
                maxCapacity |-> least])}

(***************************************************************************)
(* The audit log of a room, replayed, gives its amenities and its windows, *)
(* whatever is in flight: each event is what its transaction did, in the   *)
(* case in which the amenity was stored (removeClassroomAmenity).          *)
(***************************************************************************)
RoomLogReplays ==
  \A r \in Classrooms : log[r] = [amenities |-> amenity[r], slots |-> SlotsOf(r)]
=============================================================================
