------------------------------ MODULE MCRooms ------------------------------
(* Constants of the bounded checks of Rooms and Speakers: one room, a Sunday *)
(* and the Monday after it, days of four ticks in a zone one tick behind     *)
(* UTC; two activities and the speakers they share.                          *)
EXTENDS Speakers, TLC

CONSTANTS r1, wifi, WIFI, ana, luis

MCZoneOffset == -1
MCFolded == [name \in Amenities |-> wifi]

At(day, s, e) == [dayOfWeek |-> day, startTime |-> s, endTime |-> e]
Draft(date, s, e, most) ==
  [status |-> "DRAFT", classroomId |-> r1, date |-> date, startTime |-> s, endTime |-> e,
   maxCapacity |-> most]

\* Windows that overlap, touch and hold one another, on two days; an activity
\* in two of them at once, and one that needs the larger capacity.
OneAtATime ==
  [slots |-> {At(7, 0, 2), At(7, 1, 3), At(7, 2, 3), At(1, 0, 3)},
   drafts |-> {Draft(0, 0, 1, Null), Draft(0, 0, 2, 2), Draft(1, 1, 3, Null)},
   rooms |-> {[isActive |-> TRUE, capacity |-> 2]},
   inputs |-> {[isActive |-> b] : b \in BOOLEAN} \cup {[capacity |-> 1]},
   amenities |-> {}, lineups |-> {}, signUps |-> {}, inFlight |-> 1, until |-> 4]

\* Two requests in flight over amenities and windows.
TwoInFlight ==
  [OneAtATime EXCEPT !.slots = {At(7, 0, 2), At(7, 1, 3)}, !.drafts = {Draft(0, 0, 1, Null)},
                     !.amenities = {wifi, WIFI}, !.inputs = {[isActive |-> FALSE]},
                     !.inFlight = 2, !.until = 0]

\* Amenities, one request at a time.
Furnishing ==
  [OneAtATime EXCEPT !.slots = {}, !.drafts = {}, !.amenities = {wifi, WIFI}, !.until = 0]

By(name, email) == [email |-> email, name |-> name]

\* Speakers without rooms, one request at a time: the address of ana with two
\* names, and speakers without an address who share a name.
Inviting ==
  [OneAtATime EXCEPT
     !.slots = {}, !.drafts = {}, !.rooms = {}, !.inputs = {}, !.until = 0,
     !.signUps = {ana},
     !.lineups =
       {[speakers |-> <<By("Ana", ana)>>, equipment |-> {wifi}],
        [speakers |-> <<By("A.", ana), By("Eva", Null)>>],
        [speakers |-> <<By("Eva", Null), By("Eva", Null)>>],
        [equipment |-> {}]}]

\* Two requests in flight that name the same address.
InvitingTwice ==
  [Inviting EXCEPT
     !.inFlight = 2,
     !.lineups = {[speakers |-> <<By("Ana", ana)>>], [speakers |-> <<By("A.", ana)>>],
                  [speakers |-> <<By("Luis", luis)>>]}]

MCClients ==
  [oneAtATime |-> OneAtATime, twoInFlight |-> TwoInFlight, furnishing |-> Furnishing,
   inviting |-> Inviting, invitingTwice |-> InvitingTwice]

RowSymmetry ==
  Permutations(Workers) \cup Permutations(Windows) \cup Permutations(Activities)
=============================================================================
