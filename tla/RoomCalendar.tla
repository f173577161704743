--------------------------- MODULE RoomCalendar ----------------------------
(***************************************************************************)
(* What the booking of classrooms promises: a calendar in which every      *)
(* holder has at most one slot and no two slots of a room overlap.  A      *)
(* holder reserves or changes its slot only when the new one is free, in   *)
(* one step, and may give it up at any time.                               *)
(***************************************************************************)
EXTENDS Integers

CONSTANTS Holders, Rooms, Dates, Times, NoSlot

VARIABLE slot

Slots == [room : Rooms, date : Dates, from : Times, to : Times]

Collide(s, t) ==
  /\ s.room = t.room
  /\ s.date = t.date
  /\ s.from < t.to
  /\ t.from < s.to

Free(h, s) ==
  \A other \in Holders \ {h} : slot[other] # NoSlot => ~Collide(s, slot[other])

Init == slot = [h \in Holders |-> NoSlot]

Reserve(h, s) ==
  /\ s.from < s.to
  /\ Free(h, s)
  /\ slot' = [slot EXCEPT ![h] = s]

Release(h) == slot' = [slot EXCEPT ![h] = NoSlot]

Next == \E h \in Holders : Release(h) \/ \E s \in Slots : Reserve(h, s)

Spec == Init /\ [][Next]_slot

\* No two holders ever have colliding slots.
NoCollision ==
  \A h, other \in Holders :
    h # other /\ slot[h] # NoSlot /\ slot[other] # NoSlot
      => ~Collide(slot[h], slot[other])
=============================================================================
