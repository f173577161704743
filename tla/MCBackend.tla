----------------------------- MODULE MCBackend -----------------------------
(* Constants of the bounded checks of Backend.  One unit u1 with its default *)
(* program d1 and at most one additional program p1; two days of three       *)
(* ticks, so that an activity can lie before, around and after any instant;  *)
(* a zone one tick behind UTC.                                               *)
EXTENDS Booking, Listings, TLC

CONSTANTS u1, d1, p1, r1, w1, w2

MCOwner == [p \in Programs |-> u1]
MCDefaultProgram == [u \in Units |-> d1]
MCZoneOffset == -1

NoPatch == [status |-> Undefined, date |-> Undefined, startTime |-> Undefined,
            endTime |-> Undefined, classroom |-> Undefined]

Publish   == [NoPatch EXCEPT !.status = "SCHEDULED"]
Unpublish == [NoPatch EXCEPT !.status = "DRAFT"]
EndAt(t)  == [NoPatch EXCEPT !.endTime = t]
MoveTo(d) == [NoPatch EXCEPT !.date = d]
Assign(r) == [NoPatch EXCEPT !.classroom = r]
Slot(s, t) == [NoPatch EXCEPT !.startTime = s, !.endTime = t]

Draft(p, d, s, t, r) ==
  [eventProgram |-> p, date |-> d, startTime |-> s, endTime |-> t, classroom |-> r]

ProgramPatchOf(status, s, t) == [status |-> status, startDate |-> s, endDate |-> t]

-----------------------------------------------------------------------------
(* Requests are interchangeable, and so are activities. *)
RequestSymmetry == Permutations(Workers)
BookingSymmetry == Permutations(Workers) \cup Permutations(Activities)

-----------------------------------------------------------------------------
(* One request at a time, every endpoint. *)

SequentialDrafts == {Draft(p1, 1, 0, 1, r1), Draft(d1, 0, 1, 2, Null)}
SequentialPatches == {Publish, Unpublish, EndAt(2), MoveTo(0), Assign(r1), Assign(Null)}
SequentialRanges == {<<0, 1>>}
SequentialProgramPatches ==
  {ProgramPatchOf("ACTIVE", Undefined, Undefined),
   ProgramPatchOf(Undefined, 1, Undefined), ProgramPatchOf(Undefined, Undefined, 0)}
-----------------------------------------------------------------------------
(* Two requests in flight over two activities in one room. *)

BookingDrafts == {Draft(d1, 0, 0, 1, r1)}
BookingPatches == {Publish, Unpublish, EndAt(2), Slot(1, 2)}

-----------------------------------------------------------------------------
(* Two requests in flight over one activity and the programs around it. *)

LifecycleDrafts == {Draft(p1, 1, 0, 1, Null)}
LifecyclePatches == {Publish, Unpublish, EndAt(2), MoveTo(0)}
LifecycleRanges == {<<0, 1>>}
LifecycleProgramPatches ==
  {ProgramPatchOf("ACTIVE", Undefined, Undefined),
   ProgramPatchOf(Undefined, 1, Undefined), ProgramPatchOf(Undefined, Undefined, 0)}
=============================================================================
