---------------------------- MODULE Classrooms -----------------------------
(***************************************************************************)
(* modules/classrooms: taking a classroom out of use and back.  Name,      *)
(* type, capacity, amenities and availability windows are left out.        *)
(***************************************************************************)
EXTENDS Database

ClassroomTx == [op : {"updateClassroom"}, id : Classrooms, isActive : BOOLEAN]

ReservedFromNow(r) ==
  \E a \in Activities : /\ activity[a] # Null
                        /\ activity[a].classroom = r
                        /\ buildReservingActivityWhere(activity[a], now)

BeginUpdateClassroom(w, r, isActive) ==
  /\ ~isActive /\ classroom[r] => ~ReservedFromNow(r)
  /\ Begin(w, [op |-> "updateClassroom", id |-> r, isActive |-> isActive])

CommitUpdateClassroom(w) ==
  /\ Commits(w, "updateClassroom")
  /\ classroom' = [classroom EXCEPT ![tx[w].id] = tx[w].isActive]
  /\ UNCHANGED <<unit, program, activity, retained, activityAudit, programAudit>>
=============================================================================
