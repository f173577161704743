------------------------------ MODULE Careers ------------------------------
(***************************************************************************)
(* modules/careers: the catalog of careers.                                *)
(***************************************************************************)
EXTENDS Registry

CareerInput ==
  [code : Codes \cup {Undefined}, unitId : Units \cup {Null, Undefined}]

CareerTxOK(t) ==
  \/ t.op = "createCareer" /\ t.row \in CareerRow
  \/ /\ t.op = "updateCareer"
     /\ t.id \in Careers /\ t.data \in CareerInput /\ Tells(t.changes, CareerColumns)
  \/ t.op \in {"deleteCareer", "deleteCareer counted"} /\ t.id \in Careers

assertUnitAvailable(unit) == unit \in Faculties /\ unit \in activeUnits

-----------------------------------------------------------------------------
(* createCareer *)

BeginCreateCareer(w, actor, row) ==
  /\ Accepts(w)
  /\ requireAdmin(actor)
  /\ row.unitId # Null => assertUnitAvailable(row.unitId)
  /\ careers_code_key(Null, row.code)
  /\ Begin(w, [op |-> "createCareer", row |-> row])

CommitCreateCareer(w, c) ==
  /\ Commits(w, "createCareer")
  /\ ~CareerExists(c) /\ told[c] = Nothing   \* an id not used before
  /\ careers_code_key(c, tx[w].row.code)
  /\ career' = [career EXCEPT ![c] = tx[w].row]
  /\ told' = Telling(c, tx[w].row)
  /\ UNCHANGED <<activeUnits, user, session>>

-----------------------------------------------------------------------------
(* updateCareer *)

\* Mutation: only the code of the global career is fixed.
KeepsOtros_CodeOnly(row, input) ==
  row.code = OTROS => input.code \in {OTROS, Undefined}

KeepsOtros(row, input) ==
  row.code = OTROS => /\ input.code \in {OTROS, Undefined}
                      /\ input.unitId \in {Null, Undefined}

MayMove(c, input) ==
  input.unitId \notin {Undefined, career[c].unitId} => UsersOf(c) = {}

BeginUpdateCareer(w, actor, c, input) ==
  /\ Accepts(w)
  /\ requireAdmin(actor)
  /\ CareerExists(c)
  /\ KeepsOtros(career[c], input)
  /\ input.unitId \notin {Undefined, Null} => assertUnitAvailable(input.unitId)
  /\ MayMove(c, input)
  /\ Begin(w, [op |-> "updateCareer", id |-> c, data |-> input,
               changes |-> Changed(career[c], input)])

CommitUpdateCareer(w) ==
  LET c == tx[w].id
      new == [code |-> Given(tx[w].data.code, career[c].code),
              unitId |-> Given(tx[w].data.unitId, career[c].unitId)]
  IN  /\ Commits(w, "updateCareer")
      /\ CareerExists(c)
      /\ careers_code_key(c, new.code)
      /\ career' = [career EXCEPT ![c] = new]
      /\ told' = Telling(c, tx[w].changes)
      /\ UNCHANGED <<activeUnits, user, session>>

-----------------------------------------------------------------------------
(* deleteCareer: the users are counted inside the transaction, which does  *)
(* not keep another one from assigning the career before the row goes.     *)

BeginDeleteCareer(w, actor, c) ==
  /\ Accepts(w)
  /\ requireAdmin(actor)
  /\ CareerExists(c)
  /\ career[c].code # OTROS
  /\ Begin(w, [op |-> "deleteCareer", id |-> c])

\* Mutation: only users of the unit of the career count.
CountCareerUsers_OfTheUnit(w) ==
  /\ ~Idle(w)
  /\ tx[w].op = "deleteCareer"
  /\ \A u \in UsersOf(tx[w].id) : user[u].unitId # career[tx[w].id].unitId
  /\ tx' = [tx EXCEPT ![w].op = "deleteCareer counted"]
  /\ UNCHANGED registry

CountCareerUsers(w) ==
  /\ ~Idle(w)
  /\ tx[w].op = "deleteCareer"
  /\ UsersOf(tx[w].id) = {}
  /\ tx' = [tx EXCEPT ![w].op = "deleteCareer counted"]
  /\ UNCHANGED registry

\* ON DELETE SET NULL.
CommitDeleteCareer(w) ==
  LET c == tx[w].id
  IN  /\ Commits(w, "deleteCareer counted")
      /\ CareerExists(c)
      /\ career' = [career EXCEPT ![c] = Null]
      /\ user' = [u \in Users |->
                    IF u \in UsersOf(c) THEN [user[u] EXCEPT !.careerId = Null] ELSE user[u]]
      /\ UNCHANGED <<activeUnits, session, told>>

CareerRequest(w) ==
  \/ \E actor \in Users, row \in Sent.careerRows : BeginCreateCareer(w, actor, row)
  \/ \E c \in Careers : CommitCreateCareer(w, c)
  \/ \E actor \in Users, c \in Careers, input \in Sent.careerInputs :
       BeginUpdateCareer(w, actor, c, input)
  \/ CommitUpdateCareer(w)
  \/ \E actor \in Users, c \in Careers : BeginDeleteCareer(w, actor, c)
  \/ CountCareerUsers(w)
  \/ CommitDeleteCareer(w)
=============================================================================
