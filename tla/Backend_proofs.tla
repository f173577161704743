-------------------------- MODULE Backend_proofs ---------------------------
(***************************************************************************)
(* What holds of the backend however the requests interleave, for every    *)
(* set of rows, requests and workers: the types of the tables, the bond    *)
(* between a unit and its default program, the calendar of the rooms and   *)
(* the public listings.                                                    *)
(*                                                                         *)
(* Types are not inductive alone: a transaction updates a row that its     *)
(* request found earlier, so the row must still be there when it runs.     *)
(* Requests keeps what was read and cannot become false since.  The bond   *)
(* is needed for it: a default program is never a draft, hence no request  *)
(* in flight publishes one.                                                *)
(***************************************************************************)
EXTENDS Booking, Listings, ActivityStatus_proofs, FiniteSetTheorems

Tables ==
  /\ unit \in [Units -> UnitStates]
  /\ program \in [Programs -> ProgramRow \cup {Null}]
  /\ activity \in [Activities -> ActivityRow \cup {Null}]
  /\ classroom \in [Classrooms -> BOOLEAN]
  /\ retained \in SUBSET Activities
  /\ activityAudit \in [Activities -> ActivityActions \cup {Null}]
  /\ programAudit \in [Programs -> ProgramActions \cup {Null}]

\* What stays true of a transaction from the end of its reads to its commit.
Prepared(t) ==
  /\ t.op = "createActivity" =>
       /\ program[t.row.eventProgram] # Null
       /\ t.row.status = "DRAFT"
  /\ t.op \in {"updateEventProgram", "archiveEventProgram", "reactivateEventProgram"}
       => program[t.id] # Null
  /\ t.op = "updateEventProgram" /\ isDefault(t.id)
       => t.data = [status |-> Undefined, startDate |-> Undefined, endDate |-> Undefined]
  /\ t.op = "reactivateEventProgram" => ~isDefault(t.id)
  /\ t.op \in {"deactivateOrganizationalUnit", "reactivateOrganizationalUnit"}
       => unit[t.id] # "NONE"

Requests == \A w \in Workers : tx[w] # Null => Prepared(tx[w])

IInv ==
  /\ TypeOK
  /\ Requests
  /\ DefaultProgramFollowsUnit

\* Programs and units are never deleted.
RowsPersist ==
  /\ \A p \in Programs : program[p] # Null => program'[p] # Null
  /\ \A u \in Units : unit[u] # "NONE" => unit'[u] # "NONE"

-----------------------------------------------------------------------------
(* Rows and transactions. *)

\* A transaction has the fields of its operation.
LEMMA TransactionShapes ==
  ASSUME NEW t \in Transactions
  PROVE  /\ t.op = "createActivity" => t.row \in ActivityRow
         /\ t.op = "updateActivity" => t.id \in Activities /\ t.data \in ActivityPatch
         /\ t.op = "cancelActivity" => t.id \in Activities /\ t.reason \in Reasons \cup {Null}
         /\ t.op = "deleteActivity" => t.id \in Activities
         /\ t.op = "createEventProgram" =>
              t.unit \in Units /\ t.startDate \in Dates /\ t.endDate \in Dates
         /\ t.op = "updateEventProgram" => t.id \in Programs /\ t.data \in ProgramPatch
         /\ t.op \in {"archiveEventProgram", "reactivateEventProgram"} => t.id \in Programs
         /\ t.op \in {"createOrganizationalUnit", "deactivateOrganizationalUnit",
                      "reactivateOrganizationalUnit"} => t.id \in Units
         /\ t.op = "updateClassroom" => t.id \in Classrooms /\ t.isActive \in BOOLEAN
BY DEF Transactions, ActivityTx, ProgramTx, UnitTx, ClassroomTx

\* Each unit has its own default program.
LEMMA DefaultPrograms ==
  /\ \A u \in Units : DefaultProgram[u] \in Programs /\ isDefault(DefaultProgram[u])
  /\ \A u, v \in Units : DefaultProgram[u] = DefaultProgram[v] => u = v
  /\ \A p \in Programs : Owner[p] \in Units
BY SchemaAssumption DEF isDefault

\* The absent row is not a row.
LEMMA RowsAreNotNull ==
  /\ \A row \in ActivityRow : row # Null
  /\ \A row \in ProgramRow : row # Null
BY NullAssumption

\* The dates and times of a row are numbers, its times within a day.
LEMMA RowNumbers ==
  ASSUME NEW row \in ActivityRow
  PROVE  /\ row.date \in Int /\ row.date * DayLength \in Int
         /\ row.startTime \in 0 .. (DayLength - 1) /\ row.startTime \in Nat
         /\ row.endTime \in 0 .. (DayLength - 1) /\ row.endTime \in Nat
<1>1. row.date \in Dates /\ row.startTime \in Times /\ row.endTime \in Times
  BY DEF ActivityRow
<1>2. Dates \subseteq Int /\ Times \subseteq 0 .. (DayLength - 1)
  BY SchemaAssumption DEF TimesOfDay
<1>3. DayLength \in Nat BY TimeAssumption
<1>4. row.date \in Int BY <1>1, <1>2
<1>5. row.date * DayLength \in Int BY <1>3, <1>4
<1>6. row.startTime \in 0 .. (DayLength - 1) /\ row.endTime \in 0 .. (DayLength - 1)
  BY <1>1, <1>2
<1> QED BY <1>3, <1>4, <1>5, <1>6

-----------------------------------------------------------------------------
(* The two shapes of a step. *)

\* A request that begins leaves the tables alone.
LEMMA BeginKeeps ==
  ASSUME IInv, NEW w \in Workers, NEW t \in Transactions, Prepared(t), Begin(w, t)
  PROVE  IInv'
<1>1. TypeOK' BY DEF IInv, TypeOK, Begin, tables
<1>2. Requests'
  <2> SUFFICES ASSUME NEW v \in Workers, tx'[v] # Null PROVE Prepared(tx[v])'
    BY DEF Requests
  <2>1. UNCHANGED <<program, unit>> BY DEF Begin, tables
  <2>2. CASE v = w
    <3>1. tx'[v] = t BY <2>2 DEF Begin, IInv, TypeOK
    <3> QED BY <2>1, <3>1 DEF Prepared
  <2>3. CASE v # w
    <3>1. tx'[v] = tx[v] BY <2>3 DEF Begin, IInv, TypeOK
    <3>2. Prepared(tx[v]) BY <3>1 DEF IInv, Requests
    <3> QED BY <2>1, <3>1, <3>2 DEF Prepared
  <2> QED BY <2>2, <2>3
<1>3. DefaultProgramFollowsUnit' BY DEF IInv, DefaultProgramFollowsUnit, Begin, tables
<1> QED BY <1>1, <1>2, <1>3 DEF IInv

\* What was read of a row stays true while rows persist.
LEMMA PreparedPersists ==
  ASSUME TypeOK, RowsPersist, NEW t \in Transactions, Prepared(t)
  PROVE  Prepared(t)'
<1>1. /\ t.op = "createActivity" => t.row.eventProgram \in Programs
      /\ t.op \in {"updateEventProgram", "archiveEventProgram", "reactivateEventProgram"}
           => t.id \in Programs
      /\ t.op \in {"deactivateOrganizationalUnit", "reactivateOrganizationalUnit"}
           => t.id \in Units
  BY TransactionShapes DEF ActivityRow
<1> QED BY <1>1 DEF Prepared, RowsPersist

\* A request that leaves, committed or not, needs the tables well formed.
LEMMA LeaveKeeps ==
  ASSUME IInv, NEW w \in Workers, tx' = [tx EXCEPT ![w] = Null], UNCHANGED now,
         Tables', RowsPersist, DefaultProgramFollowsUnit'
  PROVE  IInv'
<1>1. TypeOK' BY DEF IInv, TypeOK, Tables
<1>2. Requests'
  <2> SUFFICES ASSUME NEW v \in Workers, tx'[v] # Null PROVE Prepared(tx[v])'
    BY DEF Requests
  <2>1. PICK t \in Transactions : t = tx[v] /\ t = tx'[v] /\ t # Null
    BY DEF IInv, TypeOK
  <2>2. Prepared(t) BY <2>1 DEF IInv, Requests
  <2>3. Prepared(t)' BY <2>2, PreparedPersists DEF IInv
  <2> QED BY <2>1, <2>3 DEF Prepared
<1> QED BY <1>1, <1>2 DEF IInv

\* The transaction about to run is typed, and was prepared.
LEMMA CommitsPrepared ==
  ASSUME IInv, NEW w \in Workers, NEW op, Commits(w, op)
  PROVE  /\ tx[w] \in Transactions /\ tx[w] # Null /\ tx[w].op = op
         /\ Prepared(tx[w])
         /\ tx' = [tx EXCEPT ![w] = Null] /\ UNCHANGED now
BY DEF IInv, TypeOK, Requests, Commits, Idle

\* A commit that writes neither a unit nor a program.
LEMMA ActivityWriteKeeps ==
  ASSUME IInv, NEW w \in Workers, NEW op, Commits(w, op), UNCHANGED <<unit, program, programAudit>>,
         activity' \in [Activities -> ActivityRow \cup {Null}],
         classroom' \in [Classrooms -> BOOLEAN],
         retained' \in SUBSET Activities,
         activityAudit' \in [Activities -> ActivityActions \cup {Null}]
  PROVE  IInv'
<1>1. Tables' BY DEF Tables, IInv, TypeOK
<1>2. RowsPersist BY DEF RowsPersist
<1>3. DefaultProgramFollowsUnit' BY DEF IInv, DefaultProgramFollowsUnit
<1> QED BY <1>1, <1>2, <1>3, CommitsPrepared, LeaveKeeps

-----------------------------------------------------------------------------
(* Activities. *)

\* An update keeps a row a row, and sets the fields it was given.
LEMMA WriteActivityType ==
  ASSUME NEW row \in ActivityRow, NEW data \in ActivityPatch
  PROVE  /\ WriteActivity(row, data) \in ActivityRow
         /\ WriteActivity(row, data).status = Given(data.status, row.status)
         /\ WriteActivity(row, data).eventProgram = row.eventProgram
         /\ WriteActivity(row, data).date = Given(data.date, row.date)
         /\ WriteActivity(row, data).startTime = Given(data.startTime, row.startTime)
         /\ WriteActivity(row, data).endTime = Given(data.endTime, row.endTime)
         /\ WriteActivity(row, data).classroom = Given(data.classroom, row.classroom)
         /\ WriteActivity(row, data).cancelReason = row.cancelReason
<1>1. /\ Given(data.status, row.status) \in ActivityStatuses
      /\ Given(data.date, row.date) \in Dates
      /\ Given(data.startTime, row.startTime) \in Times
      /\ Given(data.endTime, row.endTime) \in Times
      /\ Given(data.classroom, row.classroom) \in Classrooms \cup {Null}
  BY DEF Given, ActivityRow, ActivityPatch, ActivityStatuses
<1> QED BY <1>1 DEF WriteActivity, ActivityRow

\* The row to insert was built from a typed body.
LEMMA CommitCreateActivityKeeps ==
  ASSUME IInv, NEW w \in Workers, NEW a \in Activities, CommitCreateActivity(w, a)
  PROVE  IInv'
<1>1. tx[w].row \in ActivityRow
  BY CommitsPrepared, TransactionShapes DEF CommitCreateActivity
<1>2. activity' \in [Activities -> ActivityRow \cup {Null}]
  BY <1>1 DEF IInv, TypeOK, CommitCreateActivity
<1>3. activityAudit' \in [Activities -> ActivityActions \cup {Null}]
  BY DEF IInv, TypeOK, CommitCreateActivity, ActivityActions
<1>4. classroom' \in [Classrooms -> BOOLEAN] /\ retained' \in SUBSET Activities
  BY DEF IInv, TypeOK, CommitCreateActivity
<1> QED BY <1>2, <1>3, <1>4, ActivityWriteKeeps DEF CommitCreateActivity

\* updateActivity only overwrites columns of a row that is still there.
LEMMA CommitUpdateActivityKeeps ==
  ASSUME IInv, NEW w \in Workers, CommitUpdateActivity(w)
  PROVE  IInv'
<1>1. tx[w].id \in Activities /\ tx[w].data \in ActivityPatch
  BY CommitsPrepared, TransactionShapes DEF CommitUpdateActivity
<1>2. activity[tx[w].id] \in ActivityRow
  BY <1>1 DEF IInv, TypeOK, CommitUpdateActivity
<1>3. activity' \in [Activities -> ActivityRow \cup {Null}]
  BY <1>1, <1>2, WriteActivityType DEF IInv, TypeOK, CommitUpdateActivity
<1>4. activityAudit' \in [Activities -> ActivityActions \cup {Null}]
  BY <1>1 DEF IInv, TypeOK, CommitUpdateActivity, ActivityActions
<1>5. classroom' \in [Classrooms -> BOOLEAN] /\ retained' \in SUBSET Activities
  BY DEF IInv, TypeOK, CommitUpdateActivity
<1> QED BY <1>3, <1>4, <1>5, ActivityWriteKeeps DEF CommitUpdateActivity

\* cancelActivity overwrites the status and the reason.
LEMMA CommitCancelActivityKeeps ==
  ASSUME IInv, NEW w \in Workers, CommitCancelActivity(w)
  PROVE  IInv'
<1>1. tx[w].id \in Activities /\ tx[w].reason \in Reasons \cup {Null}
  BY CommitsPrepared, TransactionShapes DEF CommitCancelActivity
<1>2. activity[tx[w].id] \in ActivityRow
  BY <1>1 DEF IInv, TypeOK, CommitCancelActivity
<1>3. [activity[tx[w].id] EXCEPT !.status = "CANCELLED", !.cancelReason = tx[w].reason]
        \in ActivityRow
  BY <1>1, <1>2 DEF ActivityRow, ActivityStatuses
<1>4. activity' \in [Activities -> ActivityRow \cup {Null}]
  BY <1>1, <1>3 DEF IInv, TypeOK, CommitCancelActivity
<1>5. activityAudit' \in [Activities -> ActivityActions \cup {Null}]
  BY <1>1 DEF IInv, TypeOK, CommitCancelActivity, ActivityActions
<1>6. classroom' \in [Classrooms -> BOOLEAN] /\ retained' \in SUBSET Activities
  BY DEF IInv, TypeOK, CommitCancelActivity
<1> QED BY <1>4, <1>5, <1>6, ActivityWriteKeeps DEF CommitCancelActivity

\* deleteActivity removes a row; no program or unit is touched.
LEMMA CommitDeleteActivityKeeps ==
  ASSUME IInv, NEW w \in Workers, CommitDeleteActivity(w)
  PROVE  IInv'
<1>1. activity' \in [Activities -> ActivityRow \cup {Null}]
  BY DEF IInv, TypeOK, CommitDeleteActivity
<1>2. activityAudit' \in [Activities -> ActivityActions \cup {Null}]
  BY DEF IInv, TypeOK, CommitDeleteActivity, ActivityActions
<1>3. classroom' \in [Classrooms -> BOOLEAN] /\ retained' \in SUBSET Activities
  BY DEF IInv, TypeOK, CommitDeleteActivity
<1> QED BY <1>1, <1>2, <1>3, ActivityWriteKeeps DEF CommitDeleteActivity

\* updateClassroom writes a flag that the rest of the invariant ignores.
LEMMA CommitUpdateClassroomKeeps ==
  ASSUME IInv, NEW w \in Workers, CommitUpdateClassroom(w)
  PROVE  IInv'
<1>1. tx[w].isActive \in BOOLEAN
  BY CommitsPrepared, TransactionShapes DEF CommitUpdateClassroom
<1>2. classroom' \in [Classrooms -> BOOLEAN]
  BY <1>1 DEF IInv, TypeOK, CommitUpdateClassroom
<1>3. /\ activity' \in [Activities -> ActivityRow \cup {Null}]
      /\ retained' \in SUBSET Activities
      /\ activityAudit' \in [Activities -> ActivityActions \cup {Null}]
  BY DEF IInv, TypeOK, CommitUpdateClassroom
<1> QED BY <1>2, <1>3, ActivityWriteKeeps DEF CommitUpdateClassroom

-----------------------------------------------------------------------------
(* Event programs. *)

\* A commit that writes one program p and leaves units and activities alone.
LEMMA ProgramWriteKeeps ==
  ASSUME IInv, NEW w \in Workers, NEW op, Commits(w, op),
         UNCHANGED <<unit, activity, classroom, retained, activityAudit>>,
         NEW p \in Programs, NEW new \in ProgramRow,
         program' = [program EXCEPT ![p] = new],
         programAudit' \in [Programs -> ProgramActions \cup {Null}],
         isDefault(p) => program[p] # Null /\ new = program[p]
  PROVE  IInv'
<1>1. Tables' BY DEF Tables, IInv, TypeOK
<1>2. RowsPersist BY RowsAreNotNull DEF RowsPersist, IInv, TypeOK
<1>3. \A u \in Units : program'[DefaultProgram[u]] = program[DefaultProgram[u]]
  <2> TAKE u \in Units
  <2>1. DefaultProgram[u] \in Programs /\ isDefault(DefaultProgram[u]) BY DefaultPrograms
  <2> QED BY <2>1 DEF IInv, TypeOK
<1>4. DefaultProgramFollowsUnit' BY <1>3 DEF IInv, DefaultProgramFollowsUnit
<1> QED BY <1>1, <1>2, <1>4, CommitsPrepared, LeaveKeeps

\* Only additional programs are created by a request of their own.
LEMMA CommitCreateEventProgramKeeps ==
  ASSUME IInv, NEW w \in Workers, NEW p \in Programs, CommitCreateEventProgram(w, p)
  PROVE  IInv'
<1> DEFINE new == [status |-> "DRAFT", startDate |-> tx[w].startDate,
                   endDate |-> tx[w].endDate, archived |-> FALSE]
<1>1. new \in ProgramRow
  BY CommitsPrepared, TransactionShapes
  DEF CommitCreateEventProgram, ProgramRow, ProgramStatuses
<1>2. programAudit' \in [Programs -> ProgramActions \cup {Null}]
  BY DEF IInv, TypeOK, CommitCreateEventProgram, ProgramActions
<1>3. program' = [program EXCEPT ![p] = new] /\ ~isDefault(p)
  BY DEF CommitCreateEventProgram, UpdatesProgram
<1> HIDE DEF new
<1> QED BY <1>1, <1>2, <1>3, ProgramWriteKeeps DEF CommitCreateEventProgram

\* An update keeps a program a program, and sets the fields it was given.
LEMMA WriteProgramType ==
  ASSUME NEW row \in ProgramRow, NEW data \in ProgramPatch
  PROVE  /\ WriteProgram(row, data) \in ProgramRow
         /\ WriteProgram(row, data).status = Given(data.status, row.status)
         /\ WriteProgram(row, data).startDate = Given(data.startDate, row.startDate)
         /\ WriteProgram(row, data).endDate = Given(data.endDate, row.endDate)
         /\ WriteProgram(row, data).archived = row.archived
<1>1. /\ Given(data.status, row.status) \in ProgramStatuses
      /\ Given(data.startDate, row.startDate) \in Dates \cup {Null}
      /\ Given(data.endDate, row.endDate) \in Dates \cup {Null}
  BY DEF Given, ProgramRow, ProgramPatch, ProgramStatuses
<1> QED BY <1>1 DEF WriteProgram, ProgramRow

\* The default program is only written with an empty patch.
LEMMA CommitUpdateEventProgramKeeps ==
  ASSUME IInv, NEW w \in Workers, CommitUpdateEventProgram(w)
  PROVE  IInv'
<1> DEFINE p   == tx[w].id
           new == WriteProgram(program[p], tx[w].data)
<1>1. p \in Programs /\ tx[w].data \in ProgramPatch
  BY CommitsPrepared, TransactionShapes DEF CommitUpdateEventProgram
<1>2. program[p] # Null /\ program[p] \in ProgramRow
  BY <1>1, CommitsPrepared DEF CommitUpdateEventProgram, Prepared, IInv, TypeOK
<1>3. new \in ProgramRow BY <1>1, <1>2, WriteProgramType
<1>4. programAudit' \in [Programs -> ProgramActions \cup {Null}]
  BY <1>1 DEF IInv, TypeOK, CommitUpdateEventProgram, ProgramActions
<1>5. program' = [program EXCEPT ![p] = new]
  BY DEF CommitUpdateEventProgram, UpdatesProgram
<1>6. ASSUME isDefault(p) PROVE new = program[p]
  <2>1. tx[w].data = [status |-> Undefined, startDate |-> Undefined, endDate |-> Undefined]
    BY <1>6, CommitsPrepared DEF CommitUpdateEventProgram, Prepared
  <2>2. /\ new.status = program[p].status /\ new.startDate = program[p].startDate
        /\ new.endDate = program[p].endDate /\ new.archived = program[p].archived
    BY <1>1, <1>2, <2>1, WriteProgramType DEF Given
  <2> HIDE DEF p, new
  <2> QED BY <1>2, <1>3, <2>2 DEF ProgramRow
<1>7. UNCHANGED <<unit, activity, classroom, retained, activityAudit>>
  BY DEF CommitUpdateEventProgram
<1>8. Commits(w, "updateEventProgram") BY DEF CommitUpdateEventProgram
<1> HIDE DEF p, new
<1> QED BY <1>1, <1>2, <1>3, <1>4, <1>5, <1>6, <1>7, <1>8, ProgramWriteKeeps

\* The trigger lets a default program be archived only if it already is.
LEMMA CommitArchiveEventProgramKeeps ==
  ASSUME IInv, NEW w \in Workers, CommitArchiveEventProgram(w)
  PROVE  IInv'
<1> DEFINE p   == tx[w].id
           new == [program[p] EXCEPT !.status = "ARCHIVED", !.archived = TRUE]
<1>1. p \in Programs
  BY CommitsPrepared, TransactionShapes DEF CommitArchiveEventProgram
<1>2. program[p] # Null /\ program[p] \in ProgramRow
  BY <1>1, CommitsPrepared DEF CommitArchiveEventProgram, Prepared, IInv, TypeOK
<1>3. new \in ProgramRow BY <1>2 DEF ProgramRow, ProgramStatuses
<1>4. programAudit' \in [Programs -> ProgramActions \cup {Null}]
  BY <1>1 DEF IInv, TypeOK, CommitArchiveEventProgram, ProgramActions
<1>5. /\ program' = [program EXCEPT ![p] = new]
      /\ validate_event_program_transition(p, new, unit[Owner[p]] = "ACTIVE")
  BY DEF CommitArchiveEventProgram, UpdatesProgram
<1>6. ASSUME isDefault(p) PROVE new = program[p]
  <2>1. Owner[p] \in Units /\ p = DefaultProgram[Owner[p]]
    BY <1>1, <1>6, DefaultPrograms DEF isDefault
  <2>2. program[p].status # "ARCHIVED" => unit[Owner[p]] # "ACTIVE"
    BY <1>2, <1>5, <1>6 DEF validate_event_program_transition, ProgramRow
  <2>3. unit[Owner[p]] \in UnitStates BY <2>1 DEF IInv, TypeOK
  <2>4. program[p].status = "ARCHIVED" /\ program[p].archived
    BY <1>2, <2>1, <2>2, <2>3 DEF IInv, DefaultProgramFollowsUnit, UnitStates
  <2>5. program[p].archived = TRUE BY <1>2, <2>4 DEF ProgramRow
  <2> QED BY <1>2, <2>4, <2>5 DEF ProgramRow
<1>7. UNCHANGED <<unit, activity, classroom, retained, activityAudit>>
  BY DEF CommitArchiveEventProgram
<1>8. Commits(w, "archiveEventProgram") BY DEF CommitArchiveEventProgram
<1> HIDE DEF p, new
<1> QED BY <1>1, <1>2, <1>3, <1>4, <1>5, <1>6, <1>7, <1>8, ProgramWriteKeeps

\* A default program is never reactivated on its own.
LEMMA CommitReactivateEventProgramKeeps ==
  ASSUME IInv, NEW w \in Workers, CommitReactivateEventProgram(w)
  PROVE  IInv'
<1> DEFINE p   == tx[w].id
           new == [program[p] EXCEPT !.status = "ACTIVE", !.archived = FALSE]
<1>1. p \in Programs
  BY CommitsPrepared, TransactionShapes DEF CommitReactivateEventProgram
<1>2. program[p] # Null /\ program[p] \in ProgramRow /\ ~isDefault(p)
  BY <1>1, CommitsPrepared DEF CommitReactivateEventProgram, Prepared, IInv, TypeOK
<1>3. new \in ProgramRow BY <1>2 DEF ProgramRow, ProgramStatuses
<1>4. programAudit' \in [Programs -> ProgramActions \cup {Null}]
  BY <1>1 DEF IInv, TypeOK, CommitReactivateEventProgram, ProgramActions
<1>5. program' = [program EXCEPT ![p] = new]
  BY DEF CommitReactivateEventProgram, UpdatesProgram
<1>6. UNCHANGED <<unit, activity, classroom, retained, activityAudit>>
  BY DEF CommitReactivateEventProgram
<1>7. Commits(w, "reactivateEventProgram") BY DEF CommitReactivateEventProgram
<1> HIDE DEF p, new
<1> QED BY <1>1, <1>2, <1>3, <1>4, <1>5, <1>6, <1>7, ProgramWriteKeeps

-----------------------------------------------------------------------------
(* Organizational units. *)

\* A commit that gives unit u a state and its default program the matching row.
LEMMA UnitWriteKeeps ==
  ASSUME IInv, NEW w \in Workers, NEW op, Commits(w, op),
         UNCHANGED <<activity, classroom, retained, activityAudit, programAudit>>,
         NEW u \in Units, NEW state \in {"ACTIVE", "INACTIVE"}, NEW new \in ProgramRow,
         unit' = [unit EXCEPT ![u] = state],
         program' = [program EXCEPT ![DefaultProgram[u]] = new],
         state = "ACTIVE" => new.status = "ACTIVE" /\ ~new.archived,
         state = "INACTIVE" => new.status = "ARCHIVED" /\ new.archived
  PROVE  IInv'
<1>1. Tables' BY DefaultPrograms DEF Tables, IInv, TypeOK, UnitStates
<1>2. RowsPersist BY RowsAreNotNull DEF RowsPersist, IInv, TypeOK
<1>3. DefaultProgramFollowsUnit'
  <2> SUFFICES ASSUME NEW v \in Units
               PROVE  LET p == program'[DefaultProgram[v]]
                      IN  /\ unit'[v] = "NONE" <=> p = Null
                          /\ unit'[v] = "ACTIVE" => p.status = "ACTIVE" /\ ~p.archived
                          /\ unit'[v] = "INACTIVE" => p.status = "ARCHIVED" /\ p.archived
    BY DEF DefaultProgramFollowsUnit
  <2>1. DefaultProgram[u] \in Programs /\ DefaultProgram[v] \in Programs BY DefaultPrograms
  <2>2. CASE v = u
    <3>1. unit'[v] = state /\ program'[DefaultProgram[v]] = new
      BY <2>1, <2>2 DEF IInv, TypeOK
    <3> QED BY <3>1, RowsAreNotNull
  <2>3. CASE v # u
    <3>1. DefaultProgram[v] # DefaultProgram[u] BY <2>3, DefaultPrograms
    <3>2. unit'[v] = unit[v] /\ program'[DefaultProgram[v]] = program[DefaultProgram[v]]
      BY <2>1, <2>3, <3>1 DEF IInv, TypeOK
    <3> QED BY <3>2 DEF IInv, DefaultProgramFollowsUnit
  <2> QED BY <2>2, <2>3
<1> QED BY <1>1, <1>2, <1>3, CommitsPrepared, LeaveKeeps

\* A unit is created with its active default program.
LEMMA CommitCreateOrganizationalUnitKeeps ==
  ASSUME IInv, NEW w \in Workers, CommitCreateOrganizationalUnit(w)
  PROVE  IInv'
<1> DEFINE u   == tx[w].id
           new == DefaultProgramRow("ACTIVE", FALSE)
<1>1. u \in Units
  BY CommitsPrepared, TransactionShapes DEF CommitCreateOrganizationalUnit
<1>2. new \in ProgramRow /\ new.status = "ACTIVE" /\ ~new.archived
  BY DEF DefaultProgramRow, ProgramRow, ProgramStatuses
<1>3. /\ Commits(w, "createOrganizationalUnit")
      /\ unit' = [unit EXCEPT ![u] = "ACTIVE"]
      /\ program' = [program EXCEPT ![DefaultProgram[u]] = new]
      /\ UNCHANGED <<activity, classroom, retained, activityAudit, programAudit>>
  BY DEF CommitCreateOrganizationalUnit
<1> HIDE DEF u, new
<1> QED BY <1>1, <1>2, <1>3, UnitWriteKeeps

\* The default program of a unit that exists is a row.
LEMMA UnitsHavePrograms ==
  ASSUME IInv, NEW u \in Units, unit[u] # "NONE"
  PROVE  program[DefaultProgram[u]] \in ProgramRow
BY DefaultPrograms DEF IInv, TypeOK, DefaultProgramFollowsUnit

\* A unit is deactivated with its program, which is still there.
LEMMA CommitDeactivateOrganizationalUnitKeeps ==
  ASSUME IInv, NEW w \in Workers, CommitDeactivateOrganizationalUnit(w)
  PROVE  IInv'
<1> DEFINE u   == tx[w].id
           p   == DefaultProgram[u]
           new == [program[p] EXCEPT !.status = "ARCHIVED", !.archived = TRUE]
<1>1. u \in Units /\ unit[u] # "NONE"
  BY CommitsPrepared, TransactionShapes DEF CommitDeactivateOrganizationalUnit, Prepared
<1>2. program[p] \in ProgramRow BY <1>1, UnitsHavePrograms
<1>3. new \in ProgramRow /\ new.status = "ARCHIVED" /\ new.archived
  BY <1>2 DEF ProgramRow, ProgramStatuses
<1>4. /\ Commits(w, "deactivateOrganizationalUnit")
      /\ unit' = [unit EXCEPT ![u] = "INACTIVE"]
      /\ program' = [program EXCEPT ![p] = new]
      /\ UNCHANGED <<activity, classroom, retained, activityAudit, programAudit>>
  BY DEF CommitDeactivateOrganizationalUnit
<1> HIDE DEF u, new
<1> QED BY <1>1, <1>3, <1>4, UnitWriteKeeps

\* A unit reactivated by another request meanwhile is left as it is.
LEMMA CommitReactivateOrganizationalUnitKeeps ==
  ASSUME IInv, NEW w \in Workers, CommitReactivateOrganizationalUnit(w)
  PROVE  IInv'
<1> DEFINE u   == tx[w].id
           p   == DefaultProgram[u]
           new == [program[p] EXCEPT !.status = "ACTIVE", !.archived = FALSE]
<1>1. u \in Units /\ unit[u] # "NONE" /\ p \in Programs
  BY CommitsPrepared, TransactionShapes, DefaultPrograms
  DEF CommitReactivateOrganizationalUnit, Prepared
<1>2. program[p] \in ProgramRow BY <1>1, UnitsHavePrograms
<1>3. new \in ProgramRow /\ new.status = "ACTIVE" /\ ~new.archived
  BY <1>2 DEF ProgramRow, ProgramStatuses
<1>4. program' = [program EXCEPT ![p] = new]
  <2>1. CASE unit[u] = "ACTIVE"
    <3>1. program[p].status = "ACTIVE" /\ program[p].archived = FALSE
      BY <1>1, <1>2, <2>1 DEF IInv, DefaultProgramFollowsUnit, ProgramRow
    <3>2. new = program[p] BY <1>2, <3>1 DEF ProgramRow
    <3>3. program' = program
      BY <2>1 DEF CommitReactivateOrganizationalUnit, reactivate_default_event_program
    <3> HIDE DEF new
    <3> QED BY <1>1, <3>2, <3>3 DEF IInv, TypeOK
  <2>2. CASE unit[u] # "ACTIVE"
    <3>1. program' = [program EXCEPT ![p].status = "ACTIVE", ![p].archived = FALSE]
      BY <2>2 DEF CommitReactivateOrganizationalUnit, reactivate_default_event_program
    <3> QED BY <1>1, <1>2, <3>1 DEF IInv, TypeOK, ProgramRow
  <2> QED BY <2>1, <2>2
<1>5. /\ Commits(w, "reactivateOrganizationalUnit")
      /\ unit' = [unit EXCEPT ![u] = "ACTIVE"]
      /\ UNCHANGED <<activity, classroom, retained, activityAudit, programAudit>>
  BY DEF CommitReactivateOrganizationalUnit
<1> HIDE DEF u, new
<1> QED BY <1>1, <1>3, <1>4, <1>5, UnitWriteKeeps

-----------------------------------------------------------------------------
(* The reads of a request end with a prepared transaction. *)

\* What the reads of an activity request leave in flight is prepared.
LEMMA ActivityBegins ==
  ASSUME IInv, NEW w \in Workers,
         \/ \E input \in NewActivities : BeginCreateActivity(w, input)
         \/ \E a \in Activities, input \in ActivityPatches : BeginUpdateActivity(w, a, input)
         \/ \E a \in Activities, reason \in Reasons \cup {Null} :
              BeginCancelActivity(w, a, reason)
         \/ \E a \in Activities : BeginDeleteActivity(w, a)
  PROVE  \E t \in Transactions : Prepared(t) /\ Begin(w, t)
<1>1. ASSUME NEW input \in NewActivities, BeginCreateActivity(w, input)
      PROVE  \E t \in Transactions : Prepared(t) /\ Begin(w, t)
  <2> DEFINE row == [status |-> "DRAFT", eventProgram |-> input.eventProgram,
                     date |-> input.date, startTime |-> input.startTime,
                     endTime |-> input.endTime, classroom |-> input.classroom,
                     cancelReason |-> Null]
             t   == [op |-> "createActivity", row |-> row]
  <2>1. input \in NewActivity BY InputAssumption
  <2>2. row \in ActivityRow BY <2>1 DEF NewActivity, ActivityRow, ActivityStatuses
  <2>3. t \in Transactions BY <2>2 DEF Transactions, ActivityTx
  <2>4. Prepared(t) BY <1>1 DEF BeginCreateActivity, Prepared
  <2>5. Begin(w, t) BY <1>1 DEF BeginCreateActivity
  <2> QED BY <2>3, <2>4, <2>5
<1>2. ASSUME NEW a \in Activities, NEW input \in ActivityPatches,
             BeginUpdateActivity(w, a, input)
      PROVE  \E t \in Transactions : Prepared(t) /\ Begin(w, t)
  <2> DEFINE data == UpdateData(activity[a], input)
             t    == [op |-> "updateActivity", id |-> a, data |-> data]
  <2>1. input \in ActivityPatch BY InputAssumption
  <2>2. resolveActivityStatus(activity[a], now) \in {"DRAFT", "SCHEDULED"}
    BY <1>2 DEF BeginUpdateActivity, MayBeModified
  <2>3. Given(input.status, resolveActivityStatus(activity[a], now)) \in {"DRAFT", "SCHEDULED"}
    BY <2>1, <2>2 DEF Given, ActivityPatch
  <2>4. data \in ActivityPatch BY <2>1, <2>3 DEF UpdateData, ActivityPatch
  <2>5. t \in Transactions BY <2>4 DEF Transactions, ActivityTx
  <2>6. Prepared(t) BY DEF Prepared
  <2>7. Begin(w, t) BY <1>2 DEF BeginUpdateActivity
  <2> QED BY <2>5, <2>6, <2>7
<1>3. ASSUME NEW a \in Activities, NEW reason \in Reasons \cup {Null},
             BeginCancelActivity(w, a, reason)
      PROVE  \E t \in Transactions : Prepared(t) /\ Begin(w, t)
  <2> DEFINE t == [op |-> "cancelActivity", id |-> a, reason |-> reason]
  <2>1. t \in Transactions BY DEF Transactions, ActivityTx
  <2>2. Prepared(t) BY DEF Prepared
  <2>3. Begin(w, t) BY <1>3 DEF BeginCancelActivity
  <2> QED BY <2>1, <2>2, <2>3
<1>4. ASSUME NEW a \in Activities, BeginDeleteActivity(w, a)
      PROVE  \E t \in Transactions : Prepared(t) /\ Begin(w, t)
  <2> DEFINE t == [op |-> "deleteActivity", id |-> a]
  <2>1. t \in Transactions BY DEF Transactions, ActivityTx
  <2>2. Prepared(t) BY DEF Prepared
  <2>3. Begin(w, t) BY <1>4 DEF BeginDeleteActivity
  <2> QED BY <2>1, <2>2, <2>3
<1> QED BY <1>1, <1>2, <1>3, <1>4

\* So is what the reads of a program request leave; no default program is
\* published or moved, because it is never a draft and its dates are refused.
LEMMA ProgramBegins ==
  ASSUME IInv, NEW w \in Workers,
         \/ \E u \in Units, range \in ProgramRanges :
              BeginCreateEventProgram(w, u, range[1], range[2])
         \/ \E p \in Programs, input \in ProgramPatches : BeginUpdateEventProgram(w, p, input)
         \/ \E p \in Programs : BeginArchiveEventProgram(w, p)
         \/ \E p \in Programs : BeginReactivateEventProgram(w, p)
  PROVE  \E t \in Transactions : Prepared(t) /\ Begin(w, t)
<1>1. ASSUME NEW u \in Units, NEW range \in ProgramRanges,
             BeginCreateEventProgram(w, u, range[1], range[2])
      PROVE  \E t \in Transactions : Prepared(t) /\ Begin(w, t)
  <2> DEFINE t == [op |-> "createEventProgram", unit |-> u,
                   startDate |-> range[1], endDate |-> range[2]]
  <2>1. range[1] \in Dates /\ range[2] \in Dates BY InputAssumption
  <2>2. t \in Transactions BY <2>1 DEF Transactions, ProgramTx
  <2>3. Prepared(t) BY DEF Prepared
  <2>4. Begin(w, t) BY <1>1 DEF BeginCreateEventProgram
  <2> QED BY <2>2, <2>3, <2>4
<1>2. ASSUME NEW p \in Programs, NEW input \in ProgramPatches,
             BeginUpdateEventProgram(w, p, input)
      PROVE  \E t \in Transactions : Prepared(t) /\ Begin(w, t)
  <2> DEFINE t == [op |-> "updateEventProgram", id |-> p, data |-> input]
  <2>1. input \in ProgramPatch BY InputAssumption
  <2>2. t \in Transactions BY <2>1 DEF Transactions, ProgramTx
  <2>3. program[p] # Null BY <1>2 DEF BeginUpdateEventProgram
  <2>4. ASSUME isDefault(p)
        PROVE  input = [status |-> Undefined, startDate |-> Undefined, endDate |-> Undefined]
    <3>1. Owner[p] \in Units /\ p = DefaultProgram[Owner[p]]
      BY <2>4, DefaultPrograms DEF isDefault
    <3>2. unit[Owner[p]] \in UnitStates BY <3>1 DEF IInv, TypeOK
    <3>3. program[p].status # "DRAFT"
      BY <2>3, <3>1, <3>2 DEF IInv, DefaultProgramFollowsUnit, UnitStates
    <3>4. /\ input.status = "ACTIVE" => program[p].status = "DRAFT"
          /\ input.startDate = Undefined /\ input.endDate = Undefined
      BY <1>2, <2>4 DEF BeginUpdateEventProgram
    <3> QED BY <2>1, <3>3, <3>4 DEF ProgramPatch
  <2>5. Prepared(t) BY <2>3, <2>4 DEF Prepared
  <2>6. Begin(w, t) BY <1>2 DEF BeginUpdateEventProgram
  <2> QED BY <2>2, <2>5, <2>6
<1>3. ASSUME NEW p \in Programs, BeginArchiveEventProgram(w, p)
      PROVE  \E t \in Transactions : Prepared(t) /\ Begin(w, t)
  <2> DEFINE t == [op |-> "archiveEventProgram", id |-> p]
  <2>1. t \in Transactions BY DEF Transactions, ProgramTx
  <2>2. Prepared(t) BY <1>3 DEF Prepared, BeginArchiveEventProgram
  <2>3. Begin(w, t) BY <1>3 DEF BeginArchiveEventProgram
  <2> QED BY <2>1, <2>2, <2>3
<1>4. ASSUME NEW p \in Programs, BeginReactivateEventProgram(w, p)
      PROVE  \E t \in Transactions : Prepared(t) /\ Begin(w, t)
  <2> DEFINE t == [op |-> "reactivateEventProgram", id |-> p]
  <2>1. t \in Transactions BY DEF Transactions, ProgramTx
  <2>2. Prepared(t) BY <1>4 DEF Prepared, BeginReactivateEventProgram
  <2>3. Begin(w, t) BY <1>4 DEF BeginReactivateEventProgram
  <2> QED BY <2>1, <2>2, <2>3
<1> QED BY <1>1, <1>2, <1>3, <1>4

\* So is what the reads of a unit request leave.
LEMMA UnitBegins ==
  ASSUME NEW w \in Workers, NEW u \in Units,
         \/ BeginCreateOrganizationalUnit(w, u)
         \/ BeginDeactivateOrganizationalUnit(w, u)
         \/ BeginReactivateOrganizationalUnit(w, u)
  PROVE  \E t \in Transactions : Prepared(t) /\ Begin(w, t)
<1>1. PICK op \in {"createOrganizationalUnit", "deactivateOrganizationalUnit",
                   "reactivateOrganizationalUnit"} :
        /\ Begin(w, [op |-> op, id |-> u])
        /\ op # "createOrganizationalUnit" => unit[u] # "NONE"
  BY DEF BeginCreateOrganizationalUnit, BeginDeactivateOrganizationalUnit,
         BeginReactivateOrganizationalUnit, MayBeDeactivated
<1> DEFINE t == [op |-> op, id |-> u]
<1>2. t \in Transactions BY DEF Transactions, UnitTx
<1>3. Prepared(t) BY <1>1 DEF Prepared
<1> QED BY <1>1, <1>2, <1>3

\* So is what the reads of a classroom request leave.
LEMMA ClassroomBegins ==
  ASSUME NEW w \in Workers, NEW r \in Classrooms, NEW isActive \in BOOLEAN,
         BeginUpdateClassroom(w, r, isActive)
  PROVE  \E t \in Transactions : Prepared(t) /\ Begin(w, t)
<1> DEFINE t == [op |-> "updateClassroom", id |-> r, isActive |-> isActive]
<1>1. t \in Transactions BY DEF Transactions, ClassroomTx
<1>2. Prepared(t) BY DEF Prepared
<1>3. Begin(w, t) BY DEF BeginUpdateClassroom
<1> QED BY <1>1, <1>2, <1>3

-----------------------------------------------------------------------------
(* Together. *)

\* A migrated database satisfies the invariant.
LEMMA Initially == Init => IInv
BY DefaultPrograms
DEF Init, IInv, TypeOK, Requests, DefaultProgramFollowsUnit, UnitStates

\* Time, alerts and requests that are given up touch none of it.
LEMMA OtherStepsKeep ==
  ASSUME IInv,
         \/ Tick
         \/ \E a \in Activities : CreateAlert(a)
         \/ \E w \in Workers : Rollback(w)
         \/ UNCHANGED vars
  PROVE  IInv'
<1>1. CASE Tick
  BY <1>1 DEF Tick, tables, IInv, TypeOK, Requests, Prepared, DefaultProgramFollowsUnit
<1>2. ASSUME NEW a \in Activities, CreateAlert(a) PROVE IInv'
  BY <1>2 DEF CreateAlert, IInv, TypeOK, Requests, Prepared, DefaultProgramFollowsUnit
<1>3. ASSUME NEW w \in Workers, Rollback(w) PROVE IInv'
  <2>1. Tables' BY <1>3 DEF Rollback, tables, Tables, IInv, TypeOK
  <2>2. RowsPersist BY <1>3 DEF Rollback, tables, RowsPersist
  <2>3. DefaultProgramFollowsUnit'
    BY <1>3 DEF Rollback, tables, IInv, DefaultProgramFollowsUnit
  <2> QED BY <1>3, <2>1, <2>2, <2>3, LeaveKeeps DEF Rollback
<1>4. CASE UNCHANGED vars
  BY <1>4 DEF vars, IInv, TypeOK, Requests, Prepared, DefaultProgramFollowsUnit
<1> QED BY <1>1, <1>2, <1>3, <1>4

\* Every step of the backend preserves the invariant.
LEMMA NextKeeps == IInv /\ [Next]_vars => IInv'
<1> SUFFICES ASSUME IInv, [Next]_vars PROVE IInv'
  OBVIOUS
<1>1. ASSUME NEW w \in Workers, ActivityRequest(w) PROVE IInv'
  BY <1>1, ActivityBegins, BeginKeeps, CommitCreateActivityKeeps, CommitUpdateActivityKeeps,
     CommitCancelActivityKeeps, CommitDeleteActivityKeeps DEF ActivityRequest
<1>2. ASSUME NEW w \in Workers, ProgramRequest(w) PROVE IInv'
  BY <1>2, ProgramBegins, BeginKeeps, CommitCreateEventProgramKeeps,
     CommitUpdateEventProgramKeeps, CommitArchiveEventProgramKeeps,
     CommitReactivateEventProgramKeeps DEF ProgramRequest
<1>3. ASSUME NEW w \in Workers, UnitRequest(w) PROVE IInv'
  BY <1>3, UnitBegins, BeginKeeps, CommitCreateOrganizationalUnitKeeps,
     CommitDeactivateOrganizationalUnitKeeps, CommitReactivateOrganizationalUnitKeeps
  DEF UnitRequest
<1>4. ASSUME NEW w \in Workers, ClassroomRequest(w) PROVE IInv'
  BY <1>4, ClassroomBegins, BeginKeeps, CommitUpdateClassroomKeeps DEF ClassroomRequest
<1>5. CASE \/ Tick
           \/ \E a \in Activities : CreateAlert(a)
           \/ \E w \in Workers : Rollback(w)
           \/ UNCHANGED vars
  BY <1>5, OtherStepsKeep
<1> QED BY <1>1, <1>2, <1>3, <1>4, <1>5 DEF Next

\* The inductive invariant holds of every reachable state.
LEMMA IInvAlways == Spec => []IInv
BY Initially, NextKeeps, PTL DEF Spec

(* Every table, every transaction in flight and the clock keep their       *)
(* types, whatever the requests and their interleaving: no commit writes   *)
(* a row that was not there, or a field that was not given.                *)
THEOREM TypeCorrect == Spec => []TypeOK
<1>1. IInv => TypeOK BY DEF IInv
<1> QED BY <1>1, IInvAlways, PTL

(* A unit and its default program live and rest together                   *)
(* (organizational-units.service.ts, reactivate_default_event_program and  *)
(* the archive trigger), whatever the requests and their interleaving.     *)
THEOREM DefaultProgramFollowsUnitAlways == Spec => []DefaultProgramFollowsUnit
<1>1. IInv => DefaultProgramFollowsUnit BY DEF IInv
<1> QED BY <1>1, IInvAlways, PTL

-----------------------------------------------------------------------------
(***************************************************************************)
(* The calendar of the rooms.  No room is promised twice, in three parts:  *)
(* the backend implements the calendar; the calendar never holds two       *)
(* colliding slots; and an activity shown as scheduled or ongoing in a     *)
(* room holds the slot of its row, since no operation stores a status      *)
(* other than the three base ones.                                         *)
(***************************************************************************)

slots == [a \in Activities |-> slotOf(a)]

\* ONGOING and COMPLETED are derived on reading and never stored.
BaseStatuses ==
  \A a \in Activities :
    activity[a] # Null => activity[a].status \in {"DRAFT", "SCHEDULED", "CANCELLED"}

-----------------------------------------------------------------------------
(* The backend implements the calendar. *)

\* A step that leaves the activities alone leaves the calendar alone.
LEMMA SlotsStay ==
  ASSUME UNCHANGED activity
  PROVE  UNCHANGED slots
BY DEF slots, slotOf

\* A commit that writes activity a, giving it a row that holds no room.
LEMMA SlotReleased ==
  ASSUME TypeOK, NEW a \in Activities, NEW row,
         activity' = [activity EXCEPT ![a] = row],
         row = Null \/ row.status \notin RESERVING_STATUSES \/ row.classroom = Null
  PROVE  Calendar!Release(a)
<1>1. slotOf(a)' = Null BY DEF slotOf, TypeOK
<1>2. \A b \in Activities \ {a} : slotOf(b)' = slotOf(b) BY DEF slotOf, TypeOK
<1>3. slots' = [slots EXCEPT ![a] = Null] BY <1>1, <1>2 DEF slots
<1> QED BY <1>3 DEF Calendar!Release, slots

\* A commit that the exclusion constraint lets through.
LEMMA SlotReserved ==
  ASSUME TypeOK, NEW a \in Activities, NEW row \in ActivityRow,
         activity' = [activity EXCEPT ![a] = row],
         row.status \in RESERVING_STATUSES, row.classroom # Null,
         activities_time_range_check(row), activities_classroom_no_overlap(a, row)
  PROVE  \E s \in Calendar!Slots : Calendar!Reserve(a, s)
<1> DEFINE s == [room |-> row.classroom, date |-> row.date,
                 from |-> row.startTime, to |-> row.endTime]
<1>1. s \in Calendar!Slots BY DEF Calendar!Slots, ActivityRow
<1>2. s.from < s.to BY DEF activities_time_range_check
<1>3. Calendar!Free(a, s)
  <2> SUFFICES ASSUME NEW b \in Activities \ {a}, slotOf(b) # Null
               PROVE  ~Calendar!Collide(s, slotOf(b))
    BY DEF Calendar!Free
  <2>1. /\ activity[b] # Null
        /\ activity[b].status \in RESERVING_STATUSES
        /\ slotOf(b) = [room |-> activity[b].classroom, date |-> activity[b].date,
                        from |-> activity[b].startTime, to |-> activity[b].endTime]
    BY DEF slotOf
  <2>2. ~Overlapping(row, activity[b]) BY <2>1 DEF activities_classroom_no_overlap
  <2> QED BY <2>1, <2>2 DEF Overlapping, Calendar!Collide
<1>4. slotOf(a)' = s BY RowsAreNotNull DEF slotOf, TypeOK
<1>5. \A b \in Activities \ {a} : slotOf(b)' = slotOf(b) BY DEF slotOf, TypeOK
<1>6. slots' = [slots EXCEPT ![a] = s] BY <1>4, <1>5 DEF slots
<1>7. Calendar!Reserve(a, s)
  BY <1>2, <1>3, <1>6 DEF Calendar!Reserve, slots
<1> QED BY <1>1, <1>7

\* Each commit of an activity reserves a slot or gives it up.
LEMMA ActivityStepsCalendar ==
  ASSUME IInv, NEW w \in Workers, ActivityRequest(w)
  PROVE  Calendar!Next \/ UNCHANGED slots
<1>1. ASSUME NEW a \in Activities, CommitCreateActivity(w, a) PROVE Calendar!Next
  <2>1. tx[w].row.status = "DRAFT"
    BY <1>1, CommitsPrepared DEF CommitCreateActivity, Prepared
  <2>2. Calendar!Release(a)
    BY <1>1, <2>1, SlotReleased DEF CommitCreateActivity, RESERVING_STATUSES, IInv
  <2> QED BY <2>2 DEF Calendar!Next
<1>2. CASE CommitUpdateActivity(w)
  <2> DEFINE a   == tx[w].id
             row == WriteActivity(activity[a], tx[w].data)
  <2>1. a \in Activities /\ tx[w].data \in ActivityPatch
    BY <1>2, CommitsPrepared, TransactionShapes DEF CommitUpdateActivity
  <2>2. row \in ActivityRow
    BY <1>2, <2>1, WriteActivityType DEF CommitUpdateActivity, IInv, TypeOK
  <2>3. /\ activity' = [activity EXCEPT ![a] = row]
        /\ activities_time_range_check(row)
        /\ activities_classroom_no_overlap(a, row)
    BY <1>2 DEF CommitUpdateActivity
  <2> HIDE DEF row
  <2>4. CASE row.status \in RESERVING_STATUSES /\ row.classroom # Null
    BY <2>1, <2>2, <2>3, <2>4, SlotReserved DEF IInv, Calendar!Next
  <2>5. CASE ~(row.status \in RESERVING_STATUSES /\ row.classroom # Null)
    BY <2>1, <2>3, <2>5, SlotReleased DEF IInv, Calendar!Next
  <2> QED BY <2>4, <2>5
<1>3. CASE CommitCancelActivity(w)
  <2> DEFINE a   == tx[w].id
             row == [activity[a] EXCEPT !.status = "CANCELLED", !.cancelReason = tx[w].reason]
  <2>1. a \in Activities
    BY <1>3, CommitsPrepared, TransactionShapes DEF CommitCancelActivity
  <2>2. row.status = "CANCELLED"
    BY <1>3, <2>1 DEF CommitCancelActivity, IInv, TypeOK, ActivityRow
  <2>3. activity' = [activity EXCEPT ![a] = row] BY <1>3 DEF CommitCancelActivity
  <2> HIDE DEF row
  <2>4. Calendar!Release(a)
    BY <2>1, <2>2, <2>3, SlotReleased DEF RESERVING_STATUSES, IInv
  <2> QED BY <2>1, <2>4 DEF Calendar!Next
<1>4. CASE CommitDeleteActivity(w)
  <2>1. tx[w].id \in Activities
    BY <1>4, CommitsPrepared, TransactionShapes DEF CommitDeleteActivity
  <2>2. Calendar!Release(tx[w].id)
    BY <1>4, <2>1, SlotReleased DEF CommitDeleteActivity, IInv
  <2> QED BY <2>1, <2>2 DEF Calendar!Next
<1>5. CASE \/ \E input \in NewActivities : BeginCreateActivity(w, input)
           \/ \E a \in Activities, input \in ActivityPatches : BeginUpdateActivity(w, a, input)
           \/ \E a \in Activities, reason \in Reasons \cup {Null} :
                BeginCancelActivity(w, a, reason)
           \/ \E a \in Activities : BeginDeleteActivity(w, a)
  <2>1. UNCHANGED activity
    BY <1>5 DEF BeginCreateActivity, BeginUpdateActivity, BeginCancelActivity,
                BeginDeleteActivity, Begin, tables
  <2> QED BY <2>1, SlotsStay
<1> QED BY <1>1, <1>2, <1>3, <1>4, <1>5 DEF ActivityRequest

\* No other request writes an activity.
LEMMA OtherStepsLeaveActivities ==
  ASSUME NEW w \in Workers,
         ProgramRequest(w) \/ UnitRequest(w) \/ ClassroomRequest(w) \/ Rollback(w)
  PROVE  UNCHANGED activity
<1>1. CASE ProgramRequest(w)
  BY <1>1 DEF ProgramRequest, BeginCreateEventProgram, CommitCreateEventProgram,
              BeginUpdateEventProgram, CommitUpdateEventProgram, BeginArchiveEventProgram,
              CommitArchiveEventProgram, BeginReactivateEventProgram,
              CommitReactivateEventProgram, Begin, tables
<1>2. CASE UnitRequest(w)
  BY <1>2 DEF UnitRequest, BeginCreateOrganizationalUnit, CommitCreateOrganizationalUnit,
              BeginDeactivateOrganizationalUnit, CommitDeactivateOrganizationalUnit,
              BeginReactivateOrganizationalUnit, CommitReactivateOrganizationalUnit,
              Begin, tables
<1>3. CASE ClassroomRequest(w) \/ Rollback(w)
  BY <1>3 DEF ClassroomRequest, BeginUpdateClassroom, CommitUpdateClassroom, Rollback,
              Begin, tables
<1> QED BY <1>1, <1>2, <1>3

\* A step of the backend is a step of the calendar or leaves it as it is.
LEMMA StepsCalendar ==
  ASSUME IInv, [Next]_vars
  PROVE  Calendar!Next \/ UNCHANGED slots
<1>1. CASE \E w \in Workers : ActivityRequest(w)
  BY <1>1, ActivityStepsCalendar
<1>2. CASE \E w \in Workers : \/ ProgramRequest(w) \/ UnitRequest(w)
                              \/ ClassroomRequest(w) \/ Rollback(w)
  BY <1>2, OtherStepsLeaveActivities, SlotsStay
<1>3. CASE Tick \/ (\E a \in Activities : CreateAlert(a)) \/ UNCHANGED vars
  <2>1. UNCHANGED activity BY <1>3 DEF Tick, CreateAlert, tables, vars
  <2> QED BY <2>1, SlotsStay
<1> QED BY <1>1, <1>2, <1>3 DEF Next

(* Every commit of the backend, however the requests interleave, reserves  *)
(* a free slot, gives one up or leaves the calendar of the rooms alone     *)
(* (activities.service.ts over the exclusion constraint on activities).    *)
THEOREM BackendImplementsCalendar == Spec => ImplementsCalendar
<1>1. Init => Calendar!Init BY DEF Init, Calendar!Init, slotOf
<1>2. IInv /\ [Next]_vars => [Calendar!Next]_slots BY StepsCalendar
<1> QED BY <1>1, <1>2, IInvAlways, PTL DEF Spec, ImplementsCalendar, Calendar!Spec, slots

-----------------------------------------------------------------------------
(* The calendar keeps its promise. *)

\* Reserving and giving up preserve it.
LEMMA CalendarSteps ==
  ASSUME Calendar!NoCollision, Calendar!Next
  PROVE  Calendar!NoCollision'
<1> USE DEF Calendar!NoCollision
<1>1. ASSUME NEW h \in Activities, Calendar!Release(h) PROVE Calendar!NoCollision'
  BY <1>1 DEF Calendar!Release
<1>2. ASSUME NEW h \in Activities, NEW s \in Calendar!Slots, Calendar!Reserve(h, s)
      PROVE  Calendar!NoCollision'
  <2>1. \A b \in Activities \ {h} :
          slots'[b] # Null => ~Calendar!Collide(s, slots'[b]) /\ ~Calendar!Collide(slots'[b], s)
    BY <1>2 DEF Calendar!Reserve, Calendar!Free, Calendar!Collide, slots
  <2> QED BY <1>2, <2>1 DEF Calendar!Reserve, slots
<1> QED BY <1>1, <1>2 DEF Calendar!Next

(* In the calendar no two holders ever have slots of one room that         *)
(* overlap: what implementing it is worth.                                 *)
THEOREM CalendarNeverCollides == Calendar!Spec => []Calendar!NoCollision
<1>1. Calendar!Init => Calendar!NoCollision
  BY DEF Calendar!Init, Calendar!NoCollision
<1>2. Calendar!NoCollision /\ [Calendar!Next]_slots => Calendar!NoCollision'
  BY CalendarSteps DEF Calendar!NoCollision, slots
<1> QED BY <1>1, <1>2, PTL DEF Calendar!Spec, slots

-----------------------------------------------------------------------------
(* Only base statuses are stored. *)

\* A commit stores DRAFT, SCHEDULED or CANCELLED, or leaves the status.
LEMMA StoredStatuses ==
  ASSUME IInv, BaseStatuses, [Next]_vars
  PROVE  BaseStatuses'
<1>1. ASSUME NEW w \in Workers, NEW a \in Activities, CommitCreateActivity(w, a)
      PROVE  BaseStatuses'
  <2>1. tx[w].row.status = "DRAFT"
    BY <1>1, CommitsPrepared DEF CommitCreateActivity, Prepared
  <2> QED BY <1>1, <2>1 DEF CommitCreateActivity, BaseStatuses, IInv, TypeOK
<1>2. ASSUME NEW w \in Workers, CommitUpdateActivity(w) PROVE BaseStatuses'
  <2> DEFINE a   == tx[w].id
             row == WriteActivity(activity[a], tx[w].data)
  <2>1. a \in Activities /\ tx[w].data \in ActivityPatch
    BY <1>2, CommitsPrepared, TransactionShapes DEF CommitUpdateActivity
  <2>2. activity[a] # Null /\ activity[a] \in ActivityRow
    BY <1>2, <2>1 DEF CommitUpdateActivity, IInv, TypeOK
  <2>3. row.status = Given(tx[w].data.status, activity[a].status)
    BY <2>1, <2>2, WriteActivityType
  <2>4. row.status \in {"DRAFT", "SCHEDULED", "CANCELLED"}
    BY <2>1, <2>2, <2>3 DEF Given, ActivityPatch, BaseStatuses
  <2>5. activity' = [activity EXCEPT ![a] = row] BY <1>2 DEF CommitUpdateActivity
  <2> HIDE DEF row
  <2> QED BY <2>4, <2>5 DEF BaseStatuses, IInv, TypeOK
<1>3. ASSUME NEW w \in Workers, CommitCancelActivity(w) PROVE BaseStatuses'
  <2> DEFINE a   == tx[w].id
             row == [activity[a] EXCEPT !.status = "CANCELLED", !.cancelReason = tx[w].reason]
  <2>1. a \in Activities
    BY <1>3, CommitsPrepared, TransactionShapes DEF CommitCancelActivity
  <2>2. row.status = "CANCELLED"
    BY <1>3, <2>1 DEF CommitCancelActivity, IInv, TypeOK, ActivityRow
  <2>3. activity' = [activity EXCEPT ![a] = row] BY <1>3 DEF CommitCancelActivity
  <2> HIDE DEF row
  <2> QED BY <2>2, <2>3 DEF BaseStatuses, IInv, TypeOK
<1>4. ASSUME NEW w \in Workers, CommitDeleteActivity(w) PROVE BaseStatuses'
  BY <1>4 DEF CommitDeleteActivity, BaseStatuses, IInv, TypeOK
<1>5. CASE UNCHANGED activity BY <1>5 DEF BaseStatuses
<1>6. ASSUME NEW w \in Workers,
             \/ \E input \in NewActivities : BeginCreateActivity(w, input)
             \/ \E a \in Activities, input \in ActivityPatches :
                  BeginUpdateActivity(w, a, input)
             \/ \E a \in Activities, reason \in Reasons \cup {Null} :
                  BeginCancelActivity(w, a, reason)
             \/ \E a \in Activities : BeginDeleteActivity(w, a)
      PROVE  UNCHANGED activity
  BY <1>6 DEF BeginCreateActivity, BeginUpdateActivity, BeginCancelActivity,
              BeginDeleteActivity, Begin, tables
<1>7. CASE Tick \/ (\E a \in Activities : CreateAlert(a)) \/ UNCHANGED vars
  BY <1>5, <1>7 DEF Tick, CreateAlert, tables, vars
<1>8. ASSUME NEW w \in Workers, ActivityRequest(w) PROVE BaseStatuses'
  BY <1>1, <1>2, <1>3, <1>4, <1>5, <1>6, <1>8 DEF ActivityRequest
<1> QED BY <1>5, <1>7, <1>8, OtherStepsLeaveActivities DEF Next

\* ONGOING and COMPLETED are never stored.
LEMMA BaseStatusesAlways == Spec => []BaseStatuses
<1>1. Init => BaseStatuses BY DEF Init, BaseStatuses
<1> QED BY <1>1, StoredStatuses, IInvAlways, PTL DEF Spec

\* Rows that differ in date, or whose times do not overlap, are disjoint
\* stretches of instants.
LEMMA SlotsInTime ==
  ASSUME NEW ra \in ActivityRow, NEW rb \in ActivityRow,
         \/ ra.date # rb.date
         \/ ra.endTime <= rb.startTime
         \/ rb.endTime <= ra.startTime
  PROVE  \/ toInstitutionalInstant(ra.date, ra.endTime)
              <= toInstitutionalInstant(rb.date, rb.startTime)
         \/ toInstitutionalInstant(rb.date, rb.endTime)
              <= toInstitutionalInstant(ra.date, ra.startTime)
<1>1. /\ ra.date \in Int /\ rb.date \in Int
      /\ ra.startTime \in 0 .. (DayLength - 1) /\ ra.endTime \in 0 .. (DayLength - 1)
      /\ rb.startTime \in 0 .. (DayLength - 1) /\ rb.endTime \in 0 .. (DayLength - 1)
  BY RowNumbers
<1>2. DayLength \in Nat /\ ZoneOffset \in Int BY TimeAssumption
<1>3. ra.date * DayLength \in Int /\ rb.date * DayLength \in Int BY RowNumbers
<1>4. CASE ra.date < rb.date
  <2>1. ra.date * DayLength + DayLength <= rb.date * DayLength
    BY <1>1, <1>2, <1>4, DaysApart
  <2> QED BY <1>1, <1>2, <1>3, <2>1 DEF toInstitutionalInstant, DayStart
<1>5. CASE rb.date < ra.date
  <2>1. rb.date * DayLength + DayLength <= ra.date * DayLength
    BY <1>1, <1>2, <1>5, DaysApart
  <2> QED BY <1>1, <1>2, <1>3, <2>1 DEF toInstitutionalInstant, DayStart
<1>6. CASE ra.date = rb.date
  BY <1>1, <1>2, <1>3, <1>6 DEF toInstitutionalInstant, DayStart
<1> QED BY <1>1, <1>4, <1>5, <1>6

\* Slots of one room that do not collide are stretches of time that do not.
LEMMA FreeRoomsAreFree ==
  ASSUME TypeOK, BaseStatuses, Calendar!NoCollision
  PROVE  NoDoubleBooking
<1> SUFFICES ASSUME NEW a \in Activities, NEW b \in Activities, a # b,
                    Exists(a), Effective(a) \in {"SCHEDULED", "ONGOING"},
                    Exists(b), Effective(b) \in {"SCHEDULED", "ONGOING"},
                    activity[a].classroom # Null,
                    activity[a].classroom = activity[b].classroom
             PROVE  \/ toInstitutionalInstant(activity[a].date, activity[a].endTime)
                         <= toInstitutionalInstant(activity[b].date, activity[b].startTime)
                    \/ toInstitutionalInstant(activity[b].date, activity[b].endTime)
                         <= toInstitutionalInstant(activity[a].date, activity[a].startTime)
  BY DEF NoDoubleBooking
<1> DEFINE ra == activity[a]
           rb == activity[b]
<1>1. ra \in ActivityRow /\ rb \in ActivityRow BY DEF Exists, TypeOK
<1>2. ra.status = "SCHEDULED" /\ rb.status = "SCHEDULED"
  BY <1>1 DEF Exists, Effective, resolveActivityStatus, BaseStatuses
<1>3. /\ slotOf(a) = [room |-> ra.classroom, date |-> ra.date,
                      from |-> ra.startTime, to |-> ra.endTime]
      /\ slotOf(b) = [room |-> rb.classroom, date |-> rb.date,
                      from |-> rb.startTime, to |-> rb.endTime]
  BY <1>2 DEF slotOf, Exists, RESERVING_STATUSES
<1>4. slotOf(a) # Null /\ slotOf(b) # Null
  BY <1>1, <1>3, SlotAssumption DEF Calendar!Slots, ActivityRow
<1>5. ~Calendar!Collide(slotOf(a), slotOf(b))
  BY <1>4 DEF Calendar!NoCollision
<1>6. ra.date # rb.date \/ ra.endTime <= rb.startTime \/ rb.endTime <= ra.startTime
  <2>1. /\ ra.startTime \in Int /\ ra.endTime \in Int
        /\ rb.startTime \in Int /\ rb.endTime \in Int
    BY <1>1, RowNumbers
  <2> QED BY <1>3, <1>5, <2>1 DEF Calendar!Collide
<1> QED BY <1>1, <1>6, SlotsInTime

(* No room is promised twice (assertActivityScheduleIsAvailable and the    *)
(* exclusion constraint on activities), whatever the requests and their    *)
(* interleaving.                                                           *)
THEOREM NoDoubleBookingAlways == Spec => []NoDoubleBooking
<1>1. IInv /\ BaseStatuses /\ Calendar!NoCollision => NoDoubleBooking
  BY FreeRoomsAreFree DEF IInv
<1> QED
  BY <1>1, IInvAlways, BaseStatusesAlways, BackendImplementsCalendar,
     CalendarNeverCollides, PTL DEF ImplementsCalendar

-----------------------------------------------------------------------------
(***************************************************************************)
(* The public listings.  A page shows rows that were inserted one by one,  *)
(* so they can be counted; their program exists, since programs are never  *)
(* deleted; and they end after they start, so that the filters by status   *)
(* cut time where resolveActivityStatus does.                              *)
(***************************************************************************)

VInv ==
  /\ \A a \in Activities : Exists(a) =>
       /\ program[activity[a].eventProgram] # Null
       /\ activity[a].startTime < activity[a].endTime
  /\ IsFiniteSet({a \in Activities : Exists(a)})

\* No request deletes a program.
LEMMA ProgramsPersist ==
  ASSUME IInv, [Next]_vars
  PROVE  \A p \in Programs : program[p] # Null => program'[p] # Null
<1> DEFINE Persist == \A p \in Programs : program[p] # Null => program'[p] # Null
<1>1. ASSUME NEW p \in Programs, NEW new \in ProgramRow, program' = [program EXCEPT ![p] = new]
      PROVE  Persist
  BY <1>1, RowsAreNotNull DEF IInv, TypeOK
<1>2. ASSUME NEW w \in Workers, ProgramRequest(w) PROVE Persist
  <2>1. ASSUME NEW p \in Programs, CommitCreateEventProgram(w, p) PROVE Persist
    <3> DEFINE new == [status |-> "DRAFT", startDate |-> tx[w].startDate,
                       endDate |-> tx[w].endDate, archived |-> FALSE]
    <3>1. new \in ProgramRow
      BY <2>1, CommitsPrepared, TransactionShapes
      DEF CommitCreateEventProgram, ProgramRow, ProgramStatuses
    <3>2. program' = [program EXCEPT ![p] = new]
      BY <2>1 DEF CommitCreateEventProgram, UpdatesProgram
    <3> HIDE DEF new, Persist
    <3> QED BY <1>1, <3>1, <3>2
  <2>2. ASSUME CommitUpdateEventProgram(w) \/ CommitArchiveEventProgram(w)
                 \/ CommitReactivateEventProgram(w)
        PROVE  Persist
    <3>1. PICK p : p = tx[w].id OBVIOUS
    <3>2. p \in Programs /\ program[p] \in ProgramRow
      BY <2>2, <3>1, CommitsPrepared, TransactionShapes
      DEF CommitUpdateEventProgram, CommitArchiveEventProgram, CommitReactivateEventProgram,
          Prepared, IInv, TypeOK
    <3>3. CASE CommitUpdateEventProgram(w)
      <4>1. WriteProgram(program[p], tx[w].data) \in ProgramRow
        BY <3>2, <3>3, CommitsPrepared, TransactionShapes, WriteProgramType
        DEF CommitUpdateEventProgram
      <4>2. program' = [program EXCEPT ![p] = WriteProgram(program[p], tx[w].data)]
        BY <3>1, <3>3 DEF CommitUpdateEventProgram, UpdatesProgram
      <4> HIDE DEF Persist
      <4> QED BY <1>1, <3>2, <4>1, <4>2
    <3>4. CASE CommitArchiveEventProgram(w) \/ CommitReactivateEventProgram(w)
      <4>1. PICK new : /\ program' = [program EXCEPT ![p] = new]
                       /\ \/ new = [program[p] EXCEPT !.status = "ARCHIVED", !.archived = TRUE]
                          \/ new = [program[p] EXCEPT !.status = "ACTIVE", !.archived = FALSE]
        BY <3>1, <3>4
        DEF CommitArchiveEventProgram, CommitReactivateEventProgram, UpdatesProgram
      <4>2. new \in ProgramRow BY <3>2, <4>1 DEF ProgramRow, ProgramStatuses
      <4> HIDE DEF Persist
      <4> QED BY <1>1, <3>2, <4>1, <4>2
    <3> QED BY <2>2, <3>3, <3>4
  <2>3. CASE UNCHANGED program BY <2>3
  <2> HIDE DEF Persist
  <2> QED
    BY <1>2, <2>1, <2>2, <2>3
    DEF ProgramRequest, BeginCreateEventProgram, BeginUpdateEventProgram,
        BeginArchiveEventProgram, BeginReactivateEventProgram, Begin, tables
<1>3. ASSUME NEW w \in Workers, UnitRequest(w) PROVE Persist
  <2>1. CASE CommitCreateOrganizationalUnit(w)
    <3>1. DefaultProgram[tx[w].id] \in Programs
      BY <2>1, CommitsPrepared, TransactionShapes, DefaultPrograms
      DEF CommitCreateOrganizationalUnit
    <3>2. DefaultProgramRow("ACTIVE", FALSE) \in ProgramRow
      BY DEF DefaultProgramRow, ProgramRow, ProgramStatuses
    <3> HIDE DEF Persist
    <3> QED BY <1>1, <2>1, <3>1, <3>2 DEF CommitCreateOrganizationalUnit
  <2>2. CASE CommitDeactivateOrganizationalUnit(w) \/ CommitReactivateOrganizationalUnit(w)
    <3>1. PICK u : u = tx[w].id OBVIOUS
    <3>2. /\ u \in Units /\ unit[u] # "NONE"
          /\ DefaultProgram[u] \in Programs /\ program[DefaultProgram[u]] \in ProgramRow
      <4>1. u \in Units /\ unit[u] # "NONE"
        BY <2>2, <3>1, CommitsPrepared, TransactionShapes
        DEF CommitDeactivateOrganizationalUnit, CommitReactivateOrganizationalUnit, Prepared
      <4> QED BY <4>1, DefaultPrograms, UnitsHavePrograms
    <3>3. PICK new \in ProgramRow :
            program' = [program EXCEPT ![DefaultProgram[u]] = new] \/ program' = program
      <4>1. CASE CommitDeactivateOrganizationalUnit(w)
        <5> DEFINE new == [program[DefaultProgram[u]] EXCEPT !.status = "ARCHIVED",
                                                             !.archived = TRUE]
        <5>1. new \in ProgramRow BY <3>2 DEF ProgramRow, ProgramStatuses
        <5>2. program' = [program EXCEPT ![DefaultProgram[u]] = new]
          BY <3>1, <4>1 DEF CommitDeactivateOrganizationalUnit
        <5> HIDE DEF new
        <5> QED BY <5>1, <5>2
      <4>2. CASE CommitReactivateOrganizationalUnit(w)
        <5> DEFINE new == [program[DefaultProgram[u]] EXCEPT !.status = "ACTIVE",
                                                             !.archived = FALSE]
        <5>1. new \in ProgramRow BY <3>2 DEF ProgramRow, ProgramStatuses
        <5>2. \/ program' = program
              \/ program' = [program EXCEPT ![DefaultProgram[u]].status = "ACTIVE",
                                            ![DefaultProgram[u]].archived = FALSE]
          BY <3>1, <4>2
          DEF CommitReactivateOrganizationalUnit, reactivate_default_event_program
        <5>3. program' = program \/ program' = [program EXCEPT ![DefaultProgram[u]] = new]
          BY <3>2, <5>2 DEF IInv, TypeOK, ProgramRow
        <5> HIDE DEF new
        <5> QED BY <5>1, <5>3
      <4> QED BY <2>2, <4>1, <4>2
    <3>4. CASE program' = program BY <3>4
    <3> HIDE DEF Persist
    <3> QED BY <1>1, <3>2, <3>3, <3>4
  <2>3. CASE UNCHANGED program BY <2>3
  <2> HIDE DEF Persist
  <2> QED
    BY <1>3, <2>1, <2>2, <2>3
    DEF UnitRequest, BeginCreateOrganizationalUnit, BeginDeactivateOrganizationalUnit,
        BeginReactivateOrganizationalUnit, Begin, tables
<1>4. ASSUME NEW w \in Workers, ActivityRequest(w) \/ ClassroomRequest(w) \/ Rollback(w)
      PROVE  UNCHANGED program
  BY <1>4
  DEF ActivityRequest, ClassroomRequest, Rollback, BeginCreateActivity, CommitCreateActivity,
      BeginUpdateActivity, CommitUpdateActivity, BeginCancelActivity, CommitCancelActivity,
      BeginDeleteActivity, CommitDeleteActivity, BeginUpdateClassroom, CommitUpdateClassroom,
      Begin, tables
<1>5. CASE UNCHANGED program BY <1>5
<1>6. CASE Tick \/ (\E a \in Activities : CreateAlert(a)) \/ UNCHANGED vars
  BY <1>6 DEF Tick, CreateAlert, tables, vars
<1> HIDE DEF Persist
<1>7. Persist BY <1>2, <1>3, <1>4, <1>5, <1>6 DEF Next, Persist
<1> QED BY <1>7 DEF Persist

\* A commit that writes activity a.
LEMMA ActivityWriteShown ==
  ASSUME IInv, VInv, \A p \in Programs : program[p] # Null => program'[p] # Null,
         NEW a \in Activities, NEW new, activity' = [activity EXCEPT ![a] = new],
         new # Null => /\ new.eventProgram \in Programs
                       /\ program'[new.eventProgram] # Null
                       /\ new.startTime < new.endTime
  PROVE  VInv'
<1>1. /\ activity'[a] = new
      /\ \A b \in Activities : b # a => activity'[b] = activity[b]
      /\ \A b \in Activities : activity[b] # Null => activity[b].eventProgram \in Programs
  BY DEF IInv, TypeOK, ActivityRow
<1>2. \A b \in Activities : activity'[b] # Null =>
        /\ program'[activity'[b].eventProgram] # Null
        /\ activity'[b].startTime < activity'[b].endTime
  BY <1>1 DEF VInv, Exists
<1>3. IsFiniteSet({b \in Activities : Exists(b)}')
  <2> DEFINE S == {b \in Activities : activity[b] # Null}
             T == {b \in Activities : activity'[b] # Null}
  <2>1. IsFiniteSet(S) BY DEF VInv, Exists
  <2>2. T \subseteq S \cup {a} BY <1>1
  <2> HIDE DEF S, T
  <2>3. IsFiniteSet(S \cup {a}) BY <2>1, FS_AddElement
  <2>4. IsFiniteSet(T) BY <2>2, <2>3, FS_Subset
  <2> QED BY <2>4 DEF T, Exists
<1> QED BY <1>2, <1>3 DEF VInv, Exists

\* A new activity was checked against its program; an update is checked by the
\* constraint on its times, and neither it nor a cancellation changes program.
LEMMA CommitsShown ==
  ASSUME IInv, VInv, \A p \in Programs : program[p] # Null => program'[p] # Null,
         NEW w \in Workers,
         \/ \E a \in Activities : CommitCreateActivity(w, a)
         \/ CommitUpdateActivity(w) \/ CommitCancelActivity(w) \/ CommitDeleteActivity(w)
  PROVE  VInv'
<1>1. ASSUME NEW a \in Activities, CommitCreateActivity(w, a) PROVE VInv'
  <2>1. PICK new : /\ new = tx[w].row /\ new \in ActivityRow
                   /\ program[new.eventProgram] # Null
    BY <1>1, CommitsPrepared, TransactionShapes DEF CommitCreateActivity, Prepared
  <2>2. new.eventProgram \in Programs BY <2>1 DEF ActivityRow
  <2>3. /\ activity' = [activity EXCEPT ![a] = new] /\ new.startTime < new.endTime
        /\ UNCHANGED program
    BY <1>1, <2>1 DEF CommitCreateActivity, activities_time_range_check
  <2> QED BY <2>1, <2>2, <2>3, ActivityWriteShown
<1>2. CASE CommitUpdateActivity(w)
  <2>1. PICK a : a = tx[w].id OBVIOUS
  <2>2. PICK new : new = WriteActivity(activity[a], tx[w].data) OBVIOUS
  <2>3. a \in Activities /\ tx[w].data \in ActivityPatch
    BY <1>2, <2>1, CommitsPrepared, TransactionShapes DEF CommitUpdateActivity
  <2>4. activity[a] # Null /\ activity[a] \in ActivityRow
    BY <1>2, <2>1, <2>3 DEF CommitUpdateActivity, IInv, TypeOK
  <2>5. /\ activity' = [activity EXCEPT ![a] = new] /\ new.startTime < new.endTime
        /\ UNCHANGED program
    BY <1>2, <2>1, <2>2 DEF CommitUpdateActivity, activities_time_range_check
  <2>6. /\ new.eventProgram = activity[a].eventProgram
        /\ new.eventProgram \in Programs /\ program[new.eventProgram] # Null
    BY <2>2, <2>3, <2>4, WriteActivityType DEF VInv, Exists, ActivityRow
  <2> QED BY <2>3, <2>5, <2>6, ActivityWriteShown
<1>3. CASE CommitCancelActivity(w)
  <2>1. PICK a : a = tx[w].id OBVIOUS
  <2>2. PICK new : new = [activity[a] EXCEPT !.status = "CANCELLED",
                                             !.cancelReason = tx[w].reason]
    OBVIOUS
  <2>3. a \in Activities
    BY <1>3, <2>1, CommitsPrepared, TransactionShapes DEF CommitCancelActivity
  <2>4. activity[a] # Null /\ activity[a] \in ActivityRow
    BY <1>3, <2>1, <2>3 DEF CommitCancelActivity, IInv, TypeOK
  <2>5. activity' = [activity EXCEPT ![a] = new] /\ UNCHANGED program
    BY <1>3, <2>1, <2>2 DEF CommitCancelActivity
  <2>6. /\ new.eventProgram = activity[a].eventProgram
        /\ new.startTime = activity[a].startTime /\ new.endTime = activity[a].endTime
    BY <2>2, <2>4 DEF ActivityRow
  <2>7. /\ new.eventProgram \in Programs /\ program[new.eventProgram] # Null
        /\ new.startTime < new.endTime
    BY <2>3, <2>4, <2>6 DEF VInv, Exists, ActivityRow
  <2> QED BY <2>3, <2>5, <2>7, ActivityWriteShown
<1>4. CASE CommitDeleteActivity(w)
  <2>1. tx[w].id \in Activities
    BY <1>4, CommitsPrepared, TransactionShapes DEF CommitDeleteActivity
  <2> QED BY <1>4, <2>1, ActivityWriteShown DEF CommitDeleteActivity
<1> QED BY <1>1, <1>2, <1>3, <1>4

\* Every step keeps what the listings rest on.
LEMMA StepsShown ==
  ASSUME IInv, VInv, [Next]_vars
  PROVE  VInv'
<1>1. \A p \in Programs : program[p] # Null => program'[p] # Null BY ProgramsPersist
<1>2. ASSUME UNCHANGED activity PROVE VInv'
  <2>1. \A a \in Activities : activity[a] # Null => activity[a].eventProgram \in Programs
    BY DEF IInv, TypeOK, ActivityRow
  <2> QED BY <1>1, <1>2, <2>1 DEF VInv, Exists
<1>3. ASSUME NEW w \in Workers, ActivityRequest(w) PROVE VInv'
  <2>1. CASE UNCHANGED activity BY <1>2, <2>1
  <2> QED
    BY <1>1, <1>3, <2>1, CommitsShown
    DEF ActivityRequest, BeginCreateActivity, BeginUpdateActivity, BeginCancelActivity,
        BeginDeleteActivity, Begin, tables
<1>4. CASE Tick \/ (\E a \in Activities : CreateAlert(a)) \/ UNCHANGED vars
  BY <1>2, <1>4 DEF Tick, CreateAlert, tables, vars
<1> QED BY <1>2, <1>3, <1>4, OtherStepsLeaveActivities DEF Next

\* What the listings rest on holds of every reachable state.
LEMMA VInvAlways == Spec => []VInv
<1>1. Init => VInv
  <2>1. Init => {a \in Activities : Exists(a)} = {} BY DEF Init, Exists
  <2> QED BY <2>1, FS_EmptySet DEF Init, VInv, Exists
<1> QED BY <1>1, StepsShown, IInvAlways, PTL DEF Spec

\* A row that exists, as the listings and the lemmas on the cut see it.
LEMMA RowShown ==
  ASSUME IInv, VInv, NEW a \in Activities, Exists(a)
  PROVE  /\ StoredRow(activity[a]) /\ now \in Int
         /\ activity[a].date \in Int /\ activity[a].date \in Dates
         /\ activity[a].eventProgram \in Programs
         /\ program[activity[a].eventProgram] # Null
<1>1. activity[a] \in ActivityRow BY DEF Exists, IInv, TypeOK
<1> QED
  BY <1>1, RowNumbers DEF VInv, StoredRow, TimesOfDay, ActivityRow, IInv, TypeOK

\* The published activities of program p.
PublishedIn(p) ==
  {a \in activitiesOf(p) : activity[a].status \in PUBLISHED_ACTIVITY_STATUSES}

\* A reader is shown what is published.
LEMMA ReadersSeePublished ==
  ASSUME NEW row
  PROVE  StatusFilter(Undefined, row) <=> row.status \in PUBLISHED_ACTIVITY_STATUSES
BY QueryAssumption DEF StatusFilter

\* The listing of a program, for a reader.
LEMMA ReadersProgramListing ==
  ASSUME NEW p
  PROVE  listEventProgramActivities(p, NoFilter, FALSE) = PublishedIn(p)
BY ReadersSeePublished DEF listEventProgramActivities, NoFilter, InRange, PublishedIn

\* The global listing filtered by a program, for a reader.
LEMMA ReadersGlobalListing ==
  ASSUME NEW p \in Programs, NEW query, query.eventProgram = p,
         query.organizationalUnit = Undefined
  PROVE  listActivities(query, FALSE) =
           {a \in PublishedIn(p) : /\ program[p].status = "ACTIVE"
                                   /\ Timeframe(query.when, activity[a].date)
                                   /\ InRange(activity[a].date, query)}
<1>1. p # Undefined BY QueryAssumption
<1> QED
  BY <1>1, ReadersSeePublished DEF listActivities, PublishedIn, activitiesOf, Exists

\* A filter by status selects by the status shown.
LEMMA StatusFilterShows ==
  ASSUME IInv, VInv, NEW a \in Activities, Exists(a), NEW s \in ActivityStatuses
  PROVE  StatusFilter(s, activity[a]) <=> Effective(a) = s
<1>1. s # Undefined /\ s # "ALL" BY NullAssumption DEF ActivityStatuses
<1>2. buildEffectiveStatusWhere(s, activity[a], now) <=> Effective(a) = s
  BY RowShown, FilterAgrees DEF Effective
<1> QED BY <1>1, <1>2 DEF StatusFilter

\* The activities of program p shown under status s.
ShownAs(p, s) == {a \in activitiesOf(p) : Effective(a) = s}

\* Both listings of an active program, for an administrator.
LEMMA AdministratorsListings ==
  ASSUME IInv, VInv, NEW p \in Programs, program[p].status = "ACTIVE",
         NEW s \in ActivityStatuses, NEW query,
         query = [NoFilter EXCEPT !.status = s, !.eventProgram = p]
  PROVE  /\ listActivities(query, TRUE) = ShownAs(p, s)
         /\ listEventProgramActivities(p, query, TRUE) = ShownAs(p, s)
<1>1. /\ p # Undefined /\ s # Undefined /\ "all" # Undefined
  BY QueryAssumption, NullAssumption
<1>2. /\ query.status = s /\ query.eventProgram = p /\ query.when = "all"
      /\ query.organizationalUnit = Undefined
      /\ query.dateFrom = Undefined /\ query.dateTo = Undefined
  BY DEF NoFilter
<1>3. listActivities(query, TRUE) = ShownAs(p, s)
  BY <1>1, <1>2, StatusFilterShows
  DEF listActivities, ShownAs, activitiesOf, Exists, Timeframe, InRange, Given
<1>4. listEventProgramActivities(p, query, TRUE) = ShownAs(p, s)
  BY <1>1, <1>2, StatusFilterShows
  DEF listEventProgramActivities, ShownAs, activitiesOf, Exists, InRange, Given
<1> QED BY <1>3, <1>4

\* A published activity is shown under one of three statuses.
LEMMA PublishedIsShown ==
  ASSUME IInv, VInv, NEW p
  PROVE  PublishedIn(p) = ShownAs(p, "SCHEDULED") \cup ShownAs(p, "ONGOING")
                            \cup ShownAs(p, "COMPLETED")
<1>1. \A a \in activitiesOf(p) : activity[a].status \in ActivityStatuses
  BY DEF activitiesOf, IInv, TypeOK, ActivityRow
<1> QED
  BY <1>1
  DEF PublishedIn, ShownAs, Effective, resolveActivityStatus, ActivityStatuses,
      PUBLISHED_ACTIVITY_STATUSES

\* So the number on the card of a program counts them all, each once.
LEMMA CardCounts ==
  ASSUME IInv, VInv, NEW p
  PROVE  visible(p) = Cardinality(PublishedIn(p))
<1> DEFINE S == ShownAs(p, "SCHEDULED")
           O == ShownAs(p, "ONGOING")
           C == ShownAs(p, "COMPLETED")
<1>1. IsFiniteSet(activitiesOf(p))
  <2>1. activitiesOf(p) \subseteq {a \in Activities : Exists(a)} BY DEF activitiesOf, Exists
  <2>2. IsFiniteSet({a \in Activities : Exists(a)}) BY DEF VInv
  <2> QED BY <2>1, <2>2, FS_Subset
<1>2. S \subseteq activitiesOf(p) /\ O \subseteq activitiesOf(p) /\ C \subseteq activitiesOf(p)
  BY DEF ShownAs
<1>3. IsFiniteSet(S) /\ IsFiniteSet(O) /\ IsFiniteSet(C) BY <1>1, <1>2, FS_Subset
<1>4. S \cap O = {} /\ (S \cup O) \cap C = {} BY DEF ShownAs
<1>5. visible(p) = Cardinality(S) + Cardinality(O) + Cardinality(C)
  BY DEF visible, byStatus, ShownAs, ActivityStatuses
<1>6. PublishedIn(p) = (S \cup O) \cup C BY PublishedIsShown
<1> HIDE DEF S, O, C
<1>7. /\ IsFiniteSet(S \cup O)
      /\ Cardinality(S \cup O) = Cardinality(S) + Cardinality(O) - Cardinality({})
  BY <1>3, <1>4, FS_Union
<1>8. Cardinality((S \cup O) \cup C)
        = Cardinality(S \cup O) + Cardinality(C) - Cardinality({})
  BY <1>3, <1>4, <1>7, FS_Union
<1>9. Cardinality({}) = 0 BY FS_EmptySet
<1>10. Cardinality(S) \in Nat /\ Cardinality(O) \in Nat /\ Cardinality(C) \in Nat
  BY <1>3, FS_CardinalityType
<1> QED BY <1>5, <1>6, <1>7, <1>8, <1>9, <1>10

\* What is found, and what is hidden, whoever asks.
LEMMA ProgramPages ==
  ASSUME IInv, VInv, NEW p \in Programs
  PROVE  /\ getEventProgramById(p) <=> p \in listEventPrograms(Undefined, FALSE)
         /\ getEventProgramById(p) <=> FindsProgram(p, FALSE)
         /\ getEventProgramById(p) =>
              \A a \in PublishedIn(p) : getActivityById(a, FALSE)
         /\ ~getEventProgramById(p) =>
              \A a \in activitiesOf(p) : program[p].status # "ACTIVE" /\ ~getActivityById(a, FALSE)
<1>1. \A a \in activitiesOf(p) : program[p] # Null BY RowShown DEF activitiesOf, Exists
<1>2. \A a \in PublishedIn(p) : activity[a].status # "DRAFT"
  BY DEF PublishedIn, PUBLISHED_ACTIVITY_STATUSES
<1> QED
  BY <1>1, <1>2
  DEF getEventProgramById, listEventPrograms, FindsProgram, getActivityById, Given,
      activitiesOf, Exists, PublishedIn

\* The pages of a program agree.
LEMMA ProgramPagesAgree ==
  ASSUME IInv, VInv
  PROVE  ProgramViewsAgree
<1> SUFFICES ASSUME NEW p \in Programs
             PROVE  LET of(when) == listActivities([NoFilter EXCEPT !.when = when,
                                                                    !.eventProgram = p], FALSE)
                        listed   == listEventProgramActivities(p, NoFilter, FALSE)
                        with(s)  == [NoFilter EXCEPT !.status = s, !.eventProgram = p]
                    IN  /\ getEventProgramById(p) <=> p \in listEventPrograms(Undefined, FALSE)
                        /\ getEventProgramById(p) <=> FindsProgram(p, FALSE)
                        /\ getEventProgramById(p) =>
                             /\ of("all") = listed
                             /\ of(Undefined) \cup of("past") = listed
                             /\ of(Undefined) \cap of("past") = {}
                             /\ visible(p) = Cardinality(listed)
                             /\ \A a \in listed : getActivityById(a, FALSE)
                             /\ \A s \in ActivityStatuses :
                                  /\ byStatus(p)[s] = Cardinality(listActivities(with(s), TRUE))
                                  /\ listActivities(with(s), TRUE)
                                       = listEventProgramActivities(p, with(s), TRUE)
                             /\ \A d \in Dates :
                                  listActivities([with(Undefined) EXCEPT !.dateFrom = d,
                                                                         !.dateTo = d], FALSE)
                                    = {a \in listed : activity[a].date = d}
                        /\ ~getEventProgramById(p) =>
                             /\ of("all") = {}
                             /\ \A a \in activitiesOf(p) : ~getActivityById(a, FALSE)
  BY DEF ProgramViewsAgree
<1> DEFINE of(when) == listActivities([NoFilter EXCEPT !.when = when, !.eventProgram = p], FALSE)
           with(s)  == [NoFilter EXCEPT !.status = s, !.eventProgram = p]
           on(d)    == [with(Undefined) EXCEPT !.dateFrom = d, !.dateTo = d]
           listed   == listEventProgramActivities(p, NoFilter, FALSE)
           active   == program[p].status = "ACTIVE"
<1>1. "all" # Undefined /\ "past" # Undefined BY QueryAssumption
<1>2. listed = PublishedIn(p) BY ReadersProgramListing
<1>3. \A a \in listed : activity[a].date \in Int
  BY <1>2, RowShown DEF PublishedIn, activitiesOf, Exists
<1>4. ASSUME NEW when
      PROVE  of(when) = {a \in listed : active /\ Timeframe(when, activity[a].date)}
  <2> DEFINE query == [NoFilter EXCEPT !.when = when, !.eventProgram = p]
  <2>1. /\ query.eventProgram = p /\ query.organizationalUnit = Undefined
        /\ query.when = when /\ query.dateFrom = Undefined /\ query.dateTo = Undefined
    BY DEF NoFilter
  <2> HIDE DEF query, listed
  <2>2. \A date : InRange(date, query) BY <2>1 DEF InRange
  <2>3. listActivities(query, FALSE)
          = {a \in PublishedIn(p) : /\ program[p].status = "ACTIVE"
                                    /\ Timeframe(query.when, activity[a].date)
                                    /\ InRange(activity[a].date, query)}
    BY <2>1, ReadersGlobalListing
  <2>4. listActivities(query, FALSE)
          = {a \in listed : active /\ Timeframe(when, activity[a].date)}
    <3>1. \A date : Timeframe(query.when, date) <=> Timeframe(when, date)
      BY <2>1 DEF Timeframe
    <3> QED BY <1>2, <2>2, <2>3, <3>1
  <2> QED BY <2>4 DEF query
<1>5. ASSUME NEW d \in Dates, active
      PROVE  listActivities(on(d), FALSE) = {a \in listed : activity[a].date = d}
  <2> DEFINE query == on(d)
  <2>1. /\ query.eventProgram = p /\ query.organizationalUnit = Undefined
        /\ query.when = "all" /\ query.dateFrom = d /\ query.dateTo = d
    BY DEF NoFilter
  <2>2. d # Undefined /\ d \in Int BY NullAssumption, SchemaAssumption
  <2> HIDE DEF query, listed
  <2>3. \A a \in listed : InRange(activity[a].date, query) <=> activity[a].date = d
    BY <1>3, <2>1, <2>2 DEF InRange
  <2>4. \A a \in listed : Timeframe(query.when, activity[a].date)
    BY <1>1, <2>1 DEF Timeframe, Given
  <2>5. listActivities(query, FALSE)
          = {a \in listed : /\ active
                            /\ Timeframe(query.when, activity[a].date)
                            /\ InRange(activity[a].date, query)}
    BY <1>2, <2>1, ReadersGlobalListing
  <2>6. listActivities(query, FALSE) = {a \in listed : activity[a].date = d}
    BY <1>5, <2>3, <2>4, <2>5
  <2> QED BY <2>6 DEF query
<1>6. ASSUME active
      PROVE  /\ of("all") = listed
             /\ of(Undefined) \cup of("past") = listed
             /\ of(Undefined) \cap of("past") = {}
  <2>1. PICK today : today = startOfInstitutionalDay(now) OBVIOUS
  <2>2. today \in Int BY <2>1, ClockReading DEF IInv, TypeOK
  <2> HIDE DEF of, listed
  <2>3. of("all") = listed
    <3>1. \A date : Timeframe("all", date) BY <1>1 DEF Timeframe, Given
    <3>2. of("all") = {a \in listed : active /\ Timeframe("all", activity[a].date)} BY <1>4
    <3> QED BY <1>6, <3>1, <3>2
  <2>4. of(Undefined) = {a \in listed : activity[a].date >= today}
    <3>1. \A date : Timeframe(Undefined, date) <=> date >= today
      BY <1>1, <2>1 DEF Timeframe, Given
    <3>2. of(Undefined) = {a \in listed : active /\ Timeframe(Undefined, activity[a].date)}
      BY <1>4
    <3> QED BY <1>6, <3>1, <3>2
  <2>5. of("past") = {a \in listed : activity[a].date <= today - 1}
    <3>1. \A date : Timeframe("past", date) <=> date <= today - 1
      BY <1>1, <2>1 DEF Timeframe, Given
    <3>2. of("past") = {a \in listed : active /\ Timeframe("past", activity[a].date)} BY <1>4
    <3> QED BY <1>6, <3>1, <3>2
  <2>6. \A a \in listed : ~(activity[a].date >= today) <=> activity[a].date <= today - 1
    BY <1>3, <2>2
  <2> QED BY <2>3, <2>4, <2>5, <2>6
<1>7. ASSUME active, NEW s \in ActivityStatuses
      PROVE  /\ byStatus(p)[s] = Cardinality(listActivities(with(s), TRUE))
             /\ listActivities(with(s), TRUE) = listEventProgramActivities(p, with(s), TRUE)
  <2>1. /\ listActivities(with(s), TRUE) = ShownAs(p, s)
        /\ listEventProgramActivities(p, with(s), TRUE) = ShownAs(p, s)
    BY <1>7, AdministratorsListings
  <2> QED BY <2>1 DEF byStatus, ShownAs
<1>8. ~getEventProgramById(p) => of("all") = {}
  <2>1. activitiesOf(p) = {} => listed = {} BY <1>2 DEF PublishedIn
  <2>2. ~getEventProgramById(p) => activitiesOf(p) = {} \/ ~active BY ProgramPages
  <2>3. of("all") = {a \in listed : active /\ Timeframe("all", activity[a].date)} BY <1>4
  <2> HIDE DEF of, listed, active
  <2> QED BY <2>1, <2>2, <2>3
<1>9. getEventProgramById(p) => active BY DEF getEventProgramById
<1>10. visible(p) = Cardinality(listed) BY <1>2, CardCounts
<1>11. getEventProgramById(p) => \A a \in listed : getActivityById(a, FALSE)
  BY <1>2, ProgramPages
<1> HIDE DEF of, with, on, listed, active
<1>12. getEventProgramById(p) =>
         /\ of("all") = listed
         /\ of(Undefined) \cup of("past") = listed
         /\ of(Undefined) \cap of("past") = {}
         /\ visible(p) = Cardinality(listed)
         /\ \A a \in listed : getActivityById(a, FALSE)
         /\ \A s \in ActivityStatuses :
              /\ byStatus(p)[s] = Cardinality(listActivities(with(s), TRUE))
              /\ listActivities(with(s), TRUE) = listEventProgramActivities(p, with(s), TRUE)
         /\ \A d \in Dates : listActivities(on(d), FALSE) = {a \in listed : activity[a].date = d}
  BY <1>5, <1>6, <1>7, <1>9, <1>10, <1>11
<1> QED BY <1>8, <1>12, ProgramPages DEF of, with, on, listed

\* The pages of a unit agree.
LEMMA UnitPagesAgree ==
  ASSUME IInv, VInv
  PROVE  UnitViewsAgree
<1> SUFFICES ASSUME NEW u \in Units
             PROVE  /\ u \in listOrganizationalUnits(Undefined)
                         <=> getEventProgramById(DefaultProgram[u])
                    /\ listActivities([NoFilter EXCEPT !.organizationalUnit = u], FALSE)
                         = UNION {listEventProgramActivities(p, NoFilter, FALSE) :
                                    p \in {q \in listEventPrograms(Undefined, FALSE) :
                                             Owner[q] = u}}
  BY DEF UnitViewsAgree
<1> DEFINE query == [NoFilter EXCEPT !.organizationalUnit = u]
           open  == {q \in listEventPrograms(Undefined, FALSE) : Owner[q] = u}
<1>1. u \in listOrganizationalUnits(Undefined) <=> getEventProgramById(DefaultProgram[u])
  <2>1. unit[u] \in UnitStates /\ DefaultProgram[u] \in Programs
    BY DefaultPrograms DEF IInv, TypeOK
  <2>2. unit[u] = "ACTIVE" <=> getEventProgramById(DefaultProgram[u])
    BY <2>1 DEF IInv, DefaultProgramFollowsUnit, getEventProgramById, UnitStates
  <2> QED BY <2>2 DEF listOrganizationalUnits, Given
<1>2. /\ u # Undefined /\ "all" # Undefined /\ "upcoming" # "all" BY QueryAssumption
<1>3. open = {q \in Programs : program[q] # Null /\ program[q].status = "ACTIVE" /\ Owner[q] = u}
  BY DEF listEventPrograms, Given
<1>4. /\ query.organizationalUnit = u /\ query.eventProgram = Undefined /\ query.when = "all"
      /\ query.dateFrom = Undefined /\ query.dateTo = Undefined
  BY DEF NoFilter
<1> HIDE DEF query, open
<1>5. listActivities(query, FALSE)
        = {a \in Activities : /\ Exists(a)
                              /\ program[activity[a].eventProgram].status = "ACTIVE"
                              /\ Owner[activity[a].eventProgram] = u
                              /\ activity[a].status \in PUBLISHED_ACTIVITY_STATUSES}
  <2>1. \A date : InRange(date, query) /\ Timeframe(query.when, date)
    BY <1>2, <1>4 DEF InRange, Timeframe, Given
  <2> QED BY <1>2, <1>4, <2>1, ReadersSeePublished DEF listActivities
<1>6. UNION {listEventProgramActivities(p, NoFilter, FALSE) : p \in open}
        = {a \in Activities : /\ Exists(a) /\ activity[a].eventProgram \in open
                              /\ activity[a].status \in PUBLISHED_ACTIVITY_STATUSES}
  <2>1. {listEventProgramActivities(p, NoFilter, FALSE) : p \in open}
          = {PublishedIn(p) : p \in open}
    BY ReadersProgramListing
  <2>2. \A a : a \in UNION {PublishedIn(p) : p \in open}
                <=> \E p \in open : a \in PublishedIn(p)
    OBVIOUS
  <2>3. \A a : (\E p \in open : a \in PublishedIn(p))
                <=> /\ a \in Activities /\ Exists(a) /\ activity[a].eventProgram \in open
                    /\ activity[a].status \in PUBLISHED_ACTIVITY_STATUSES
    BY DEF PublishedIn, activitiesOf, Exists
  <2> QED BY <2>1, <2>2, <2>3
<1>7. \A a \in Activities : Exists(a) =>
        (activity[a].eventProgram \in open
           <=> /\ program[activity[a].eventProgram].status = "ACTIVE"
               /\ Owner[activity[a].eventProgram] = u)
  BY <1>3, RowShown
<1>8. listActivities(query, FALSE)
        = UNION {listEventProgramActivities(p, NoFilter, FALSE) : p \in open}
  BY <1>5, <1>6, <1>7
<1> QED BY <1>1, <1>8 DEF query, open

(* What the public pages show of a program is one set of activities,       *)
(* however it is asked for, and the units, programs and activities listed  *)
(* are those that can be opened (listActivities, listEventPrograms,        *)
(* listEventProgramActivities, countEventProgramActivities,                *)
(* getActivityById), whatever the requests and their interleaving.         *)
THEOREM PublicViewsAgreeAlways == Spec => []PublicViewsAgree
<1>1. IInv /\ VInv => PublicViewsAgree
  BY ProgramPagesAgree, UnitPagesAgree DEF PublicViewsAgree
<1> QED BY <1>1, IInvAlways, VInvAlways, PTL

-----------------------------------------------------------------------------
(***************************************************************************)
(* The life cycles of activities, programs, units and classrooms, for      *)
(* every set of rows and requests, in two parts.                           *)
(*                                                                         *)
(* However the requests interleave, the tables and the audit trail agree.  *)
(* One invariant carries these relations, and Archival besides: the        *)
(* constraint that ties archived_at to the status of a program is what     *)
(* stops a stale publication from reviving it.  A step has one of three    *)
(* shapes: it writes one activity, or one additional program, or neither;  *)
(* each shape has a lemma, and each transaction is shown to have a shape.  *)
(*                                                                         *)
(* When requests come one at a time, the guards of the services hold at    *)
(* the commit as well: the invariant keeps what each request read true     *)
(* while the clock runs, and that closed rows have nothing still to come.  *)
(***************************************************************************)

\* A program is archived exactly when archived_at is set.
Archival ==
  \A p \in Programs : program[p] # Null /\ ~isDefault(p) =>
    (program[p].status = "ARCHIVED" <=> program[p].archived)

LInv ==
  /\ ActivitiesWithinProgram
  /\ AuditMatchesStatus
  /\ RetainedActivitiesSurvive
  /\ ArchivedHoldsNothingLater
  /\ Archival

\* The step formula of OnlyReactivationRevives.
RevivedByReactivation ==
  \A p \in Programs :
    (/\ program[p] # Null /\ ~isDefault(p)
     /\ program[p].status = "ARCHIVED" /\ program'[p].status # "ARCHIVED")
    => programAudit'[p] = "event_program.reactivated"

-----------------------------------------------------------------------------
(* The three shapes. *)

\* A step that writes activity a, with the audit event that it leaves last.
LEMMA ActivityWriteShape ==
  ASSUME TypeOK, LInv, NEW a \in Activities, NEW new \in ActivityRow \cup {Null}, NEW action,
         activity' = [activity EXCEPT ![a] = new],
         activityAudit' = [activityAudit EXCEPT ![a] = action],
         UNCHANGED <<program, retained, programAudit, now>>,
         new = Null => a \notin retained /\ action = "activity.deleted",
         new # Null =>
           /\ action \notin {Null, "activity.deleted"}
           /\ new.status = StatusAfter(action)
           /\ ~isDefault(new.eventProgram) =>
                /\ program[new.eventProgram] # Null
                /\ program[new.eventProgram].startDate <= new.date
                /\ new.date <= program[new.eventProgram].endDate
                /\ (/\ program[new.eventProgram].status = "ARCHIVED"
                    /\ new.status \in PUBLISHED_ACTIVITY_STATUSES)
                   => DayStart(new.date) <= now
  PROVE  LInv' /\ RevivedByReactivation
<1>1. /\ activity'[a] = new /\ activityAudit'[a] = action
      /\ \A b \in Activities : b # a =>
           activity'[b] = activity[b] /\ activityAudit'[b] = activityAudit[b]
  BY DEF TypeOK
<1>2. ActivitiesWithinProgram'
  BY <1>1 DEF LInv, ActivitiesWithinProgram, Exists, isDefault
<1>3. AuditMatchesStatus'
  BY <1>1 DEF LInv, AuditMatchesStatus, Exists, isDefault
<1>4. RetainedActivitiesSurvive'
  BY <1>1 DEF LInv, RetainedActivitiesSurvive, Exists, TypeOK
<1>5. ArchivedHoldsNothingLater'
  BY <1>1 DEF LInv, ArchivedHoldsNothingLater, Exists, isDefault
<1>6. Archival' /\ RevivedByReactivation
  BY DEF LInv, Archival, RevivedByReactivation, isDefault
<1> QED BY <1>2, <1>3, <1>4, <1>5, <1>6 DEF LInv

\* A step that writes the additional program p.
LEMMA ProgramWriteShape ==
  ASSUME TypeOK, LInv, NEW p \in Programs, ~isDefault(p), NEW new \in ProgramRow,
         NEW action \in ProgramActions,
         program' = [program EXCEPT ![p] = new],
         programAudit' = [programAudit EXCEPT ![p] = action],
         UNCHANGED <<activity, activityAudit, retained, now>>,
         new.status = ProgramStatusAfter(action),
         new.status = "ARCHIVED" <=> new.archived,
         \A a \in activitiesOf(p) :
           /\ new.startDate <= activity[a].date /\ activity[a].date <= new.endDate
           /\ (new.status = "ARCHIVED" /\ activity[a].status \in PUBLISHED_ACTIVITY_STATUSES)
              => DayStart(activity[a].date) <= now,
         program[p] # Null /\ program[p].status = "ARCHIVED" /\ new.status # "ARCHIVED"
           => action = "event_program.reactivated"
  PROVE  LInv' /\ RevivedByReactivation
<1>1. /\ program'[p] = new /\ programAudit'[p] = action
      /\ new # Null /\ action # Null
      /\ \A q \in Programs : q # p =>
           program'[q] = program[q] /\ programAudit'[q] = programAudit[q]
  BY RowsAreNotNull, ActionAssumption DEF TypeOK
<1>2. ActivitiesWithinProgram'
  BY <1>1 DEF LInv, ActivitiesWithinProgram, Exists, isDefault, activitiesOf, TypeOK, ActivityRow
<1>3. AuditMatchesStatus'
  BY <1>1 DEF LInv, AuditMatchesStatus, Exists, isDefault
<1>4. RetainedActivitiesSurvive'
  BY DEF LInv, RetainedActivitiesSurvive, Exists
<1>5. ArchivedHoldsNothingLater'
  BY <1>1 DEF LInv, ArchivedHoldsNothingLater, Exists, isDefault, activitiesOf, TypeOK, ActivityRow
<1>6. Archival' /\ RevivedByReactivation
  BY <1>1 DEF LInv, Archival, RevivedByReactivation, isDefault
<1> QED BY <1>2, <1>3, <1>4, <1>5, <1>6 DEF LInv

\* A step that writes neither, and does not turn the clock back.
LEMMA OtherShape ==
  ASSUME TypeOK, LInv, UNCHANGED <<activity, activityAudit>>,
         \A p \in Programs : ~isDefault(p) =>
           program'[p] = program[p] /\ programAudit'[p] = programAudit[p],
         now' \in Nat, now <= now',
         \A a \in retained' : a \in retained \/ (a \in Activities /\ activity[a] # Null)
  PROVE  LInv' /\ RevivedByReactivation
<1>1. \A a \in Activities : activity[a] # Null =>
        /\ activity[a].eventProgram \in Programs
        /\ DayStart(activity[a].date) \in Int
  <2> SUFFICES ASSUME NEW row \in ActivityRow
               PROVE  row.eventProgram \in Programs /\ DayStart(row.date) \in Int
    BY DEF TypeOK
  <2>1. row.eventProgram \in Programs BY DEF ActivityRow
  <2>2. row.date * DayLength \in Int BY RowNumbers
  <2> QED BY <2>1, <2>2, TimeAssumption DEF DayStart
<1>2. ActivitiesWithinProgram'
  BY <1>1 DEF LInv, ActivitiesWithinProgram, Exists, isDefault
<1>3. AuditMatchesStatus'
  BY DEF LInv, AuditMatchesStatus, Exists, isDefault
<1>4. RetainedActivitiesSurvive'
  BY DEF LInv, RetainedActivitiesSurvive, Exists
<1>5. ArchivedHoldsNothingLater'
  <2> SUFFICES ASSUME NEW a \in Activities, activity[a] # Null,
                      ~isDefault(activity[a].eventProgram),
                      program'[activity[a].eventProgram].status = "ARCHIVED",
                      activity[a].status \in PUBLISHED_ACTIVITY_STATUSES
               PROVE  DayStart(activity[a].date) <= now'
    BY DEF ArchivedHoldsNothingLater, Exists, isDefault
  <2>1. DayStart(activity[a].date) <= now
    BY <1>1 DEF LInv, ArchivedHoldsNothingLater, Exists
  <2> QED BY <1>1, <2>1 DEF TypeOK
<1>6. Archival' /\ RevivedByReactivation
  BY DEF LInv, Archival, RevivedByReactivation, isDefault
<1> QED BY <1>2, <1>3, <1>4, <1>5, <1>6 DEF LInv

-----------------------------------------------------------------------------
(* Each transaction has a shape. *)

\* A new activity is a draft within its program.
LEMMA CommitCreateActivityShape ==
  ASSUME IInv, LInv, NEW w \in Workers, NEW a \in Activities, CommitCreateActivity(w, a)
  PROVE  LInv' /\ RevivedByReactivation
<1> DEFINE new == tx[w].row
<1>1. new \in ActivityRow /\ new.status = "DRAFT" /\ program[new.eventProgram] # Null
  BY CommitsPrepared, TransactionShapes DEF CommitCreateActivity, Prepared
<1>2. /\ activity' = [activity EXCEPT ![a] = new]
      /\ activityAudit' = [activityAudit EXCEPT ![a] = "activity.created"]
      /\ UNCHANGED <<program, retained, programAudit, now>>
      /\ validate_activity_program(Null, new)
  BY DEF CommitCreateActivity, Commits
<1>3. /\ new # Null /\ "activity.created" # Null
      /\ new.status = StatusAfter("activity.created")
      /\ new.status \notin PUBLISHED_ACTIVITY_STATUSES
  BY <1>1, RowsAreNotNull, ActionAssumption
  DEF StatusAfter, PUBLISHED_ACTIVITY_STATUSES, ActivityActions
<1>4. ~isDefault(new.eventProgram) =>
        /\ program[new.eventProgram].startDate <= new.date
        /\ new.date <= program[new.eventProgram].endDate
  BY <1>2 DEF validate_activity_program
<1> HIDE DEF new
<1> QED BY <1>1, <1>2, <1>3, <1>4, ActivityWriteShape DEF IInv

\* An update that moves or publishes an activity needs an active program; the
\* trigger looks at nothing else, so the rest must be as it was.
LEMMA CommitUpdateActivityShape ==
  ASSUME IInv, LInv, NEW w \in Workers, CommitUpdateActivity(w)
  PROVE  LInv' /\ RevivedByReactivation
<1> DEFINE a      == tx[w].id
           data   == tx[w].data
           old    == activity[a]
           new    == WriteActivity(old, data)
           p      == old.eventProgram
           action == CASE data.status = "SCHEDULED" -> "activity.scheduled"
                       [] data.status = "DRAFT"     -> "activity.unpublished"
                       [] OTHER                     -> activityAudit[a]
<1>1. a \in Activities /\ data \in ActivityPatch
  BY CommitsPrepared, TransactionShapes DEF CommitUpdateActivity
<1>2. old # Null /\ old \in ActivityRow /\ p \in Programs
  BY <1>1 DEF CommitUpdateActivity, IInv, TypeOK, ActivityRow
<1>3. /\ new \in ActivityRow /\ new # Null /\ new.eventProgram = p
      /\ new.status = Given(data.status, old.status)
      /\ new.date = Given(data.date, old.date)
  BY <1>1, <1>2, WriteActivityType, RowsAreNotNull
<1>4. /\ activity' = [activity EXCEPT ![a] = new]
      /\ activityAudit' = [activityAudit EXCEPT ![a] = action]
      /\ UNCHANGED <<program, retained, programAudit, now>>
      /\ data.date # Undefined \/ data.status # Undefined
           => validate_activity_program(old, new)
  BY <1>1 DEF CommitUpdateActivity, Commits, IInv, TypeOK
<1>5. /\ activityAudit[a] \notin {Null, "activity.deleted"}
      /\ old.status = StatusAfter(activityAudit[a])
      /\ ~isDefault(p) => /\ program[p] # Null
                          /\ program[p].startDate <= old.date
                          /\ old.date <= program[p].endDate
      /\ (/\ ~isDefault(p) /\ program[p].status = "ARCHIVED"
          /\ old.status \in PUBLISHED_ACTIVITY_STATUSES) => DayStart(old.date) <= now
  BY <1>1, <1>2 DEF LInv, AuditMatchesStatus, ActivitiesWithinProgram,
                    ArchivedHoldsNothingLater, Exists
<1>6. data.status \in {"DRAFT", "SCHEDULED"} \/ (data.status = Undefined /\ new.status = old.status)
  BY <1>1, <1>3 DEF ActivityPatch, Given
<1>7. /\ action \notin {Null, "activity.deleted"}
      /\ new.status = StatusAfter(action)
  <2>1. CASE data.status \in {"DRAFT", "SCHEDULED"}
    <3>1. new.status = data.status
      BY <1>3, <2>1, NullAssumption DEF Given, ActivityStatuses
    <3> QED BY <2>1, <3>1, ActionAssumption DEF StatusAfter, ActivityActions
  <2>2. CASE data.status = Undefined /\ new.status = old.status
    <3>1. data.status \notin {"DRAFT", "SCHEDULED"}
      BY <2>2, NullAssumption DEF ActivityStatuses
    <3> QED BY <1>5, <2>2, <3>1
  <2> QED BY <1>6, <2>1, <2>2
<1>8. ~isDefault(p) => program[p].startDate <= new.date /\ new.date <= program[p].endDate
  BY <1>3, <1>4, <1>5 DEF validate_activity_program, Given
<1>9. ASSUME ~isDefault(p), program[p].status = "ARCHIVED",
             new.status \in PUBLISHED_ACTIVITY_STATUSES
      PROVE  DayStart(new.date) <= now
  <2>1. new.date = old.date /\ (new.status = old.status \/ new.status \notin RESERVING_STATUSES)
    BY <1>3, <1>4, <1>9 DEF validate_activity_program, Given
  <2>2. new.status = old.status
    BY <1>3, <1>6, <1>9, <2>1, NullAssumption
    DEF Given, RESERVING_STATUSES, PUBLISHED_ACTIVITY_STATUSES, ActivityStatuses
  <2> QED BY <1>5, <1>9, <2>1, <2>2
<1> HIDE DEF new, action
<1> QED BY <1>1, <1>3, <1>4, <1>5, <1>7, <1>8, <1>9, ActivityWriteShape DEF IInv

\* A cancelled activity stays on its date and is not published.
LEMMA CommitCancelActivityShape ==
  ASSUME IInv, LInv, NEW w \in Workers, CommitCancelActivity(w)
  PROVE  LInv' /\ RevivedByReactivation
<1> DEFINE a   == tx[w].id
           old == activity[a]
           new == [old EXCEPT !.status = "CANCELLED", !.cancelReason = tx[w].reason]
<1>1. a \in Activities /\ tx[w].reason \in Reasons \cup {Null}
  BY CommitsPrepared, TransactionShapes DEF CommitCancelActivity
<1>2. old # Null /\ old \in ActivityRow
  BY <1>1 DEF CommitCancelActivity, IInv, TypeOK
<1>3. /\ new \in ActivityRow /\ new # Null /\ new.status = "CANCELLED"
      /\ new.eventProgram = old.eventProgram /\ new.date = old.date
  BY <1>1, <1>2, RowsAreNotNull DEF ActivityRow, ActivityStatuses
<1>4. /\ activity' = [activity EXCEPT ![a] = new]
      /\ activityAudit' = [activityAudit EXCEPT ![a] = "activity.cancelled"]
      /\ UNCHANGED <<program, retained, programAudit, now>>
  BY DEF CommitCancelActivity, Commits
<1>5. /\ "activity.cancelled" # Null /\ new.status = StatusAfter("activity.cancelled")
      /\ new.status \notin PUBLISHED_ACTIVITY_STATUSES
  BY <1>3, ActionAssumption DEF StatusAfter, PUBLISHED_ACTIVITY_STATUSES, ActivityActions
<1>6. ~isDefault(old.eventProgram) =>
        /\ program[old.eventProgram] # Null
        /\ program[old.eventProgram].startDate <= old.date
        /\ old.date <= program[old.eventProgram].endDate
  BY <1>1, <1>2 DEF LInv, ActivitiesWithinProgram, Exists
<1> HIDE DEF new
<1> QED BY <1>1, <1>3, <1>4, <1>5, <1>6, ActivityWriteShape DEF IInv

\* The delete repeats the guard, and the foreign keys are checked with it.
LEMMA CommitDeleteActivityShape ==
  ASSUME IInv, LInv, NEW w \in Workers, CommitDeleteActivity(w)
  PROVE  LInv' /\ RevivedByReactivation
<1>1. tx[w].id \in Activities
  BY CommitsPrepared, TransactionShapes DEF CommitDeleteActivity
<1>2. /\ activity' = [activity EXCEPT ![tx[w].id] = Null]
      /\ activityAudit' = [activityAudit EXCEPT ![tx[w].id] = "activity.deleted"]
      /\ UNCHANGED <<program, retained, programAudit, now>>
      /\ tx[w].id \notin retained
  BY DEF CommitDeleteActivity, Commits, MayBeDeleted
<1> QED BY <1>1, <1>2, ActivityWriteShape DEF IInv

\* What the invariant says of a program and its activities.
LEMMA ProgramFacts ==
  ASSUME IInv, LInv, NEW p \in Programs, program[p] # Null, ~isDefault(p)
  PROVE  /\ program[p] \in ProgramRow
         /\ programAudit[p] \in ProgramActions
         /\ program[p].status = ProgramStatusAfter(programAudit[p])
         /\ program[p].status = "ARCHIVED" <=> program[p].archived
         /\ \A a \in activitiesOf(p) :
              /\ program[p].startDate <= activity[a].date
              /\ activity[a].date <= program[p].endDate
              /\ (/\ program[p].status = "ARCHIVED"
                  /\ activity[a].status \in PUBLISHED_ACTIVITY_STATUSES)
                 => DayStart(activity[a].date) <= now
BY DEF IInv, TypeOK, LInv, AuditMatchesStatus, Archival, ActivitiesWithinProgram,
       ArchivedHoldsNothingLater, Exists, activitiesOf

\* An id without a program has no activities.
LEMMA NoProgramNoActivities ==
  ASSUME IInv, LInv, NEW p \in Programs, program[p] = Null, ~isDefault(p)
  PROVE  activitiesOf(p) = {}
BY DEF LInv, ActivitiesWithinProgram, Exists, activitiesOf

\* A write of a default program is none of the relations' business.
LEMMA DefaultWriteShape ==
  ASSUME IInv, LInv, NEW p \in Programs, isDefault(p), NEW new, NEW action,
         program' = [program EXCEPT ![p] = new],
         programAudit' = [programAudit EXCEPT ![p] = action],
         UNCHANGED <<activity, activityAudit, retained, now>>
  PROVE  LInv' /\ RevivedByReactivation
<1>1. \A q \in Programs : ~isDefault(q) =>
        program'[q] = program[q] /\ programAudit'[q] = programAudit[q]
  BY DEF IInv, TypeOK
<1>2. now' \in Nat /\ now <= now' BY DEF IInv, TypeOK
<1> QED BY <1>1, <1>2, OtherShape DEF IInv

\* A new program is a draft without activities.
LEMMA CommitCreateEventProgramShape ==
  ASSUME IInv, LInv, NEW w \in Workers, NEW p \in Programs, CommitCreateEventProgram(w, p)
  PROVE  LInv' /\ RevivedByReactivation
<1> DEFINE new == [status |-> "DRAFT", startDate |-> tx[w].startDate,
                   endDate |-> tx[w].endDate, archived |-> FALSE]
<1>1. new \in ProgramRow
  BY CommitsPrepared, TransactionShapes
  DEF CommitCreateEventProgram, ProgramRow, ProgramStatuses
<1>2. /\ program' = [program EXCEPT ![p] = new]
      /\ programAudit' = [programAudit EXCEPT ![p] = "event_program.created"]
      /\ UNCHANGED <<activity, activityAudit, retained, now>>
      /\ ~isDefault(p) /\ program[p] = Null
  BY DEF CommitCreateEventProgram, UpdatesProgram, Commits
<1>3. /\ new.status = ProgramStatusAfter("event_program.created")
      /\ "event_program.created" \in ProgramActions
      /\ new.status # "ARCHIVED" /\ ~new.archived
  BY DEF ProgramStatusAfter, ProgramActions
<1>4. activitiesOf(p) = {} BY <1>2, NoProgramNoActivities
<1> HIDE DEF new
<1> QED BY <1>1, <1>2, <1>3, <1>4, ProgramWriteShape DEF IInv

\* archived_at stays as it was, so the constraint refuses to publish a
\* program that was archived in between.
LEMMA CommitUpdateEventProgramShape ==
  ASSUME IInv, LInv, NEW w \in Workers, CommitUpdateEventProgram(w)
  PROVE  LInv' /\ RevivedByReactivation
<1> DEFINE p      == tx[w].id
           data   == tx[w].data
           old    == program[p]
           new    == WriteProgram(old, data)
           action == IF data.status = "ACTIVE" THEN "event_program.published"
                     ELSE programAudit[p]
<1>1. p \in Programs /\ data \in ProgramPatch /\ old # Null
  BY CommitsPrepared, TransactionShapes DEF CommitUpdateEventProgram, Prepared
<1>2. /\ program' = [program EXCEPT ![p] = new]
      /\ programAudit' = [programAudit EXCEPT ![p] = action]
      /\ UNCHANGED <<activity, activityAudit, retained, now>>
      /\ event_programs_checks(p, new)
      /\ validate_event_program_transition(p, new, unit[Owner[p]] = "ACTIVE")
  BY <1>1 DEF CommitUpdateEventProgram, UpdatesProgram, Commits
<1>3. CASE isDefault(p)
  <2> HIDE DEF p, new, action
  <2> QED BY <1>1, <1>2, <1>3, DefaultWriteShape
<1>4. CASE ~isDefault(p)
  <2>1. /\ old \in ProgramRow
        /\ programAudit[p] \in ProgramActions
        /\ old.status = ProgramStatusAfter(programAudit[p])
        /\ old.status = "ARCHIVED" <=> old.archived
    BY <1>1, <1>4, ProgramFacts
  <2>2. /\ new \in ProgramRow
        /\ new.status = Given(data.status, old.status)
        /\ new.startDate = Given(data.startDate, old.startDate)
        /\ new.endDate = Given(data.endDate, old.endDate)
        /\ new.archived = old.archived
    BY <1>1, <2>1, WriteProgramType
  <2>3. data.status = "ACTIVE" \/ (data.status = Undefined /\ new.status = old.status)
    BY <1>1, <2>2 DEF ProgramPatch, Given
  <2>4. new.status = "ARCHIVED" <=> new.archived BY <1>2 DEF event_programs_checks
  <2>5. new.status = "ARCHIVED" <=> old.status = "ARCHIVED" BY <2>1, <2>2, <2>4
  <2>6. action \in ProgramActions /\ new.status = ProgramStatusAfter(action)
    <3>1. CASE data.status = "ACTIVE"
      <4>1. new.status = "ACTIVE"
        BY <2>2, <3>1, NullAssumption DEF Given, ProgramStatuses
      <4> QED BY <3>1, <4>1 DEF ProgramActions, ProgramStatusAfter
    <3>2. CASE data.status = Undefined /\ new.status = old.status
      <4>1. data.status # "ACTIVE" BY <3>2, NullAssumption DEF ProgramStatuses
      <4> QED BY <2>1, <3>2, <4>1
    <3> QED BY <2>3, <3>1, <3>2
  <2>7. \A a \in activitiesOf(p) :
          new.startDate <= activity[a].date /\ activity[a].date <= new.endDate
    <3>1. CASE <<new.startDate, new.endDate>> = <<old.startDate, old.endDate>>
      <4>1. new.startDate = old.startDate /\ new.endDate = old.endDate BY <3>1
      <4> QED BY <1>1, <1>4, <4>1, ProgramFacts
    <3>2. CASE <<new.startDate, new.endDate>> # <<old.startDate, old.endDate>>
      BY <1>2, <1>4, <3>2 DEF validate_event_program_transition
    <3> QED BY <3>1, <3>2
  <2>8. \A a \in activitiesOf(p) :
          (new.status = "ARCHIVED" /\ activity[a].status \in PUBLISHED_ACTIVITY_STATUSES)
            => DayStart(activity[a].date) <= now
    BY <1>1, <1>4, <2>5, ProgramFacts
  <2> HIDE DEF p, new, action
  <2> QED BY <1>1, <1>2, <1>4, <2>2, <2>4, <2>5, <2>6, <2>7, <2>8, ProgramWriteShape DEF IInv
<1> QED BY <1>3, <1>4

\* What the trigger lets pass has ended, and so its day has begun.
LEMMA EndedHasBegun ==
  ASSUME NEW row \in ActivityRow, NEW instant \in Nat,
         row.status \in PUBLISHED_ACTIVITY_STATUSES, ~TriggerSeesReservation(row, instant)
  PROVE  DayStart(row.date) <= instant
<1>1. row.date \in Int /\ row.date * DayLength \in Int /\ row.endTime \in Nat
  BY RowNumbers
<1> QED BY <1>1, TimeAssumption DEF TriggerSeesReservation, DayStart

\* The trigger counts again what the service counted, so that archival sees
\* every activity published before it.
LEMMA CommitArchiveEventProgramShape ==
  ASSUME IInv, LInv, NEW w \in Workers, CommitArchiveEventProgram(w)
  PROVE  LInv' /\ RevivedByReactivation
<1> DEFINE p      == tx[w].id
           old    == program[p]
           new    == [old EXCEPT !.status = "ARCHIVED", !.archived = TRUE]
           action == "event_program.archived"
<1>1. p \in Programs /\ old # Null
  BY CommitsPrepared, TransactionShapes DEF CommitArchiveEventProgram, Prepared
<1>2. /\ program' = [program EXCEPT ![p] = new]
      /\ programAudit' = [programAudit EXCEPT ![p] = action]
      /\ UNCHANGED <<activity, activityAudit, retained, now>>
      /\ validate_event_program_transition(p, new, unit[Owner[p]] = "ACTIVE")
  BY DEF CommitArchiveEventProgram, UpdatesProgram, Commits
<1>3. CASE isDefault(p)
  <2> HIDE DEF p, new, action
  <2> QED BY <1>1, <1>2, <1>3, DefaultWriteShape
<1>4. CASE ~isDefault(p)
  <2>1. old \in ProgramRow BY <1>1, <1>4, ProgramFacts
  <2>2. /\ new \in ProgramRow /\ new.status = "ARCHIVED" /\ new.archived
        /\ new.startDate = old.startDate /\ new.endDate = old.endDate
    BY <2>1 DEF ProgramRow, ProgramStatuses
  <2>3. action \in ProgramActions /\ new.status = ProgramStatusAfter(action)
    BY <2>2 DEF ProgramActions, ProgramStatusAfter
  <2>4. ASSUME NEW a \in activitiesOf(p), activity[a].status \in PUBLISHED_ACTIVITY_STATUSES
        PROVE  DayStart(activity[a].date) <= now
    <3>1. CASE old.status = "ARCHIVED" BY <1>1, <1>4, <2>4, <3>1, ProgramFacts
    <3>2. CASE old.status # "ARCHIVED"
      <4>1. ~TriggerSeesReservation(activity[a], now)
        BY <1>2, <1>4, <2>2, <3>2 DEF validate_event_program_transition
      <4>2. activity[a] \in ActivityRow /\ now \in Nat
        BY DEF activitiesOf, IInv, TypeOK
      <4> QED BY <2>4, <4>1, <4>2, EndedHasBegun
    <3> QED BY <3>1, <3>2
  <2>5. \A a \in activitiesOf(p) :
          new.startDate <= activity[a].date /\ activity[a].date <= new.endDate
    BY <1>1, <1>4, <2>2, ProgramFacts
  <2> HIDE DEF p, new, action
  <2> QED BY <1>1, <1>2, <1>4, <2>2, <2>3, <2>4, <2>5, ProgramWriteShape DEF IInv
<1> QED BY <1>3, <1>4

\* A reactivated program keeps its dates.
LEMMA CommitReactivateEventProgramShape ==
  ASSUME IInv, LInv, NEW w \in Workers, CommitReactivateEventProgram(w)
  PROVE  LInv' /\ RevivedByReactivation
<1> DEFINE p      == tx[w].id
           old    == program[p]
           new    == [old EXCEPT !.status = "ACTIVE", !.archived = FALSE]
           action == "event_program.reactivated"
<1>1. p \in Programs /\ old # Null /\ ~isDefault(p)
  BY CommitsPrepared, TransactionShapes DEF CommitReactivateEventProgram, Prepared
<1>2. /\ program' = [program EXCEPT ![p] = new]
      /\ programAudit' = [programAudit EXCEPT ![p] = action]
      /\ UNCHANGED <<activity, activityAudit, retained, now>>
  BY DEF CommitReactivateEventProgram, UpdatesProgram, Commits
<1>3. old \in ProgramRow BY <1>1, ProgramFacts
<1>4. /\ new \in ProgramRow /\ new.status = "ACTIVE" /\ ~new.archived
      /\ new.startDate = old.startDate /\ new.endDate = old.endDate
  BY <1>3 DEF ProgramRow, ProgramStatuses
<1>5. action \in ProgramActions /\ new.status = ProgramStatusAfter(action)
  BY <1>4 DEF ProgramActions, ProgramStatusAfter
<1>6. \A a \in activitiesOf(p) :
        new.startDate <= activity[a].date /\ activity[a].date <= new.endDate
  BY <1>1, <1>4, ProgramFacts
<1> HIDE DEF p, new
<1> QED BY <1>1, <1>2, <1>4, <1>5, <1>6, ProgramWriteShape DEF IInv

-----------------------------------------------------------------------------
(* Together. *)

\* Reads, the clock, alerts, rollbacks, rooms and units have the third shape.
LEMMA OtherStepsShape ==
  ASSUME IInv, LInv, UNCHANGED <<activity, activityAudit, programAudit>>,
         \A p \in Programs : ~isDefault(p) => program'[p] = program[p],
         UNCHANGED now \/ now' = now + 1,
         UNCHANGED retained \/ \E a \in Activities :
           activity[a] # Null /\ retained' = retained \cup {a}
  PROVE  LInv' /\ RevivedByReactivation
<1>1. now' \in Nat /\ now <= now' BY DEF IInv, TypeOK
<1>2. \A a \in retained' : a \in retained \/ (a \in Activities /\ activity[a] # Null)
  OBVIOUS
<1> QED BY <1>1, <1>2, OtherShape DEF IInv

\* The end of the reads of a request.
LEMMA BeginShape ==
  ASSUME IInv, LInv, NEW w, NEW t, Begin(w, t)
  PROVE  LInv' /\ RevivedByReactivation
<1>1. /\ UNCHANGED <<activity, activityAudit, programAudit, program, retained, now>>
  BY DEF Begin, tables
<1> QED BY <1>1, OtherStepsShape

\* A unit is written with its default program.
LEMMA UnitCommitsShape ==
  ASSUME IInv, LInv, NEW w \in Workers,
         \/ CommitCreateOrganizationalUnit(w)
         \/ CommitDeactivateOrganizationalUnit(w)
         \/ CommitReactivateOrganizationalUnit(w)
  PROVE  LInv' /\ RevivedByReactivation
<1> DEFINE u == tx[w].id
<1>1. u \in Units
  BY CommitsPrepared, TransactionShapes
  DEF CommitCreateOrganizationalUnit, CommitDeactivateOrganizationalUnit,
      CommitReactivateOrganizationalUnit
<1>2. /\ UNCHANGED <<activity, activityAudit, programAudit, retained, now>>
      /\ \A p \in Programs : p # DefaultProgram[u] => program'[p] = program[p]
  <2>1. CASE CommitCreateOrganizationalUnit(w)
    BY <2>1 DEF CommitCreateOrganizationalUnit, Commits, IInv, TypeOK
  <2>2. CASE CommitDeactivateOrganizationalUnit(w)
    BY <2>2 DEF CommitDeactivateOrganizationalUnit, Commits, IInv, TypeOK
  <2>3. CASE CommitReactivateOrganizationalUnit(w)
    BY <2>3 DEF CommitReactivateOrganizationalUnit, reactivate_default_event_program,
                Commits, IInv, TypeOK
  <2> QED BY <2>1, <2>2, <2>3
<1>3. \A p \in Programs : ~isDefault(p) => program'[p] = program[p]
  BY <1>1, <1>2, DefaultPrograms
<1> QED BY <1>2, <1>3, OtherStepsShape

\* Every step of the backend.
LEMMA StepsShape ==
  ASSUME IInv, LInv, [Next]_vars
  PROVE  LInv' /\ RevivedByReactivation
<1>1. ASSUME NEW w \in Workers, ActivityRequest(w) PROVE LInv' /\ RevivedByReactivation
  BY <1>1, BeginShape, CommitCreateActivityShape, CommitUpdateActivityShape,
     CommitCancelActivityShape, CommitDeleteActivityShape
  DEF ActivityRequest, BeginCreateActivity, BeginUpdateActivity, BeginCancelActivity,
      BeginDeleteActivity
<1>2. ASSUME NEW w \in Workers, ProgramRequest(w) PROVE LInv' /\ RevivedByReactivation
  BY <1>2, BeginShape, CommitCreateEventProgramShape, CommitUpdateEventProgramShape,
     CommitArchiveEventProgramShape, CommitReactivateEventProgramShape
  DEF ProgramRequest, BeginCreateEventProgram, BeginUpdateEventProgram,
      BeginArchiveEventProgram, BeginReactivateEventProgram
<1>3. ASSUME NEW w \in Workers, UnitRequest(w) PROVE LInv' /\ RevivedByReactivation
  BY <1>3, BeginShape, UnitCommitsShape
  DEF UnitRequest, BeginCreateOrganizationalUnit, BeginDeactivateOrganizationalUnit,
      BeginReactivateOrganizationalUnit
<1>4. ASSUME NEW w \in Workers, ClassroomRequest(w) PROVE LInv' /\ RevivedByReactivation
  <2>1. CASE CommitUpdateClassroom(w)
    BY <2>1, OtherStepsShape DEF CommitUpdateClassroom, Commits
  <2> QED BY <1>4, <2>1, BeginShape DEF ClassroomRequest, BeginUpdateClassroom
<1>5. CASE Tick \/ (\E w \in Workers : Rollback(w)) \/ UNCHANGED vars
  BY <1>5, OtherStepsShape DEF Tick, Rollback, vars, tables
<1>6. CASE \E a \in Activities : CreateAlert(a)
  BY <1>6, OtherStepsShape DEF CreateAlert
<1> QED BY <1>1, <1>2, <1>3, <1>4, <1>5, <1>6 DEF Next

\* The relations hold of every reachable state.
LEMMA LInvAlways == Spec => []LInv
<1>1. Init => LInv
  BY DEF Init, LInv, ActivitiesWithinProgram, AuditMatchesStatus, RetainedActivitiesSurvive,
         ArchivedHoldsNothingLater, Archival, Exists
<1> QED BY <1>1, StepsShape, IInvAlways, PTL DEF Spec

(* Every activity of an additional program lies within the dates of the    *)
(* program (validate_activity_program and validate_event_program_transition *)
(* check each other's tables), whatever the requests and their             *)
(* interleaving.                                                           *)
THEOREM ActivitiesWithinProgramAlways == Spec => []ActivitiesWithinProgram
<1>1. LInv => ActivitiesWithinProgram BY DEF LInv
<1> QED BY <1>1, LInvAlways, PTL

(* The last life-cycle event of the audit trail names the status of the    *)
(* row (activities.service.ts and event-programs.service.ts write both in  *)
(* one transaction), whatever the requests and their interleaving.         *)
THEOREM AuditMatchesStatusAlways == Spec => []AuditMatchesStatus
<1>1. LInv => AuditMatchesStatus BY DEF LInv
<1> QED BY <1>1, LInvAlways, PTL

(* An activity that an alert or attendance refers to is never deleted      *)
(* (deleteActivity and the RESTRICT keys), whatever the requests and their *)
(* interleaving.                                                           *)
THEOREM RetainedActivitiesSurviveAlways == Spec => []RetainedActivitiesSurvive
<1>1. LInv => RetainedActivitiesSurvive BY DEF LInv
<1> QED BY <1>1, LInvAlways, PTL

(* An archived additional program holds no published activity of a later   *)
(* day (the archive trigger and the trigger on activities), whatever the   *)
(* requests and their interleaving.                                        *)
THEOREM ArchivedHoldsNothingLaterAlways == Spec => []ArchivedHoldsNothingLater
<1>1. LInv => ArchivedHoldsNothingLater BY DEF LInv
<1> QED BY <1>1, LInvAlways, PTL

(* Only its reactivation revives an archived additional program: the       *)
(* constraint on archived_at refuses a publication decided while it was a  *)
(* draft (updateEventProgram), whatever the interleaving.                  *)
THEOREM OnlyReactivationRevivesAlways == Spec => OnlyReactivationRevives
<1>1. IInv /\ LInv /\ [Next]_vars => RevivedByReactivation BY StepsShape
<1> QED
  BY <1>1, IInvAlways, LInvAlways, PTL
  DEF Spec, OnlyReactivationRevives, RevivedByReactivation

-----------------------------------------------------------------------------
(***************************************************************************)
(* One request at a time.  What the guards of the services guarantee needs *)
(* that nobody commits between the reads of a request and its transaction; *)
(* then what a request read is still true when it commits, whatever the    *)
(* clock did meanwhile: a reservation that has ended stays ended.          *)
(***************************************************************************)

OneWorker == \A v, w \in Workers : v = w

\* A row no request may leave with something still to happen.
Closed(row) ==
  LET p == row.eventProgram
  IN  \/ ~isDefault(p) /\ program[p].status = "ARCHIVED"
      \/ isDefault(p) /\ unit[Owner[p]] = "INACTIVE"
      \/ row.classroom # Null /\ ~classroom[row.classroom]

RowsAreQuiet ==
  \A a \in Activities : Exists(a) /\ Closed(activity[a]) =>
    ~buildReservingActivityWhere(activity[a], now)

ProgramIsActive(row) == program[row.eventProgram].status = "ACTIVE"

\* A classroom out of use is no place for what is still to happen.
HasItsRoom(row) ==
  row.classroom # Null /\ ~classroom[row.classroom] => ~buildReservingActivityWhere(row, now)

NothingIsToCome(p) ==
  \A a \in activitiesOf(p) : ~buildReservingActivityWhere(activity[a], now)

\* What the guards of a request established, by its operation.
StillTrue(t) ==
  /\ t.op = "updateActivity" =>
       /\ Exists(t.id) /\ activity[t.id].status # "CANCELLED"
       /\ ProgramIsActive(activity[t.id])
       /\ HasItsRoom(WriteActivity(activity[t.id], t.data))
  /\ t.op = "cancelActivity" =>
       /\ Exists(t.id) /\ activity[t.id].status # "CANCELLED"
       /\ ProgramIsActive(activity[t.id])
  /\ t.op = "createEventProgram" => unit[t.unit] = "ACTIVE"
  /\ t.op = "updateEventProgram" => program[t.id].status # "ARCHIVED"
  /\ t.op = "archiveEventProgram" => NothingIsToCome(t.id)
  /\ t.op = "deactivateOrganizationalUnit" => NothingIsToCome(DefaultProgram[t.id])
  /\ t.op = "updateClassroom" /\ ~t.isActive => ~ReservedFromNow(t.id)

SeqInv ==
  /\ RowsAreQuiet
  /\ \A w \in Workers : tx[w] # Null => StillTrue(tx[w])

\* Quiet rows are what ClosedIsQuiet asks for.
LEMMA QuietRowsSuffice ==
  ASSUME TypeOK, RowsAreQuiet
  PROVE  ClosedIsQuiet
<1>1. ArchivedProgramsAreQuiet
  BY DEF RowsAreQuiet, Closed, ArchivedProgramsAreQuiet
<1>2. InactiveUnitsAreQuiet
  BY DEF RowsAreQuiet, Closed, InactiveUnitsAreQuiet
<1>3. InactiveClassroomsAreQuiet
  BY NullAssumption
  DEF RowsAreQuiet, Closed, InactiveClassroomsAreQuiet, ReservedFromNow, Exists
<1> QED BY <1>1, <1>2, <1>3 DEF ClosedIsQuiet

-----------------------------------------------------------------------------
(* Time. *)

\* A row reserves its room until the instant it ends.
LEMMA ReservesUntilItsEnd ==
  ASSUME NEW row \in ActivityRow, NEW instant \in Nat
  PROVE  /\ toInstitutionalInstant(row.date, row.endTime) \in Int
         /\ buildReservingActivityWhere(row, instant)
              <=> /\ row.status \in PUBLISHED_ACTIVITY_STATUSES
                  /\ instant < toInstitutionalInstant(row.date, row.endTime)
<1>1. row.date \in Int /\ row.date * DayLength \in Int /\ row.endTime \in TimesOfDay
  BY RowNumbers DEF TimesOfDay
<1>2. toInstitutionalInstant(row.date, row.endTime) \in Int
  BY <1>1, TimeAssumption DEF toInstitutionalInstant, DayStart, TimesOfDay
<1>3. instant < toInstitutionalInstant(row.date, row.endTime)
        <=> \/ row.date > startOfInstitutionalDay(instant)
            \/ /\ row.date = startOfInstitutionalDay(instant)
               /\ row.endTime > getInstitutionalTimeOfDay(instant)
  BY <1>1, ClockOrder
<1> QED BY <1>2, <1>3 DEF buildReservingActivityWhere

\* So what is over stays over.
LEMMA OverStaysOver ==
  ASSUME NEW row \in ActivityRow, NEW i \in Nat, NEW j \in Nat, i <= j,
         ~buildReservingActivityWhere(row, i)
  PROVE  ~buildReservingActivityWhere(row, j)
BY ReservesUntilItsEnd

\* A row that is not published reserves nothing.
LEMMA UnpublishedIsQuiet ==
  ASSUME NEW row, row.status \in {"DRAFT", "CANCELLED"}
  PROVE  ~buildReservingActivityWhere(row, now)
BY DEF buildReservingActivityWhere, PUBLISHED_ACTIVITY_STATUSES

\* Whatever the clock does, what was read is still true.
LEMMA TimePasses ==
  ASSUME IInv, SeqInv, UNCHANGED <<unit, program, activity, classroom, tx>>,
         now' \in Nat, now <= now'
  PROVE  SeqInv'
<1>1. now \in Nat BY DEF IInv, TypeOK
<1>2. RowsAreQuiet'
  <2> SUFFICES ASSUME NEW a \in Activities, activity[a] # Null, Closed(activity[a])
               PROVE  ~buildReservingActivityWhere(activity[a], now')
    BY DEF RowsAreQuiet, Closed, Exists, isDefault
  <2>1. activity[a] \in ActivityRow BY DEF IInv, TypeOK
  <2>2. ~buildReservingActivityWhere(activity[a], now) BY DEF SeqInv, RowsAreQuiet, Exists
  <2> QED BY <1>1, <2>1, <2>2, OverStaysOver
<1>3. ASSUME NEW w \in Workers, tx[w] # Null PROVE StillTrue(tx[w])'
  <2>1. PICK t \in Transactions : t = tx[w] BY <1>3 DEF IInv, TypeOK
  <2>2. StillTrue(t) BY <1>3, <2>1 DEF SeqInv
  <2>3. \A p : NothingIsToCome(p) => NothingIsToCome(p)'
    <3> SUFFICES ASSUME NEW p, NothingIsToCome(p), NEW a \in activitiesOf(p)
                 PROVE  ~buildReservingActivityWhere(activity[a], now')
      BY DEF NothingIsToCome, activitiesOf
    <3>1. activity[a] \in ActivityRow BY DEF activitiesOf, IInv, TypeOK
    <3> QED BY <1>1, <3>1, OverStaysOver DEF NothingIsToCome
  <2>4. \A row \in ActivityRow : HasItsRoom(row) => HasItsRoom(row)'
    BY <1>1, OverStaysOver DEF HasItsRoom
  <2>5. \A r \in Classrooms : ~ReservedFromNow(r) => ~ReservedFromNow(r)'
    BY <1>1, OverStaysOver DEF ReservedFromNow, IInv, TypeOK
  <2>6. CASE t.op = "updateActivity"
    <3>1. PICK new : new = WriteActivity(activity[t.id], t.data) OBVIOUS
    <3>2. new \in ActivityRow
      BY <2>2, <2>6, <3>1, TransactionShapes, WriteActivityType
      DEF StillTrue, Exists, IInv, TypeOK
    <3>3. new = WriteActivity(activity[t.id], t.data)' BY <3>1 DEF WriteActivity, Given
    <3>4. HasItsRoom(new)' BY <2>2, <2>4, <2>6, <3>1, <3>2 DEF StillTrue
    <3> QED BY <2>1, <2>2, <2>6, <3>3, <3>4 DEF StillTrue, Exists, ProgramIsActive
  <2>7. CASE t.op # "updateActivity"
    BY <2>1, <2>2, <2>3, <2>5, <2>7, TransactionShapes
    DEF StillTrue, Exists, ProgramIsActive
  <2> QED BY <2>6, <2>7
<1> QED BY <1>2, <1>3 DEF SeqInv

-----------------------------------------------------------------------------
(* The reads of a request establish what must still be true. *)

\* With one worker, only the request that begins is in flight.
LEMMA BeginsTrue ==
  ASSUME OneWorker, IInv, SeqInv, NEW w \in Workers, NEW t, StillTrue(t), Begin(w, t)
  PROVE  SeqInv'
<1>1. UNCHANGED <<unit, program, activity, classroom, now>> BY DEF Begin, tables
<1>2. \A v \in Workers : tx'[v] = t BY DEF Begin, IInv, TypeOK, OneWorker
<1>3. StillTrue(t)'
  BY <1>1 DEF StillTrue, Exists, ProgramIsActive, HasItsRoom, NothingIsToCome,
              activitiesOf, ReservedFromNow
<1>4. RowsAreQuiet' BY <1>1 DEF SeqInv, RowsAreQuiet, Exists, Closed, isDefault
<1>5. ASSUME NEW v \in Workers PROVE StillTrue(tx[v])'
  <2>1. PICK u : u = tx'[v] /\ u = t BY <1>2
  <2> QED BY <1>3, <2>1 DEF StillTrue
<1> QED BY <1>4, <1>5 DEF SeqInv

\* An activity that is published, or has its room, finds the room in use.
LEMMA UpdateBeginsTrue ==
  ASSUME IInv, SeqInv, NEW w \in Workers, NEW a \in Activities,
         NEW input \in ActivityPatches, BeginUpdateActivity(w, a, input)
  PROVE  StillTrue([op |-> "updateActivity", id |-> a,
                    data |-> UpdateData(activity[a], input)])
<1> DEFINE row    == activity[a]
           data   == UpdateData(row, input)
           new    == WriteActivity(row, data)
           shown  == resolveActivityStatus(row, now)
           status == Given(input.status, shown)
<1>1. /\ row # Null /\ row \in ActivityRow /\ input \in ActivityPatch
      /\ shown \in {"DRAFT", "SCHEDULED"} /\ ProgramIsActive(row)
  BY InputAssumption
  DEF BeginUpdateActivity, MayBeModified, ProgramIsActive, IInv, TypeOK
<1>2. /\ row.status \in ActivityStatuses /\ row.status # "CANCELLED"
      /\ shown = "DRAFT" => row.status = "DRAFT"
      /\ shown = "SCHEDULED" => row.status \in PUBLISHED_ACTIVITY_STATUSES
  BY <1>1 DEF ActivityRow, resolveActivityStatus, ActivityStatuses,
              PUBLISHED_ACTIVITY_STATUSES
<1>3. status \in {"DRAFT", "SCHEDULED"} BY <1>1 DEF Given, ActivityPatch
<1>4. /\ data \in ActivityPatch
      /\ data.status = IF status = row.status THEN Undefined ELSE status
      /\ data.date = input.date /\ data.endTime = input.endTime
      /\ data.startTime = input.startTime /\ data.classroom = input.classroom
  BY <1>1, <1>3 DEF UpdateData, ActivityPatch
<1>5. /\ new \in ActivityRow /\ new.status = status
      /\ new.date = Given(input.date, row.date)
      /\ new.endTime = Given(input.endTime, row.endTime)
      /\ new.classroom = Given(input.classroom, row.classroom)
  <2>1. Given(data.status, row.status) = status
    BY <1>3, <1>4, NullAssumption DEF Given, ActivityStatuses
  <2> QED BY <1>1, <1>4, <2>1, WriteActivityType
<1>6. HasItsRoom(new)
  <2> SUFFICES ASSUME new.classroom # Null, ~classroom[new.classroom]
               PROVE  ~buildReservingActivityWhere(new, now)
    BY DEF HasItsRoom
  <2>1. CASE status = "DRAFT" BY <1>5, <2>1, UnpublishedIsQuiet
  <2>2. CASE RequiresBooking(row, input, status)
    <3>1. classroom[Given(input.classroom, row.classroom)]
      BY <1>1, <2>2
      DEF BeginUpdateActivity, assertActivityScheduleIsAvailable,
          assertClassroomIsAssignable, ActivityRow
    <3> QED BY <1>5, <3>1
  <2>3. CASE status = "SCHEDULED" /\ ~RequiresBooking(row, input, status)
    <3>1. /\ input.status = Undefined \/ input.status = row.status
          /\ input.date = Undefined /\ input.endTime = Undefined /\ input.classroom = Undefined
      BY <1>5, <2>3 DEF RequiresBooking, RESERVING_STATUSES
    <3>2. new.date = row.date /\ new.endTime = row.endTime /\ new.classroom = row.classroom
      BY <1>5, <3>1 DEF Given
    <3>3. row.status \in PUBLISHED_ACTIVITY_STATUSES
      BY <1>2, <2>3, <3>1 DEF Given, PUBLISHED_ACTIVITY_STATUSES
    <3>4. ~buildReservingActivityWhere(row, now)
      BY <1>1, <3>2 DEF SeqInv, RowsAreQuiet, Exists, Closed
    <3> HIDE DEF row, new
    <3> QED BY <3>2, <3>3, <3>4 DEF buildReservingActivityWhere
  <2> QED BY <1>3, <2>1, <2>2, <2>3
<1> QED BY <1>1, <1>2, <1>6 DEF StillTrue, Exists

\* Every other request.
LEMMA BeginShows ==
  ASSUME IInv, SeqInv, NEW w \in Workers,
         \/ \E input \in NewActivities : BeginCreateActivity(w, input)
         \/ \E a \in Activities, input \in ActivityPatches : BeginUpdateActivity(w, a, input)
         \/ \E a \in Activities, reason \in Reasons \cup {Null} :
              BeginCancelActivity(w, a, reason)
         \/ \E a \in Activities : BeginDeleteActivity(w, a)
         \/ \E u \in Units, range \in ProgramRanges :
              BeginCreateEventProgram(w, u, range[1], range[2])
         \/ \E p \in Programs, input \in ProgramPatches : BeginUpdateEventProgram(w, p, input)
         \/ \E p \in Programs : BeginArchiveEventProgram(w, p)
         \/ \E p \in Programs : BeginReactivateEventProgram(w, p)
         \/ \E u \in Units : \/ BeginCreateOrganizationalUnit(w, u)
                             \/ BeginDeactivateOrganizationalUnit(w, u)
                             \/ BeginReactivateOrganizationalUnit(w, u)
         \/ \E r \in Classrooms, isActive \in BOOLEAN : BeginUpdateClassroom(w, r, isActive)
  PROVE  \E t : StillTrue(t) /\ Begin(w, t)
<1>1. ASSUME NEW input \in NewActivities, BeginCreateActivity(w, input)
      PROVE  \E t : StillTrue(t) /\ Begin(w, t)
  BY <1>1 DEF BeginCreateActivity, StillTrue
<1>2. ASSUME NEW a \in Activities, NEW input \in ActivityPatches,
             BeginUpdateActivity(w, a, input)
      PROVE  \E t : StillTrue(t) /\ Begin(w, t)
  <2>1. Begin(w, [op |-> "updateActivity", id |-> a, data |-> UpdateData(activity[a], input)])
    BY <1>2 DEF BeginUpdateActivity
  <2> QED BY <1>2, <2>1, UpdateBeginsTrue
<1>3. ASSUME NEW a \in Activities, NEW reason \in Reasons \cup {Null},
             BeginCancelActivity(w, a, reason)
      PROVE  \E t : StillTrue(t) /\ Begin(w, t)
  <2> DEFINE t == [op |-> "cancelActivity", id |-> a, reason |-> reason]
  <2>1. /\ activity[a] # Null /\ activity[a].status # "CANCELLED"
        /\ ProgramIsActive(activity[a]) /\ Begin(w, t)
    BY <1>3 DEF BeginCancelActivity, MayBeCancelled, resolveActivityStatus, ProgramIsActive
  <2>2. StillTrue(t) BY <2>1 DEF StillTrue, Exists
  <2> QED BY <2>1, <2>2
<1>4. ASSUME NEW a \in Activities, BeginDeleteActivity(w, a)
      PROVE  \E t : StillTrue(t) /\ Begin(w, t)
  BY <1>4 DEF BeginDeleteActivity, StillTrue
<1>5. ASSUME NEW u \in Units, NEW range \in ProgramRanges,
             BeginCreateEventProgram(w, u, range[1], range[2])
      PROVE  \E t : StillTrue(t) /\ Begin(w, t)
  BY <1>5 DEF BeginCreateEventProgram, StillTrue
<1>6. ASSUME NEW p \in Programs, NEW input \in ProgramPatches,
             BeginUpdateEventProgram(w, p, input)
      PROVE  \E t : StillTrue(t) /\ Begin(w, t)
  BY <1>6 DEF BeginUpdateEventProgram, StillTrue
<1>7. ASSUME NEW p \in Programs, BeginArchiveEventProgram(w, p)
      PROVE  \E t : StillTrue(t) /\ Begin(w, t)
  <2>1. program[p] # Null /\ MayBeArchived(p) /\ Begin(w, [op |-> "archiveEventProgram", id |-> p])
    BY <1>7 DEF BeginArchiveEventProgram
  <2>2. ~isDefault(p)
    <3> SUFFICES ASSUME isDefault(p) PROVE FALSE OBVIOUS
    <3>1. Owner[p] \in Units /\ p = DefaultProgram[Owner[p]] BY DefaultPrograms DEF isDefault
    <3>2. unit[Owner[p]] \in {"NONE", "INACTIVE"}
      BY <2>1, <3>1 DEF MayBeArchived, IInv, TypeOK, UnitStates
    <3> QED BY <2>1, <3>1, <3>2 DEF MayBeArchived, IInv, DefaultProgramFollowsUnit
  <2>3. StillTrue([op |-> "archiveEventProgram", id |-> p])
    BY <2>1, <2>2 DEF StillTrue, MayBeArchived, NothingIsToCome
  <2> QED BY <2>1, <2>3
<1>8. ASSUME NEW p \in Programs, BeginReactivateEventProgram(w, p)
      PROVE  \E t : StillTrue(t) /\ Begin(w, t)
  BY <1>8 DEF BeginReactivateEventProgram, StillTrue
<1>9. ASSUME NEW u \in Units,
             BeginCreateOrganizationalUnit(w, u) \/ BeginReactivateOrganizationalUnit(w, u)
      PROVE  \E t : StillTrue(t) /\ Begin(w, t)
  BY <1>9 DEF BeginCreateOrganizationalUnit, BeginReactivateOrganizationalUnit, StillTrue
<1>10. ASSUME NEW u \in Units, BeginDeactivateOrganizationalUnit(w, u)
       PROVE  \E t : StillTrue(t) /\ Begin(w, t)
  <2>1. StillTrue([op |-> "deactivateOrganizationalUnit", id |-> u])
    BY <1>10
    DEF BeginDeactivateOrganizationalUnit, MayBeDeactivated, StillTrue, NothingIsToCome
  <2> QED BY <1>10, <2>1 DEF BeginDeactivateOrganizationalUnit
<1>11. ASSUME NEW r \in Classrooms, NEW isActive \in BOOLEAN,
              BeginUpdateClassroom(w, r, isActive)
       PROVE  \E t : StillTrue(t) /\ Begin(w, t)
  <2> DEFINE t == [op |-> "updateClassroom", id |-> r, isActive |-> isActive]
  <2>1. ~isActive => ~ReservedFromNow(r)
    <3>1. InactiveClassroomsAreQuiet
      BY QuietRowsSuffice DEF IInv, SeqInv, ClosedIsQuiet
    <3> QED BY <1>11, <3>1 DEF BeginUpdateClassroom, InactiveClassroomsAreQuiet
  <2>2. StillTrue(t) BY <2>1 DEF StillTrue
  <2> QED BY <1>11, <2>2 DEF BeginUpdateClassroom
<1> QED BY <1>1, <1>2, <1>3, <1>4, <1>5, <1>6, <1>7, <1>8, <1>9, <1>10, <1>11

-----------------------------------------------------------------------------
(* The commits. *)

\* The step formulas of CancellationIsFinal and ArchivalFreezes.
CancelledStays ==
  \A a \in Activities : Exists(a) /\ activity[a].status = "CANCELLED" =>
    /\ activity'[a] # Null /\ activity'[a].status = "CANCELLED"
    /\ activity'[a].cancelReason = activity[a].cancelReason

ArchivedStays ==
  /\ \A a \in Activities :
       Exists(a) /\ program[activity[a].eventProgram].status = "ARCHIVED"
         => activity'[a] = activity[a]
  /\ \A p \in Programs :
       program[p] # Null /\ program[p].status = "ARCHIVED"
         => /\ program'[p].startDate = program[p].startDate
            /\ program'[p].endDate = program[p].endDate
  /\ \A p \in Programs :
       program[p] = Null /\ program'[p] # Null /\ ~isDefault(p) => unit[Owner[p]] = "ACTIVE"

\* What a step of the one worker does.
SeqStep == SeqInv' /\ CancelledStays /\ ArchivedStays

\* A commit of the one worker leaves no request in flight.
LEMMA LeavesNone ==
  ASSUME OneWorker, IInv, NEW w \in Workers, tx' = [tx EXCEPT ![w] = Null]
  PROVE  \A v \in Workers : tx'[v] = Null
BY DEF IInv, TypeOK, OneWorker

\* A commit that writes an activity neither cancelled nor archived.
LEMMA ActivityCommitQuiet ==
  ASSUME OneWorker, IInv, SeqInv, NEW w \in Workers, tx' = [tx EXCEPT ![w] = Null],
         NEW a \in Activities, NEW new, activity' = [activity EXCEPT ![a] = new],
         UNCHANGED <<unit, program, classroom, now>>,
         activity[a] # Null =>
           activity[a].status # "CANCELLED" /\ ProgramIsActive(activity[a]),
         new # Null /\ Closed(new) => ~buildReservingActivityWhere(new, now)
  PROVE  SeqStep
<1>1. /\ activity'[a] = new
      /\ \A b \in Activities : b # a => activity'[b] = activity[b]
  BY DEF IInv, TypeOK
<1>2. RowsAreQuiet'
  <2> SUFFICES ASSUME NEW b \in Activities, activity'[b] # Null, Closed(activity'[b])
               PROVE  ~buildReservingActivityWhere(activity'[b], now)
    BY DEF RowsAreQuiet, Exists, Closed, isDefault
  <2> QED BY <1>1 DEF SeqInv, RowsAreQuiet, Exists
<1>3. SeqInv' BY <1>2, LeavesNone DEF SeqInv
<1>4. CancelledStays BY <1>1 DEF CancelledStays, Exists
<1>5. ArchivedStays BY <1>1 DEF ArchivedStays, Exists, ProgramIsActive
<1> QED BY <1>3, <1>4, <1>5 DEF SeqStep

\* A commit that writes no activity, and closes only what is quiet.
LEMMA OtherCommitQuiet ==
  ASSUME OneWorker, IInv, SeqInv, NEW w \in Workers, tx' = [tx EXCEPT ![w] = Null],
         UNCHANGED <<activity, now>>,
         \A a \in Activities : Exists(a) /\ Closed(activity[a])' =>
           Closed(activity[a]) \/ ~buildReservingActivityWhere(activity[a], now),
         \A p \in Programs :
           /\ program[p] # Null /\ program[p].status = "ARCHIVED" =>
                /\ program'[p].startDate = program[p].startDate
                /\ program'[p].endDate = program[p].endDate
           /\ program[p] = Null /\ program'[p] # Null /\ ~isDefault(p)
                => unit[Owner[p]] = "ACTIVE"
  PROVE  SeqStep
<1>1. RowsAreQuiet' BY DEF SeqInv, RowsAreQuiet, Exists
<1>2. SeqInv' BY <1>1, LeavesNone DEF SeqInv
<1>3. CancelledStays BY DEF CancelledStays, Exists
<1>4. ArchivedStays BY DEF ArchivedStays
<1> QED BY <1>2, <1>3, <1>4 DEF SeqStep

\* The transaction about to run is what its reads established.
LEMMA CommitsTrue ==
  ASSUME IInv, SeqInv, NEW w \in Workers, NEW op, Commits(w, op)
  PROVE  \E t \in Transactions :
           /\ t = tx[w] /\ t.op = op /\ StillTrue(t) /\ Prepared(t)
           /\ tx' = [tx EXCEPT ![w] = Null] /\ UNCHANGED now
BY CommitsPrepared DEF SeqInv

\* A row whose program is active is closed only by its classroom.
LEMMA ActiveIsOpen ==
  ASSUME IInv, NEW row, row.eventProgram \in Programs, ProgramIsActive(row), Closed(row)
  PROVE  row.classroom # Null /\ ~classroom[row.classroom]
<1>1. isDefault(row.eventProgram) => unit[Owner[row.eventProgram]] # "INACTIVE"
  <2> SUFFICES ASSUME isDefault(row.eventProgram) PROVE unit[Owner[row.eventProgram]] # "INACTIVE"
    OBVIOUS
  <2>1. /\ Owner[row.eventProgram] \in Units
        /\ row.eventProgram = DefaultProgram[Owner[row.eventProgram]]
    BY DefaultPrograms DEF isDefault
  <2> QED BY <2>1 DEF IInv, DefaultProgramFollowsUnit, ProgramIsActive
<1> QED BY <1>1 DEF Closed, ProgramIsActive

\* Creation writes a draft at a new id, cancellation and deletion what no
\* longer reserves, an update what still has its room.
LEMMA ActivityRequestQuiet ==
  ASSUME OneWorker, IInv, LInv, SeqInv, NEW w \in Workers,
         \/ \E a \in Activities : CommitCreateActivity(w, a)
         \/ CommitUpdateActivity(w) \/ CommitCancelActivity(w) \/ CommitDeleteActivity(w)
  PROVE  SeqStep
<1>1. ASSUME NEW a \in Activities, CommitCreateActivity(w, a) PROVE SeqStep
  <2>1. PICK t \in Transactions : /\ t = tx[w] /\ Prepared(t) /\ t.op = "createActivity"
                                  /\ tx' = [tx EXCEPT ![w] = Null] /\ UNCHANGED now
    BY <1>1, CommitsTrue DEF CommitCreateActivity
  <2>2. ~buildReservingActivityWhere(t.row, now)
    BY <2>1, UnpublishedIsQuiet DEF Prepared
  <2>3. activity[a] = Null
    BY <1>1 DEF CommitCreateActivity, LInv, AuditMatchesStatus, Exists
  <2>4. /\ activity' = [activity EXCEPT ![a] = t.row]
        /\ UNCHANGED <<unit, program, classroom>>
    BY <1>1, <2>1 DEF CommitCreateActivity
  <2> QED BY <2>1, <2>2, <2>3, <2>4, ActivityCommitQuiet
<1>2. CASE CommitUpdateActivity(w)
  <2>1. PICK t \in Transactions : /\ t = tx[w] /\ StillTrue(t) /\ t.op = "updateActivity"
                                  /\ tx' = [tx EXCEPT ![w] = Null] /\ UNCHANGED now
    BY <1>2, CommitsTrue DEF CommitUpdateActivity
  <2>2. PICK new : new = WriteActivity(activity[t.id], t.data) OBVIOUS
  <2>3. /\ t.id \in Activities /\ activity[t.id] \in ActivityRow
        /\ new.eventProgram = activity[t.id].eventProgram /\ new.eventProgram \in Programs
        /\ activity[t.id].status # "CANCELLED" /\ ProgramIsActive(activity[t.id])
        /\ HasItsRoom(new)
    <3>1. t.id \in Activities /\ t.data \in ActivityPatch BY <2>1, TransactionShapes
    <3>2. activity[t.id] \in ActivityRow
      BY <2>1, <3>1 DEF StillTrue, Exists, IInv, TypeOK
    <3> QED BY <2>1, <2>2, <3>1, <3>2, WriteActivityType DEF StillTrue, ActivityRow
  <2>4. /\ activity' = [activity EXCEPT ![t.id] = new]
        /\ UNCHANGED <<unit, program, classroom>>
    BY <1>2, <2>1, <2>2 DEF CommitUpdateActivity
  <2>5. Closed(new) => ~buildReservingActivityWhere(new, now)
    BY <2>3, ActiveIsOpen DEF HasItsRoom, ProgramIsActive
  <2> QED BY <2>1, <2>3, <2>4, <2>5, ActivityCommitQuiet
<1>3. CASE CommitCancelActivity(w)
  <2>1. PICK t \in Transactions : /\ t = tx[w] /\ StillTrue(t) /\ t.op = "cancelActivity"
                                  /\ tx' = [tx EXCEPT ![w] = Null] /\ UNCHANGED now
    BY <1>3, CommitsTrue DEF CommitCancelActivity
  <2>2. PICK new : new = [activity[t.id] EXCEPT !.status = "CANCELLED", !.cancelReason = t.reason]
    OBVIOUS
  <2>3. /\ t.id \in Activities /\ new.status = "CANCELLED"
        /\ activity[t.id].status # "CANCELLED" /\ ProgramIsActive(activity[t.id])
    BY <2>1, <2>2, TransactionShapes DEF StillTrue, Exists, IInv, TypeOK, ActivityRow
  <2>4. /\ activity' = [activity EXCEPT ![t.id] = new]
        /\ UNCHANGED <<unit, program, classroom>>
    BY <1>3, <2>1, <2>2 DEF CommitCancelActivity
  <2>5. ~buildReservingActivityWhere(new, now) BY <2>3, UnpublishedIsQuiet
  <2> QED BY <2>1, <2>3, <2>4, <2>5, ActivityCommitQuiet
<1>4. CASE CommitDeleteActivity(w)
  <2>1. PICK t \in Transactions : /\ t = tx[w] /\ t.op = "deleteActivity"
                                  /\ tx' = [tx EXCEPT ![w] = Null] /\ UNCHANGED now
    BY <1>4, CommitsTrue DEF CommitDeleteActivity
  <2>2. /\ t.id \in Activities
        /\ activity[t.id].status # "CANCELLED" /\ ProgramIsActive(activity[t.id])
        /\ activity' = [activity EXCEPT ![t.id] = Null]
        /\ UNCHANGED <<unit, program, classroom>>
    BY <1>4, <2>1, TransactionShapes DEF CommitDeleteActivity, MayBeDeleted, ProgramIsActive
  <2> QED BY <2>1, <2>2, ActivityCommitQuiet
<1> QED BY <1>1, <1>2, <1>3, <1>4

\* Programs open or stay as they are, and close on what is quiet.
LEMMA ProgramRequestQuiet ==
  ASSUME OneWorker, IInv, LInv, SeqInv, NEW w \in Workers,
         \/ \E p \in Programs : CommitCreateEventProgram(w, p)
         \/ CommitUpdateEventProgram(w) \/ CommitArchiveEventProgram(w)
         \/ CommitReactivateEventProgram(w)
  PROVE  SeqStep
<1>0. ASSUME NEW p \in Programs, NEW new, program' = [program EXCEPT ![p] = new],
             tx' = [tx EXCEPT ![w] = Null], UNCHANGED <<activity, unit, classroom, now>>,
             new # Null,
             new.status = "ARCHIVED" => NothingIsToCome(p),
             program[p] # Null /\ program[p].status = "ARCHIVED" =>
               new.startDate = program[p].startDate /\ new.endDate = program[p].endDate,
             program[p] = Null /\ ~isDefault(p) => unit[Owner[p]] = "ACTIVE"
      PROVE  SeqStep
  <2>1. program'[p] = new /\ \A q \in Programs : q # p => program'[q] = program[q]
    BY <1>0 DEF IInv, TypeOK
  <2>2. ASSUME NEW a \in Activities, Exists(a), Closed(activity[a])'
        PROVE  Closed(activity[a]) \/ ~buildReservingActivityWhere(activity[a], now)
    <3>1. activity[a].eventProgram \in Programs BY <2>2 DEF Exists, IInv, TypeOK, ActivityRow
    <3>2. CASE activity[a].eventProgram = p /\ new.status = "ARCHIVED"
      BY <1>0, <2>2, <3>2 DEF NothingIsToCome, activitiesOf, Exists
    <3>3. CASE ~(activity[a].eventProgram = p /\ new.status = "ARCHIVED")
      BY <1>0, <2>1, <2>2, <3>1, <3>3 DEF Closed, isDefault
    <3> QED BY <3>2, <3>3
  <2> QED BY <1>0, <2>1, <2>2, OtherCommitQuiet
<1>1. ASSUME NEW p \in Programs, CommitCreateEventProgram(w, p) PROVE SeqStep
  <2>1. PICK t \in Transactions : /\ t = tx[w] /\ StillTrue(t) /\ t.op = "createEventProgram"
                                  /\ tx' = [tx EXCEPT ![w] = Null] /\ UNCHANGED now
    BY <1>1, CommitsTrue DEF CommitCreateEventProgram
  <2>2. PICK new : new = [status |-> "DRAFT", startDate |-> t.startDate,
                          endDate |-> t.endDate, archived |-> FALSE]
    OBVIOUS
  <2>3. /\ program' = [program EXCEPT ![p] = new] /\ program[p] = Null
        /\ UNCHANGED <<activity, unit, classroom>>
        /\ Owner[p] = t.unit /\ new.status = "DRAFT"
    BY <1>1, <2>1, <2>2 DEF CommitCreateEventProgram, UpdatesProgram
  <2>4. new # Null
    <3>1. new \in ProgramRow
      BY <2>1, <2>2, TransactionShapes DEF ProgramRow, ProgramStatuses
    <3> QED BY <3>1, RowsAreNotNull
  <2>5. unit[Owner[p]] = "ACTIVE" BY <2>1, <2>3 DEF StillTrue
  <2> QED BY <1>0, <2>1, <2>3, <2>4, <2>5
<1>2. CASE CommitUpdateEventProgram(w)
  <2>1. PICK t \in Transactions : /\ t = tx[w] /\ StillTrue(t) /\ Prepared(t)
                                  /\ t.op = "updateEventProgram"
                                  /\ tx' = [tx EXCEPT ![w] = Null] /\ UNCHANGED now
    BY <1>2, CommitsTrue DEF CommitUpdateEventProgram
  <2>2. PICK new : new = WriteProgram(program[t.id], t.data) OBVIOUS
  <2>3. /\ t.id \in Programs /\ program[t.id] # Null /\ program[t.id].status # "ARCHIVED"
        /\ new # Null /\ new.status # "ARCHIVED"
    <3>1. t.id \in Programs /\ t.data \in ProgramPatch BY <2>1, TransactionShapes
    <3>2. program[t.id] \in ProgramRow /\ program[t.id].status # "ARCHIVED"
      BY <2>1, <3>1 DEF Prepared, StillTrue, IInv, TypeOK
    <3>3. new \in ProgramRow /\ new.status = Given(t.data.status, program[t.id].status)
      BY <2>2, <3>1, <3>2, WriteProgramType
    <3>4. new.status # "ARCHIVED" BY <3>1, <3>2, <3>3 DEF Given, ProgramPatch
    <3> QED BY <3>1, <3>2, <3>3, <3>4, RowsAreNotNull
  <2>4. /\ program' = [program EXCEPT ![t.id] = new]
        /\ UNCHANGED <<activity, unit, classroom>>
    BY <1>2, <2>1, <2>2 DEF CommitUpdateEventProgram, UpdatesProgram
  <2> QED BY <1>0, <2>1, <2>3, <2>4
<1>3. CASE CommitArchiveEventProgram(w)
  <2>1. PICK t \in Transactions : /\ t = tx[w] /\ StillTrue(t) /\ Prepared(t)
                                  /\ t.op = "archiveEventProgram"
                                  /\ tx' = [tx EXCEPT ![w] = Null] /\ UNCHANGED now
    BY <1>3, CommitsTrue DEF CommitArchiveEventProgram
  <2>2. PICK new : new = [program[t.id] EXCEPT !.status = "ARCHIVED", !.archived = TRUE]
    OBVIOUS
  <2>3. /\ t.id \in Programs /\ program[t.id] # Null /\ new # Null
        /\ new.startDate = program[t.id].startDate /\ new.endDate = program[t.id].endDate
    <3>1. t.id \in Programs /\ program[t.id] \in ProgramRow
      BY <2>1, TransactionShapes DEF Prepared, IInv, TypeOK
    <3>2. new \in ProgramRow BY <2>2, <3>1 DEF ProgramRow, ProgramStatuses
    <3> QED BY <2>2, <3>1, <3>2, RowsAreNotNull DEF ProgramRow
  <2>4. /\ program' = [program EXCEPT ![t.id] = new]
        /\ UNCHANGED <<activity, unit, classroom>>
    BY <1>3, <2>1, <2>2 DEF CommitArchiveEventProgram, UpdatesProgram
  <2>5. NothingIsToCome(t.id) BY <2>1 DEF StillTrue
  <2> QED BY <1>0, <2>1, <2>3, <2>4, <2>5
<1>4. CASE CommitReactivateEventProgram(w)
  <2>1. PICK t \in Transactions : /\ t = tx[w] /\ Prepared(t)
                                  /\ t.op = "reactivateEventProgram"
                                  /\ tx' = [tx EXCEPT ![w] = Null] /\ UNCHANGED now
    BY <1>4, CommitsTrue DEF CommitReactivateEventProgram
  <2>2. PICK new : new = [program[t.id] EXCEPT !.status = "ACTIVE", !.archived = FALSE]
    OBVIOUS
  <2>3. /\ t.id \in Programs /\ program[t.id] # Null /\ new # Null
        /\ new.status # "ARCHIVED"
        /\ new.startDate = program[t.id].startDate /\ new.endDate = program[t.id].endDate
    <3>1. t.id \in Programs /\ program[t.id] \in ProgramRow
      BY <2>1, TransactionShapes DEF Prepared, IInv, TypeOK
    <3>2. new \in ProgramRow BY <2>2, <3>1 DEF ProgramRow, ProgramStatuses
    <3> QED BY <2>2, <3>1, <3>2, RowsAreNotNull DEF ProgramRow
  <2>4. /\ program' = [program EXCEPT ![t.id] = new]
        /\ UNCHANGED <<activity, unit, classroom>>
    BY <1>4, <2>1, <2>2 DEF CommitReactivateEventProgram, UpdatesProgram
  <2> QED BY <1>0, <2>1, <2>3, <2>4
<1> QED BY <1>1, <1>2, <1>3, <1>4

\* A unit opens with its program, and closes on what is quiet.
LEMMA UnitRequestQuiet ==
  ASSUME OneWorker, IInv, SeqInv, NEW w \in Workers,
         \/ CommitCreateOrganizationalUnit(w)
         \/ CommitDeactivateOrganizationalUnit(w)
         \/ CommitReactivateOrganizationalUnit(w)
  PROVE  SeqStep
<1> DEFINE u == tx[w].id
           p == DefaultProgram[u]
<1>0. /\ u \in Units
      /\ tx' = [tx EXCEPT ![w] = Null] /\ UNCHANGED <<activity, now, classroom>>
  BY CommitsPrepared, TransactionShapes
  DEF CommitCreateOrganizationalUnit, CommitDeactivateOrganizationalUnit,
      CommitReactivateOrganizationalUnit
<1>1. /\ u \in Units /\ p \in Programs /\ isDefault(p) /\ Owner[p] = u
      /\ \A q \in Programs : isDefault(q) /\ Owner[q] = u => q = p
      /\ tx' = [tx EXCEPT ![w] = Null] /\ UNCHANGED <<activity, now, classroom>>
  BY <1>0, SchemaAssumption DEF isDefault
<1>2. /\ \A q \in Programs : q # p => program'[q] = program[q]
      /\ \A v \in Units : v # u => unit'[v] = unit[v]
      /\ program[p] # Null => /\ program'[p].startDate = program[p].startDate
                              /\ program'[p].endDate = program[p].endDate
      /\ unit'[u] = "ACTIVE" \/ (unit'[u] = "INACTIVE" /\ NothingIsToCome(p))
  <2>1. CASE CommitCreateOrganizationalUnit(w)
    <3>1. program[p] = Null
      BY <1>1, <2>1 DEF CommitCreateOrganizationalUnit, IInv, DefaultProgramFollowsUnit
    <3> QED BY <1>1, <2>1, <3>1 DEF CommitCreateOrganizationalUnit, IInv, TypeOK
  <2>2. CASE CommitDeactivateOrganizationalUnit(w)
    <3>1. NothingIsToCome(p)
      BY <2>2, CommitsTrue DEF CommitDeactivateOrganizationalUnit, StillTrue
    <3>2. program'[p] = [program[p] EXCEPT !.status = "ARCHIVED", !.archived = TRUE]
      BY <1>1, <2>2 DEF CommitDeactivateOrganizationalUnit, IInv, TypeOK
    <3>3. program[p] # Null => /\ program'[p].startDate = program[p].startDate
                               /\ program'[p].endDate = program[p].endDate
      BY <1>1, <3>2 DEF IInv, TypeOK, ProgramRow
    <3> QED BY <1>1, <2>2, <3>1, <3>3 DEF CommitDeactivateOrganizationalUnit, IInv, TypeOK
  <2>3. CASE CommitReactivateOrganizationalUnit(w)
    <3>1. /\ unit' = [unit EXCEPT ![u] = "ACTIVE"]
          /\ \/ program' = program
             \/ program' = [program EXCEPT ![p].status = "ACTIVE", ![p].archived = FALSE]
      BY <2>3 DEF CommitReactivateOrganizationalUnit, reactivate_default_event_program
    <3> HIDE DEF u, p
    <3>2. program[p] # Null => /\ program'[p].startDate = program[p].startDate
                               /\ program'[p].endDate = program[p].endDate
      BY <1>1, <3>1 DEF IInv, TypeOK, ProgramRow
    <3> QED BY <1>1, <3>1, <3>2 DEF IInv, TypeOK
  <2> QED BY <2>1, <2>2, <2>3
<1> HIDE DEF u, p
<1>3. ASSUME NEW a \in Activities, Exists(a), Closed(activity[a])'
      PROVE  Closed(activity[a]) \/ ~buildReservingActivityWhere(activity[a], now)
  <2>1. activity[a].eventProgram \in Programs BY <1>3 DEF Exists, IInv, TypeOK, ActivityRow
  <2>2. PICK q \in Programs : q = activity[a].eventProgram BY <2>1
  <2>3. CASE isDefault(q) /\ Owner[q] = u
    BY <1>1, <1>2, <1>3, <2>2, <2>3 DEF Closed, isDefault, NothingIsToCome, activitiesOf, Exists
  <2>4. CASE ~isDefault(q)
    <3>1. q # p BY <1>1, <2>4
    <3> QED BY <1>1, <1>2, <1>3, <2>2, <2>4, <3>1 DEF Closed, isDefault
  <2>5. CASE isDefault(q) /\ Owner[q] # u
    <3>1. Owner[q] \in Units BY DefaultPrograms
    <3> QED BY <1>1, <1>2, <1>3, <2>2, <2>5, <3>1 DEF Closed, isDefault
  <2> QED BY <2>3, <2>4, <2>5
<1>4. \A q \in Programs :
        /\ program[q] # Null /\ program[q].status = "ARCHIVED" =>
             /\ program'[q].startDate = program[q].startDate
             /\ program'[q].endDate = program[q].endDate
        /\ program[q] = Null /\ program'[q] # Null /\ ~isDefault(q)
             => unit[Owner[q]] = "ACTIVE"
  BY <1>1, <1>2
<1> QED BY <1>1, <1>3, <1>4, OtherCommitQuiet

\* A classroom leaves use when nothing in it is to come.
LEMMA ClassroomRequestQuiet ==
  ASSUME OneWorker, IInv, SeqInv, NEW w \in Workers, CommitUpdateClassroom(w)
  PROVE  SeqStep
<1>1. PICK t \in Transactions : /\ t = tx[w] /\ StillTrue(t) /\ t.op = "updateClassroom"
                                /\ tx' = [tx EXCEPT ![w] = Null] /\ UNCHANGED now
  BY CommitsTrue DEF CommitUpdateClassroom
<1>2. /\ t.id \in Classrooms /\ UNCHANGED <<activity, unit, program>>
      /\ classroom'[t.id] = t.isActive
      /\ \A r \in Classrooms : r # t.id => classroom'[r] = classroom[r]
  BY <1>1, TransactionShapes DEF CommitUpdateClassroom, IInv, TypeOK
<1>3. ASSUME NEW a \in Activities, Exists(a), Closed(activity[a])'
      PROVE  Closed(activity[a]) \/ ~buildReservingActivityWhere(activity[a], now)
  <2>1. activity[a].classroom \in Classrooms \cup {Null}
    BY <1>3 DEF Exists, IInv, TypeOK, ActivityRow
  <2>2. CASE activity[a].classroom = t.id /\ ~t.isActive
    BY <1>1, <1>3, <2>2 DEF StillTrue, ReservedFromNow, Exists
  <2>3. CASE ~(activity[a].classroom = t.id /\ ~t.isActive)
    BY <1>2, <1>3, <2>1, <2>3 DEF Closed, isDefault
  <2> QED BY <2>2, <2>3
<1> QED BY <1>1, <1>2, <1>3, OtherCommitQuiet

\* What does not write these tables keeps them as they are.
LEMMA StaysQuiet ==
  ASSUME UNCHANGED <<unit, program, activity>>
  PROVE  CancelledStays /\ ArchivedStays
BY DEF CancelledStays, ArchivedStays, Exists

\* Every step of the one worker.
LEMMA StepsQuiet ==
  ASSUME OneWorker, IInv, LInv, SeqInv, [Next]_vars
  PROVE  SeqStep
<1>1. ASSUME NEW w \in Workers, NEW t, StillTrue(t), Begin(w, t) PROVE SeqStep
  BY <1>1, BeginsTrue, StaysQuiet DEF SeqStep, Begin, tables
<1>2. ASSUME NEW w \in Workers, ActivityRequest(w) PROVE SeqStep
  BY <1>1, <1>2, BeginShows, ActivityRequestQuiet DEF ActivityRequest
<1>3. ASSUME NEW w \in Workers, ProgramRequest(w) PROVE SeqStep
  BY <1>1, <1>3, BeginShows, ProgramRequestQuiet DEF ProgramRequest
<1>4. ASSUME NEW w \in Workers, UnitRequest(w) PROVE SeqStep
  BY <1>1, <1>4, BeginShows, UnitRequestQuiet DEF UnitRequest
<1>5. ASSUME NEW w \in Workers, ClassroomRequest(w) PROVE SeqStep
  BY <1>1, <1>5, BeginShows, ClassroomRequestQuiet DEF ClassroomRequest
<1>6. ASSUME NEW w \in Workers, Rollback(w) PROVE SeqStep
  <2>1. /\ tx' = [tx EXCEPT ![w] = Null]
        /\ UNCHANGED <<unit, program, activity, classroom, now>>
    BY <1>6 DEF Rollback, tables
  <2>2. RowsAreQuiet' BY <2>1 DEF SeqInv, RowsAreQuiet, Exists, Closed, isDefault
  <2> QED BY <2>1, <2>2, LeavesNone, StaysQuiet DEF SeqInv, SeqStep
<1>7. CASE Tick \/ (\E a \in Activities : CreateAlert(a)) \/ UNCHANGED vars
  <2>1. /\ UNCHANGED <<unit, program, activity, classroom, tx>>
        /\ now' \in Nat /\ now <= now'
    BY <1>7 DEF Tick, CreateAlert, vars, tables, IInv, TypeOK
  <2> QED BY <2>1, TimePasses, StaysQuiet DEF SeqStep
<1> QED BY <1>2, <1>3, <1>4, <1>5, <1>6, <1>7 DEF Next

\* What one worker keeps of every reachable state.
LEMMA SeqInvAlways == ASSUME OneWorker PROVE Spec => []SeqInv
<1>1. Init => SeqInv BY DEF Init, SeqInv, RowsAreQuiet, Exists
<1>2. IInv /\ LInv /\ SeqInv /\ [Next]_vars => SeqInv' BY StepsQuiet DEF SeqStep
<1> QED BY <1>1, <1>2, IInvAlways, LInvAlways, PTL DEF Spec

(* Neither an archived program, nor the default program of an inactive     *)
(* unit, nor a classroom out of use holds anything still to happen         *)
(* (archiveEventProgram, deactivateOrganizationalUnit, updateClassroom and *)
(* the booking check of activities), when no other request commits between *)
(* the reads of a request and its transaction, whatever the clock does.    *)
THEOREM ClosedIsQuietAlone == ASSUME OneWorker PROVE Spec => []ClosedIsQuiet
<1>1. IInv /\ SeqInv => ClosedIsQuiet BY QuietRowsSuffice DEF IInv, SeqInv
<1> QED BY <1>1, SeqInvAlways, IInvAlways, PTL

(* A cancelled activity stays cancelled, for the reason first given        *)
(* (cancelActivity and updateActivity), when requests come one at a time.  *)
THEOREM CancellationIsFinalAlone == ASSUME OneWorker PROVE Spec => CancellationIsFinal
<1>1. IInv /\ LInv /\ SeqInv /\ [Next]_vars => CancelledStays BY StepsQuiet DEF SeqStep
<1>2. Spec => [][CancelledStays]_vars
  BY <1>1, SeqInvAlways, IInvAlways, LInvAlways, PTL DEF Spec
<1>3. CancelledStays =>
        /\ \A a \in Activities :
             Exists(a) /\ activity[a].status = "CANCELLED" =>
               activity'[a] # Null /\ activity'[a].status = "CANCELLED"
        /\ \A a \in Activities :
             Exists(a) /\ activity[a].status = "CANCELLED" =>
               activity'[a] # Null /\ activity'[a].cancelReason = activity[a].cancelReason
  BY DEF CancelledStays
<1> QED
  BY <1>2, <1>3, PTL DEF CancellationIsFinal, CancelledStaysCancelled, CancelReasonIsKept

(* The dates and the activities of an archived program stay as they are    *)
(* and an inactive unit gets no program (updateEventProgram, the services  *)
(* of activities, createEventProgram), when requests come one at a time.   *)
THEOREM ArchivalFreezesAlone == ASSUME OneWorker PROVE Spec => ArchivalFreezes
<1>1. IInv /\ LInv /\ SeqInv /\ [Next]_vars => ArchivedStays BY StepsQuiet DEF SeqStep
<1>2. Spec => [][ArchivedStays]_vars
  BY <1>1, SeqInvAlways, IInvAlways, LInvAlways, PTL DEF Spec
<1>3. ArchivedStays =>
        /\ \A a \in Activities :
             Exists(a) /\ program[activity[a].eventProgram].status = "ARCHIVED"
               => activity'[a] = activity[a]
        /\ \A p \in Programs :
             program[p] # Null /\ program[p].status = "ARCHIVED"
               => /\ program'[p].startDate = program[p].startDate
                  /\ program'[p].endDate = program[p].endDate
        /\ \A p \in Programs :
             program[p] = Null /\ program'[p] # Null /\ ~isDefault(p)
               => unit[Owner[p]] = "ACTIVE"
  BY DEF ArchivedStays
<1> QED
  BY <1>2, <1>3, PTL
  DEF ArchivalFreezes, ArchivedProgramsAreFrozen, ArchivedProgramsKeepTheirDates,
      ProgramsAreBornInActiveUnits
=============================================================================
