-------------------------- MODULE Accounts_proofs --------------------------
(***************************************************************************)
(* Proofs about module Accounts, for every set of users, careers, units,   *)
(* request bodies and requests in flight.                                  *)
(*                                                                         *)
(* Inv is what every interleaving keeps: the tables, and the little that   *)
(* stays true of a request in flight whatever the others commit (accounts  *)
(* are never deleted; nobody renames, moves or deletes the global career). *)
(* AloneInv is what requests keep that run one at a time: what a request   *)
(* decided from the rows it read is still so when it commits.              *)
(***************************************************************************)
EXTENDS Accounts, FiniteSetTheorems, TLAPS

-----------------------------------------------------------------------------
(* What the requests in flight hold. *)

ToldOf(columns) ==
  {changes \in UNION {[D -> UNION {columns[f] : f \in DOMAIN columns}] :
                        D \in SUBSET DOMAIN columns} : Tells(changes, columns)}

Told == ToldOf(UserColumns)
ToldOfCareer == ToldOf(CareerColumns)

\* What a request holds between two of its steps.
Handled ==
       [op : {"createCareer"}, row : CareerRow]
  \cup [op : {"updateCareer"}, id : Careers, data : CareerInput, changes : ToldOfCareer]
  \cup [op : {"deleteCareer", "deleteCareer counted"}, id : Careers]
  \cup [op : {"updateProfile"}, id : Users, data : Assignment, changes : Told]
  \cup [op : {"createUser", "registerUser"}, row : UserRow]
  \cup [op : {"updateAdminUser", "updateAdminUser revoked"}, id : Users, data : AdminData,
        changes : Told, revoked : SUBSET Sessions]

\* What the tables still are for a request in flight, whatever others commit.
Held(w) ==
  LET t == tx[w]
  IN  t # Null =>
        /\ t.op \in {"updateProfile", "updateAdminUser", "updateAdminUser revoked"} =>
             UserExists(t.id)
        /\ t.op = "updateCareer" /\ t.id = Otros =>
             t.data.code \in {OTROS, Undefined} /\ t.data.unitId \in {Null, Undefined}
        /\ t.op \in {"deleteCareer", "deleteCareer counted"} => t.id # Otros

\* The global career keeps its row, and no other one has its code.
Catalog ==
  /\ career \in [Careers -> CareerRow \cup {Null}]
  /\ career[Otros] = [code |-> OTROS, unitId |-> Null]
  /\ \A c, d \in Careers :
       CareerExists(c) /\ CareerExists(d) /\ career[c].code = career[d].code => c = d

People ==
  /\ user \in [Users -> UserRow \cup {Null}]
  /\ AccountsAreDistinct
  /\ CareersExist

\* An account that is not there has told nothing.
Log ==
  /\ DOMAIN told = Users \cup Careers
  /\ \A u \in Users : told[u] \in Told /\ (~UserExists(u) => DOMAIN told[u] = {})
  /\ \A c \in Careers : told[c] \in ToldOfCareer

Rest ==
  /\ activeUnits \subseteq Units
  /\ session \in [Sessions -> SessionRow \cup {Null}]
  /\ clients \in DOMAIN Clients

Inv ==
  /\ Rest
  /\ Catalog
  /\ People
  /\ Log
  /\ tx \in [Workers -> Handled \cup {Null}]
  /\ \A w \in Workers : Held(w)

LEMMA HandledShapes ==
  ASSUME NEW t \in Handled
  PROVE  /\ t.op = "createCareer" => t.row \in CareerRow
         /\ t.op = "updateCareer" =>
              t.id \in Careers /\ t.data \in CareerInput /\ t.changes \in ToldOfCareer
         /\ t.op \in {"deleteCareer", "deleteCareer counted"} => t.id \in Careers
         /\ t.op = "updateProfile" =>
              t.id \in Users /\ t.data \in Assignment /\ t.changes \in Told
         /\ t.op \in {"createUser", "registerUser"} => t.row \in UserRow
         /\ t.op \in {"updateAdminUser", "updateAdminUser revoked"} =>
              /\ t.id \in Users /\ t.data \in AdminData /\ t.changes \in Told
              /\ t.revoked \in SUBSET Sessions
         /\ t.op \in {"createCareer", "updateCareer", "deleteCareer", "deleteCareer counted",
                      "updateProfile", "createUser", "registerUser", "updateAdminUser",
                      "updateAdminUser revoked"}
BY DEF Handled

LEMMA GoingOn ==
  ASSUME Inv, NEW w \in Workers, ~Idle(w)
  PROVE  tx[w] \in Handled /\ tx[w] # Null /\ Held(w)
BY DEF Inv, Idle

LEMMA OtrosThere ==
  ASSUME Catalog
  PROVE  /\ CareerExists(Otros)
         /\ \A c \in Careers : CareerExists(c) /\ career[c].code = OTROS => c = Otros
<1>1. [code |-> OTROS, unitId |-> Null] \in CareerRow BY RegistryAssumption DEF CareerRow
<1>2. CareerExists(Otros) BY <1>1, RegistryAssumption DEF Catalog, CareerExists
<1> QED BY <1>2, RegistryAssumption DEF Catalog

LEMMA InvImpliesTables == ASSUME Inv PROVE AccountTables
<1>1. \A u \in Users : Tells(told[u], UserColumns) BY DEF Inv, Log, Told, ToldOf
<1>2. \A c \in Careers : Tells(told[c], CareerColumns) BY DEF Inv, Log, ToldOfCareer, ToldOf
<1>3. ASSUME NEW w \in Workers, tx[w] # Null PROVE CareerTxOK(tx[w]) \/ UserTxOK(tx[w])
  <2>1. tx[w] \in Handled BY <1>3 DEF Inv
  <2>2. tx[w].changes \in Told => Tells(tx[w].changes, UserColumns) BY DEF Told, ToldOf
  <2>3. tx[w].changes \in ToldOfCareer => Tells(tx[w].changes, CareerColumns)
    BY DEF ToldOfCareer, ToldOf
  <2> QED BY <2>1, <2>2, <2>3, HandledShapes DEF CareerTxOK, UserTxOK
<1>4. TypeOK BY <1>1, <1>2, <1>3 DEF TypeOK, Inv, Rest, Catalog, People
<1>5. OtrosStaysGlobal
  BY OtrosThere, RegistryAssumption DEF OtrosStaysGlobal, Inv, Catalog
<1> QED BY <1>4, <1>5 DEF AccountTables, Inv, People

LEMMA SentTyped ==
  ASSUME clients \in DOMAIN Clients
  PROVE  /\ Sent.careerRows \subseteq CareerRow /\ Sent.careerInputs \subseteq CareerInput
         /\ Sent.profiles \subseteq AssignmentInput /\ Sent.accounts \subseteq AccountInput
         /\ Sent.adminInputs \subseteq AdminInput /\ Sent.movable \subseteq Units
         /\ Sent.inFlight \in Nat
BY AccountsAssumption DEF Sent

\* What an event takes from a typed record is typed.
LEMMA ChangedTells ==
  ASSUME NEW columns, NEW before, NEW after,
         \A f \in DOMAIN after :
           after[f] # Undefined => f \in DOMAIN columns /\ after[f] \in columns[f]
  PROVE  Changed(before, after) \in ToldOf(columns)
<1> DEFINE D == {f \in DOMAIN after : after[f] # Undefined /\ after[f] # before[f]}
           changes == Changed(before, after)
<1>1. changes = [f \in D |-> after[f]] BY DEF Changed
<1>2. \A f \in D : f \in DOMAIN columns /\ after[f] \in columns[f] OBVIOUS
<1> HIDE DEF D, changes
<1>3. Tells(changes, columns) BY <1>1, <1>2 DEF Tells
<1>4. changes \in [D -> UNION {columns[f] : f \in DOMAIN columns}] BY <1>1, <1>2
<1>5. D \in SUBSET DOMAIN columns BY <1>2
<1>6. changes \in ToldOf(columns) BY <1>3, <1>4, <1>5 DEF ToldOf
<1> QED BY <1>6 DEF changes

\* An event adds what it tells to what was told before.
LEMMA TellingTells ==
  ASSUME NEW columns, NEW old \in ToldOf(columns), NEW changes \in ToldOf(columns)
  PROVE  [field \in DOMAIN old \cup DOMAIN changes |->
            IF field \in DOMAIN changes THEN changes[field] ELSE old[field]] \in ToldOf(columns)
<1> DEFINE D == DOMAIN old \cup DOMAIN changes
           new == [field \in D |->
                     IF field \in DOMAIN changes THEN changes[field] ELSE old[field]]
<1>1. Tells(old, columns) /\ Tells(changes, columns) BY DEF ToldOf
<1>2. \A f \in D : f \in DOMAIN columns /\ new[f] \in columns[f] BY <1>1 DEF Tells
<1>3. DOMAIN new = D OBVIOUS
<1>4. new = [f \in D |-> new[f]] OBVIOUS
<1> HIDE DEF D, new
<1>5. Tells(new, columns) BY <1>2, <1>3 DEF Tells
<1>6. new \in [D -> UNION {columns[f] : f \in DOMAIN columns}] BY <1>2, <1>4
<1>7. D \in SUBSET DOMAIN columns BY <1>2
<1>8. new \in ToldOf(columns) BY <1>5, <1>6, <1>7 DEF ToldOf
<1> QED BY <1>8 DEF new, D

\* The log after an event about a user, and after one about a career.
LEMMA LogOfUser ==
  ASSUME Inv, NEW u \in Users, NEW changes \in Told, told' = Telling(u, changes),
         UserExists(u)', \A v \in Users : v # u => user'[v] = user[v]
  PROVE  Log'
<1>1. told'[u] \in Told BY TellingTells DEF Inv, Log, Telling, Told
<1>2. \A x \in Users \cup Careers : x # u => told'[x] = told[x] BY DEF Telling, Inv, Log
<1>3. DOMAIN told' = Users \cup Careers BY DEF Telling, Inv, Log
<1>4. \A c \in Careers : told'[c] \in ToldOfCareer
  BY <1>2, RegistryAssumption DEF Inv, Log
<1>5. \A v \in Users : told'[v] \in Told BY <1>1, <1>2 DEF Inv, Log
<1>6. \A v \in Users : ~UserExists(v)' => DOMAIN told'[v] = {}
  BY <1>2 DEF Inv, Log, UserExists
<1> QED BY <1>3, <1>4, <1>5, <1>6 DEF Log

LEMMA LogOfCareer ==
  ASSUME Inv, NEW c \in Careers, NEW changes \in ToldOfCareer, told' = Telling(c, changes),
         UNCHANGED user
  PROVE  Log'
<1>1. told'[c] \in ToldOfCareer BY TellingTells DEF Inv, Log, Telling, ToldOfCareer
<1>2. \A x \in Users \cup Careers : x # c => told'[x] = told[x] BY DEF Telling, Inv, Log
<1>3. DOMAIN told' = Users \cup Careers BY DEF Telling, Inv, Log
<1>4. \A u \in Users : told'[u] = told[u] BY <1>2, RegistryAssumption
<1>5. \A d \in Careers : told'[d] \in ToldOfCareer BY <1>1, <1>2 DEF Inv, Log
<1> QED BY <1>3, <1>4, <1>5 DEF Inv, Log, UserExists

\* A step of one request: what the others hold, they go on holding.
LEMMA RequestStep ==
  ASSUME Inv, NEW w \in Workers, NEW t \in Handled \cup {Null}, tx' = [tx EXCEPT ![w] = t],
         Rest', Catalog', People', Log',
         \A u \in Users : UserExists(u) => UserExists(u)',
         Held(w)'
  PROVE  Inv'
<1>1. tx' \in [Workers -> Handled \cup {Null}] BY DEF Inv
<1>2. ASSUME NEW v \in Workers, v # w PROVE Held(v)'
  <2>1. tx'[v] = tx[v] /\ Held(v) /\ tx[v] \in Handled \cup {Null} BY <1>2 DEF Inv
  <2>2. tx[v] # Null =>
          (tx[v].op \in {"updateProfile", "updateAdminUser", "updateAdminUser revoked"} =>
             tx[v].id \in Users)
    BY <2>1, HandledShapes
  <2> QED BY <2>1, <2>2 DEF Held
<1> QED BY <1>1, <1>2 DEF Inv

\* A request begins, moves on, or is lost, and the tables stay as they are.
LEMMA QuietStep ==
  ASSUME Inv, NEW w \in Workers, NEW t \in Handled \cup {Null}, tx' = [tx EXCEPT ![w] = t],
         UNCHANGED <<career, user, session, told, clients>>, activeUnits' \subseteq Units,
         Held(w)'
  PROVE  Inv'
<1>1. Rest' BY DEF Inv, Rest
<1>2. Catalog' BY DEF Inv, Catalog, CareerExists
<1>3. People' BY DEF Inv, People, AccountsAreDistinct, CareersExist, UserExists, CareerExists
<1>4. Log' BY DEF Inv, Log, UserExists
<1>5. \A u \in Users : UserExists(u) => UserExists(u)' BY DEF UserExists
<1> QED BY <1>1, <1>2, <1>3, <1>4, <1>5, RequestStep

\* The transaction is over.
LEMMA CommitStep ==
  ASSUME Inv, NEW w \in Workers, tx' = [tx EXCEPT ![w] = Null],
         Rest', Catalog', People', Log',
         \A u \in Users : UserExists(u) => UserExists(u)'
  PROVE  Inv'
<1>1. Held(w)' BY DEF Held, Inv
<1> QED BY <1>1, RequestStep

-----------------------------------------------------------------------------
(* Careers. *)

LEMMA CreateCareerKeeps ==
  ASSUME Inv, NEW w \in Workers
  PROVE  /\ \A actor \in Users, row \in Sent.careerRows : BeginCreateCareer(w, actor, row) => Inv'
         /\ \A c \in Careers : CommitCreateCareer(w, c) => Inv'
<1>1. ASSUME NEW actor \in Users, NEW row \in Sent.careerRows, BeginCreateCareer(w, actor, row)
      PROVE  Inv'
  <2> DEFINE t == [op |-> "createCareer", row |-> row]
  <2>1. row \in CareerRow BY SentTyped DEF Inv, Rest
  <2>2. tx' = [tx EXCEPT ![w] = t] /\ UNCHANGED registry
    BY <1>1 DEF BeginCreateCareer, Begin
  <2>3. t \in Handled /\ t.op = "createCareer" BY <2>1 DEF Handled
  <2> HIDE DEF t
  <2>4. Held(w)' BY <2>2, <2>3 DEF Held, Inv
  <2> QED BY <2>2, <2>3, <2>4, QuietStep DEF registry, Inv, Rest
<1>2. ASSUME NEW c \in Careers, CommitCreateCareer(w, c) PROVE Inv'
  <2>1. /\ tx[w] \in Handled /\ tx[w].op = "createCareer"
        /\ tx' = [tx EXCEPT ![w] = Null] /\ UNCHANGED <<activeUnits, user, session, clients>>
    BY <1>2, GoingOn DEF CommitCreateCareer, Commits
  <2> DEFINE row == tx[w].row
  <2>2. row \in CareerRow BY <2>1, HandledShapes
  <2>3. /\ ~CareerExists(c) /\ careers_code_key(c, row.code)
        /\ career' = [career EXCEPT ![c] = row] /\ told' = Telling(c, row)
    BY <1>2 DEF CommitCreateCareer
  <2> HIDE DEF row
  <2>4. row \in ToldOfCareer
    <3>1. Tells(row, CareerColumns) BY <2>2 DEF CareerRow, CareerColumns, Tells
    <3>2. DOMAIN row \in SUBSET DOMAIN CareerColumns BY <2>2 DEF CareerRow, CareerColumns
    <3>3. row \in [DOMAIN row -> UNION {CareerColumns[f] : f \in DOMAIN CareerColumns}]
      BY <2>2 DEF CareerRow, CareerColumns
    <3> QED BY <3>1, <3>2, <3>3 DEF ToldOfCareer, ToldOf
  <2>5. Log' BY <2>1, <2>3, <2>4, LogOfCareer
  <2>6. Catalog'
    <3>1. career' \in [Careers -> CareerRow \cup {Null}] BY <2>2, <2>3 DEF Inv, Catalog
    <3>2. c # Otros BY <2>3, OtrosThere DEF Inv
    <3>3. career'[Otros] = career[Otros] BY <2>3, <3>2, RegistryAssumption DEF Inv, Catalog
    <3>4. ASSUME NEW d \in Careers, NEW e \in Careers, CareerExists(d)', CareerExists(e)',
                 career'[d].code = career'[e].code
          PROVE  d = e
      BY <2>3, <3>4 DEF Inv, Catalog, CareerExists, careers_code_key
    <3> QED BY <3>1, <3>3, <3>4 DEF Inv, Catalog
  <2>7. \A d \in Careers : CareerExists(d) => CareerExists(d)'
    BY <2>2, <2>3, RegistryAssumption DEF CareerExists, Inv, Catalog
  <2>8. People'
    BY <2>1, <2>7 DEF Inv, People, AccountsAreDistinct, CareersExist, UserExists, UserRow
  <2> QED BY <2>1, <2>5, <2>6, <2>8, CommitStep DEF Inv, Rest, UserExists
<1> QED BY <1>1, <1>2

LEMMA UpdateCareerKeeps ==
  ASSUME Inv, NEW w \in Workers
  PROVE  /\ \A actor \in Users, c \in Careers, input \in Sent.careerInputs :
              BeginUpdateCareer(w, actor, c, input) => Inv'
         /\ CommitUpdateCareer(w) => Inv'
<1>1. ASSUME NEW actor \in Users, NEW c \in Careers, NEW input \in Sent.careerInputs,
             BeginUpdateCareer(w, actor, c, input)
      PROVE  Inv'
  <2> DEFINE changes == Changed(career[c], input)
             t == [op |-> "updateCareer", id |-> c, data |-> input, changes |-> changes]
  <2>1. input \in CareerInput BY SentTyped DEF Inv, Rest
  <2>2. tx' = [tx EXCEPT ![w] = t] /\ UNCHANGED registry /\ KeepsOtros(career[c], input)
    BY <1>1 DEF BeginUpdateCareer, Begin
  <2>3. changes \in ToldOfCareer
    <3>1. \A f \in DOMAIN input : input[f] # Undefined =>
            f \in DOMAIN CareerColumns /\ input[f] \in CareerColumns[f]
      BY <2>1 DEF CareerInput, CareerColumns
    <3> QED BY <3>1, ChangedTells DEF ToldOfCareer
  <2> HIDE DEF changes
  <2>4. t \in Handled /\ t.op = "updateCareer" /\ t.id = c /\ t.data = input
    BY <2>1, <2>3 DEF Handled
  <2> HIDE DEF t
  <2>5. c = Otros => input.code \in {OTROS, Undefined} /\ input.unitId \in {Null, Undefined}
    BY <2>2 DEF KeepsOtros, Inv, Catalog
  <2>6. Held(w)' BY <2>2, <2>4, <2>5 DEF Held, Inv
  <2> QED BY <2>2, <2>4, <2>6, QuietStep DEF registry, Inv, Rest
<1>2. ASSUME CommitUpdateCareer(w) PROVE Inv'
  <2>1. /\ tx[w] \in Handled /\ tx[w].op = "updateCareer" /\ Held(w) /\ tx[w] # Null
        /\ tx' = [tx EXCEPT ![w] = Null] /\ UNCHANGED <<activeUnits, user, session, clients>>
    BY <1>2, GoingOn DEF CommitUpdateCareer, Commits
  <2> DEFINE c == tx[w].id
             data == tx[w].data
             changes == tx[w].changes
             new == [code |-> Given(data.code, career[c].code),
                     unitId |-> Given(data.unitId, career[c].unitId)]
  <2>2. c \in Careers /\ data \in CareerInput /\ changes \in ToldOfCareer BY <2>1, HandledShapes
  <2>3. /\ CareerExists(c) /\ careers_code_key(c, new.code)
        /\ career' = [career EXCEPT ![c] = new] /\ told' = Telling(c, changes)
    BY <1>2 DEF CommitUpdateCareer
  <2>4. c = Otros => data.code \in {OTROS, Undefined} /\ data.unitId \in {Null, Undefined}
    BY <2>1 DEF Held
  <2> HIDE DEF c, data, changes
  <2>5. new \in CareerRow
    <3>1. career[c] \in CareerRow BY <2>2, <2>3 DEF CareerExists, Inv, Catalog
    <3> QED BY <2>2, <3>1 DEF CareerRow, CareerInput, Given
  <2>6. c = Otros => new = [code |-> OTROS, unitId |-> Null]
    BY <2>4 DEF Given, Inv, Catalog
  <2> HIDE DEF new
  <2>7. Log' BY <2>1, <2>2, <2>3, LogOfCareer
  <2>8. Catalog'
    <3>1. career' \in [Careers -> CareerRow \cup {Null}] BY <2>3, <2>5 DEF Inv, Catalog
    <3>2. career'[Otros] = [code |-> OTROS, unitId |-> Null]
      BY <2>3, <2>6, RegistryAssumption DEF Inv, Catalog
    <3>3. ASSUME NEW d \in Careers, NEW e \in Careers, CareerExists(d)', CareerExists(e)',
                 career'[d].code = career'[e].code
          PROVE  d = e
      BY <2>3, <3>3 DEF Inv, Catalog, CareerExists, careers_code_key
    <3> QED BY <3>1, <3>2, <3>3 DEF Inv, Catalog
  <2>9. \A d \in Careers : CareerExists(d) => CareerExists(d)'
    BY <2>3, <2>5, RegistryAssumption DEF CareerExists, Inv, Catalog
  <2>10. People'
    BY <2>1, <2>9 DEF Inv, People, AccountsAreDistinct, CareersExist, UserExists, UserRow
  <2> QED BY <2>1, <2>7, <2>8, <2>10, CommitStep DEF Inv, Rest, UserExists
<1> QED BY <1>1, <1>2

LEMMA DeleteCareerKeeps ==
  ASSUME Inv, NEW w \in Workers
  PROVE  /\ \A actor \in Users, c \in Careers : BeginDeleteCareer(w, actor, c) => Inv'
         /\ CountCareerUsers(w) => Inv'
         /\ CommitDeleteCareer(w) => Inv'
<1>1. ASSUME NEW actor \in Users, NEW c \in Careers, BeginDeleteCareer(w, actor, c) PROVE Inv'
  <2> DEFINE t == [op |-> "deleteCareer", id |-> c]
  <2>1. tx' = [tx EXCEPT ![w] = t] /\ UNCHANGED registry /\ career[c].code # OTROS
    BY <1>1 DEF BeginDeleteCareer, Begin
  <2>2. t \in Handled /\ t.op = "deleteCareer" /\ t.id = c BY DEF Handled
  <2> HIDE DEF t
  <2>3. c # Otros BY <2>1 DEF Inv, Catalog
  <2>4. Held(w)' BY <2>1, <2>2, <2>3 DEF Held, Inv
  <2> QED BY <2>1, <2>2, <2>4, QuietStep DEF registry, Inv, Rest
<1>2. ASSUME CountCareerUsers(w) PROVE Inv'
  <2> DEFINE t == [tx[w] EXCEPT !.op = "deleteCareer counted"]
  <2>1. tx[w] \in Handled /\ tx[w].op = "deleteCareer" /\ Held(w) /\ tx[w] # Null
    BY <1>2, GoingOn DEF CountCareerUsers
  <2>2. tx' = [tx EXCEPT ![w] = t] /\ UNCHANGED registry BY <1>2 DEF CountCareerUsers, Inv
  <2>3. t \in Handled /\ t.op = "deleteCareer counted" /\ t.id = tx[w].id BY <2>1 DEF Handled
  <2> HIDE DEF t
  <2>4. Held(w)' BY <2>1, <2>2, <2>3 DEF Held, Inv
  <2> QED BY <2>2, <2>3, <2>4, QuietStep DEF registry, Inv, Rest
<1>3. ASSUME CommitDeleteCareer(w) PROVE Inv'
  <2>1. /\ tx[w] \in Handled /\ tx[w].op = "deleteCareer counted" /\ Held(w) /\ tx[w] # Null
        /\ tx' = [tx EXCEPT ![w] = Null] /\ UNCHANGED <<activeUnits, session, told, clients>>
    BY <1>3, GoingOn DEF CommitDeleteCareer, Commits
  <2> DEFINE c == tx[w].id
  <2>2. c \in Careers /\ c # Otros BY <2>1, HandledShapes DEF Held
  <2>3. /\ career' = [career EXCEPT ![c] = Null]
        /\ user' = [u \in Users |->
             IF u \in UsersOf(c) THEN [user[u] EXCEPT !.careerId = Null] ELSE user[u]]
    BY <1>3 DEF CommitDeleteCareer
  <2> HIDE DEF c
  <2>4. \A u \in Users : UserExists(u)' <=> UserExists(u)
    BY <2>3, RegistryAssumption DEF UserExists, UsersOf, Inv, People, UserRow
  <2>5. ASSUME NEW u \in Users, UserExists(u)
        PROVE  /\ user'[u] \in UserRow
               /\ user'[u].email = user[u].email
               /\ user'[u].identificationNumber = user[u].identificationNumber
               /\ user'[u].careerId \in {Null, user[u].careerId} \ {c}
    <3>1. user[u] \in UserRow BY <2>5 DEF Inv, People, UserExists
    <3>2. Null \notin Careers BY RegistryAssumption
    <3>3. CASE u \in UsersOf(c) BY <2>2, <2>3, <3>1, <3>2, <3>3 DEF UserRow
    <3>4. CASE u \notin UsersOf(c)
      <4>1. user'[u] = user[u] BY <2>3, <3>4
      <4>2. user[u].careerId # c BY <2>5, <3>4 DEF UsersOf
      <4> QED BY <3>1, <4>1, <4>2
    <3> QED BY <3>3, <3>4
  <2>6. Catalog'
    <3>1. career' \in [Careers -> CareerRow \cup {Null}] BY <2>3 DEF Inv, Catalog
    <3>2. career'[Otros] = career[Otros] BY <2>2, <2>3, RegistryAssumption DEF Inv, Catalog
    <3>3. \A d \in Careers : CareerExists(d)' => career'[d] = career[d] /\ CareerExists(d)
      BY <2>3 DEF CareerExists, Inv, Catalog
    <3> QED BY <3>1, <3>2, <3>3 DEF Inv, Catalog
  <2>7. People'
    <3>1. user' \in [Users -> UserRow \cup {Null}]
      <4>1. \A u \in Users : user'[u] \in UserRow \cup {Null} BY <2>4, <2>5 DEF UserExists
      <4> QED BY <2>3, <4>1
    <3>2. AccountsAreDistinct' BY <2>4, <2>5 DEF Inv, People, AccountsAreDistinct
    <3>3. \A d \in Careers \ {c} : CareerExists(d) => CareerExists(d)'
      BY <2>3 DEF CareerExists, Inv, Catalog
    <3>4. CareersExist'
      <4> SUFFICES ASSUME NEW u \in Users, UserExists(u)', NEW k, k = user'[u].careerId, k # Null
                   PROVE  CareerExists(k)'
        BY DEF CareersExist
      <4>1. k = user[u].careerId /\ k # c /\ UserExists(u) BY <2>4, <2>5
      <4>2. CareerExists(k) /\ k \in Careers
        BY <4>1 DEF Inv, People, CareersExist, UserRow, UserExists
      <4> QED BY <3>3, <4>1, <4>2
    <3> QED BY <3>1, <3>2, <3>4 DEF People
  <2>8. Log' BY <2>1, <2>4 DEF Inv, Log
  <2> QED BY <2>1, <2>4, <2>6, <2>7, <2>8, CommitStep DEF Inv, Rest
<1> QED BY <1>1, <1>2, <1>3

-----------------------------------------------------------------------------
(* Accounts. *)

LEMMA ResolvedTyped ==
  ASSUME Inv, NEW u \in Users, NEW current \in {Null, user[u]}, NEW input,
         input.unitId \in Units \cup {Null, Undefined}, input.careerId \in Careers \cup {Undefined},
         AssignmentAllowed(input, current)
  PROVE  resolveOrganizationAssignment(input, current) \in Assignment
<1> DEFINE data == resolveOrganizationAssignment(input, current)
<1>1. CASE input.unitId = Null
  <2>1. otrosCareer # {} BY <1>1 DEF AssignmentAllowed
  <2>2. (CHOOSE c \in otrosCareer : TRUE) \in otrosCareer BY <2>1
  <2>3. otrosCareer \subseteq Careers BY DEF otrosCareer
  <2> QED BY <1>1, <2>2, <2>3 DEF resolveOrganizationAssignment, Assignment
<1>2. CASE input.unitId # Null
  <2>1. input.careerId # Undefined => career[input.careerId].unitId \in Units \cup {Null}
    BY <1>2 DEF AssignmentAllowed, CareerExists, Inv, Catalog, CareerRow
  <2> QED BY <1>2, <2>1 DEF resolveOrganizationAssignment, Assignment
<1> QED BY <1>1, <1>2

\* The row of an account after its assignment.
LEMMA AssignedTyped ==
  ASSUME NEW row \in UserRow, NEW data, data.unitId \in Units \cup {Null, Undefined},
         data.careerId \in Careers \cup {Null, Undefined}
  PROVE  /\ Assigned(row, data) \in UserRow
         /\ Assigned(row, data).email = row.email
         /\ Assigned(row, data).identificationNumber = row.identificationNumber
         /\ Assigned(row, data).globalRole = row.globalRole
         /\ Assigned(row, data).isActive = row.isActive
         /\ Assigned(row, data).unitId = Given(data.unitId, row.unitId)
         /\ Assigned(row, data).careerId = Given(data.careerId, row.careerId)
BY RegistryAssumption DEF Assigned, UserRow, Given

\* A row that keeps its address, its number and a career there is takes the place of the old one.
LEMMA PeopleMove ==
  ASSUME Inv, NEW u \in Users, UserExists(u), NEW new \in UserRow,
         new.email = user[u].email, new.identificationNumber = user[u].identificationNumber,
         users_career_id_fkey(new.careerId),
         user' = [user EXCEPT ![u] = new], UNCHANGED career
  PROVE  People' /\ \A v \in Users : UserExists(v)' <=> UserExists(v)
<1>1. \A v \in Users : UserExists(v)' <=> UserExists(v)
  BY RegistryAssumption DEF UserExists, Inv, People
<1>2. user' \in [Users -> UserRow \cup {Null}] BY DEF Inv, People
<1>3. \A v \in Users : UserExists(v) =>
        user'[v].email = user[v].email
          /\ user'[v].identificationNumber = user[v].identificationNumber
  BY DEF Inv, People
<1>4. AccountsAreDistinct' BY <1>1, <1>3 DEF AccountsAreDistinct, Inv, People
<1>5. CareersExist'
  BY <1>1 DEF CareersExist, Inv, People, users_career_id_fkey, CareerExists
<1> QED BY <1>1, <1>2, <1>4, <1>5 DEF People

\* A row with an address, a number and a career there is joins the others.
LEMMA PeopleJoin ==
  ASSUME Inv, NEW u \in Users, ~UserExists(u), NEW row \in UserRow, users_email_key(row),
         users_career_id_fkey(row.careerId), user' = [user EXCEPT ![u] = row], UNCHANGED career
  PROVE  /\ People' /\ UserExists(u)'
         /\ \A v \in Users : v # u => user'[v] = user[v]
<1>1. user' \in [Users -> UserRow \cup {Null}] BY DEF Inv, People
<1>2. \A v \in Users : v # u => user'[v] = user[v] BY DEF Inv, People
<1>3. UserExists(u)' BY RegistryAssumption DEF UserExists, Inv, People
<1>4. user'[u] = row BY DEF Inv, People
<1>5. AccountsAreDistinct'
  <2> SUFFICES ASSUME NEW a \in Users, NEW b \in Users, UserExists(a)', UserExists(b)', a # b
               PROVE  /\ user'[a].email # user'[b].email
                      /\ user'[a].identificationNumber # user'[b].identificationNumber
    BY DEF AccountsAreDistinct
  <2>1. CASE a = u BY <1>2, <1>4, <2>1 DEF users_email_key, UserExists
  <2>2. CASE b = u BY <1>2, <1>4, <2>2 DEF users_email_key, UserExists
  <2>3. CASE a # u /\ b # u BY <1>2, <2>3 DEF Inv, People, AccountsAreDistinct, UserExists
  <2> QED BY <2>1, <2>2, <2>3
<1>6. CareersExist'
  BY <1>2, <1>4 DEF CareersExist, Inv, People, users_career_id_fkey, CareerExists, UserExists
<1> QED BY <1>1, <1>2, <1>3, <1>5, <1>6 DEF People

LEMMA UpdateProfileKeeps ==
  ASSUME Inv, NEW w \in Workers
  PROVE  /\ \A u \in Users, input \in Sent.profiles : BeginUpdateProfile(w, u, input) => Inv'
         /\ CommitUpdateProfile(w) => Inv'
<1>1. ASSUME NEW u \in Users, NEW input \in Sent.profiles, BeginUpdateProfile(w, u, input)
      PROVE  Inv'
  <2> DEFINE data == resolveOrganizationAssignment(input, user[u])
             changes == Changed(user[u], data)
             t == [op |-> "updateProfile", id |-> u, data |-> data, changes |-> changes]
  <2>1. input \in AssignmentInput BY SentTyped DEF Inv, Rest
  <2>2. /\ UserExists(u) /\ AssignmentAllowed(input, user[u])
        /\ tx' = [tx EXCEPT ![w] = t] /\ UNCHANGED registry
    BY <1>1 DEF BeginUpdateProfile, Begin
  <2>3. data \in Assignment BY <2>1, <2>2, ResolvedTyped DEF AssignmentInput
  <2> HIDE DEF data
  <2>4. changes \in Told
    <3>1. \A f \in DOMAIN data : data[f] # Undefined =>
            f \in DOMAIN UserColumns /\ data[f] \in UserColumns[f]
      BY <2>3 DEF Assignment, UserColumns
    <3> QED BY <3>1, ChangedTells DEF Told
  <2> HIDE DEF changes
  <2>5. t \in Handled /\ t.op = "updateProfile" /\ t.id = u BY <2>3, <2>4 DEF Handled
  <2> HIDE DEF t
  <2>6. Held(w)' BY <2>2, <2>5 DEF Held, Inv, UserExists, registry
  <2> QED BY <2>2, <2>5, <2>6, QuietStep DEF registry, Inv, Rest
<1>2. ASSUME CommitUpdateProfile(w) PROVE Inv'
  <2>1. /\ tx[w] \in Handled /\ tx[w].op = "updateProfile" /\ Held(w) /\ tx[w] # Null
        /\ tx' = [tx EXCEPT ![w] = Null] /\ UNCHANGED <<activeUnits, career, session, clients>>
    BY <1>2, GoingOn DEF CommitUpdateProfile, Commits
  <2> DEFINE u == tx[w].id
             data == tx[w].data
             changes == tx[w].changes
             new == Assigned(user[u], data)
  <2>2. u \in Users /\ data \in Assignment /\ changes \in Told /\ UserExists(u)
    BY <2>1, HandledShapes DEF Held
  <2>3. /\ users_career_id_fkey(new.careerId)
        /\ user' = [user EXCEPT ![u] = new] /\ told' = Telling(u, changes)
    BY <1>2 DEF CommitUpdateProfile
  <2> HIDE DEF u, data, changes
  <2>4. user[u] \in UserRow BY <2>2 DEF Inv, People, UserExists
  <2>5. /\ new \in UserRow /\ new.email = user[u].email
        /\ new.identificationNumber = user[u].identificationNumber
    <3>1. /\ data.unitId \in Units \cup {Null, Undefined}
          /\ data.careerId \in Careers \cup {Null, Undefined}
      BY <2>2 DEF Assignment
    <3> QED BY <2>4, <3>1, AssignedTyped
  <2> HIDE DEF new
  <2>6. People' /\ \A v \in Users : UserExists(v)' <=> UserExists(v)
    BY <2>1, <2>2, <2>3, <2>5, PeopleMove
  <2>7. \A v \in Users : v # u => user'[v] = user[v] BY <2>3 DEF Inv, People
  <2>8. Log' BY <2>2, <2>3, <2>6, <2>7, LogOfUser
  <2>9. Catalog' BY <2>1 DEF Inv, Catalog, CareerExists
  <2> QED BY <2>1, <2>6, <2>8, <2>9, CommitStep DEF Inv, Rest
<1> QED BY <1>1, <1>2

LEMMA NewRowTyped ==
  ASSUME NEW input \in AccountInput, NEW unitId \in Units \cup {Null, Undefined},
         NEW careerId \in Careers \cup {Null, Undefined}
  PROVE  NewRow(input, "USER", Given(unitId, Null), Given(careerId, Null)) \in UserRow
BY DEF NewRow, Given, UserRow, AccountInput, GlobalRoles

LEMMA CreateUserKeeps ==
  ASSUME Inv, NEW w \in Workers
  PROVE  /\ \A actor \in Users, input \in Sent.accounts : BeginCreateUser(w, actor, input) => Inv'
         /\ \A u \in Users : CommitCreateUser(w, u) => Inv'
<1>1. ASSUME NEW actor \in Users, NEW input \in Sent.accounts, BeginCreateUser(w, actor, input)
      PROVE  Inv'
  <2> DEFINE data == resolveOrganizationAssignment(input, Null)
             row == NewRow(input, "USER", Given(data.unitId, Null), Given(data.careerId, Null))
             t == [op |-> "createUser", row |-> row]
  <2>1. input \in AccountInput BY SentTyped DEF Inv, Rest
  <2>2. /\ AssignmentAllowed(input, Null)
        /\ tx' = [tx EXCEPT ![w] = t] /\ UNCHANGED registry
    BY <1>1 DEF BeginCreateUser, Begin
  <2>3. data \in Assignment BY <2>1, <2>2, ResolvedTyped DEF AccountInput
  <2> HIDE DEF data
  <2>4. row \in UserRow BY <2>1, <2>3, NewRowTyped DEF Assignment
  <2> HIDE DEF row
  <2>5. t \in Handled /\ t.op = "createUser" BY <2>4 DEF Handled
  <2> HIDE DEF t
  <2>6. Held(w)' BY <2>2, <2>5 DEF Held, Inv
  <2> QED BY <2>2, <2>5, <2>6, QuietStep DEF registry, Inv, Rest
<1>2. ASSUME NEW u \in Users, CommitCreateUser(w, u) PROVE Inv'
  <2>1. /\ tx[w] \in Handled /\ tx[w].op = "createUser"
        /\ tx' = [tx EXCEPT ![w] = Null] /\ UNCHANGED <<activeUnits, career, session, clients>>
    BY <1>2, GoingOn DEF CommitCreateUser, Commits
  <2> DEFINE row == tx[w].row
             changes == [field \in {"globalRole", "isActive", "unitId", "careerId"} |-> row[field]]
  <2>2. row \in UserRow BY <2>1, HandledShapes
  <2>3. /\ ~UserExists(u) /\ users_email_key(row) /\ users_career_id_fkey(row.careerId)
        /\ user' = [user EXCEPT ![u] = row] /\ told' = Telling(u, changes)
    BY <1>2 DEF CommitCreateUser
  <2> HIDE DEF row
  <2>4. changes \in Told
    <3>1. \A f \in {"globalRole", "isActive", "unitId", "careerId"} :
            f \in DOMAIN UserColumns /\ row[f] \in UserColumns[f]
      BY <2>2 DEF UserRow, UserColumns
    <3>2. Tells(changes, UserColumns) BY <3>1 DEF Tells
    <3>3. {"globalRole", "isActive", "unitId", "careerId"} \in SUBSET DOMAIN UserColumns BY <3>1
    <3>4. changes \in [{"globalRole", "isActive", "unitId", "careerId"} ->
                         UNION {UserColumns[f] : f \in DOMAIN UserColumns}]
      BY <3>1
    <3> QED BY <3>2, <3>3, <3>4 DEF Told, ToldOf
  <2> HIDE DEF changes
  <2>5. People' /\ UserExists(u)' /\ \A v \in Users : v # u => user'[v] = user[v]
    BY <2>1, <2>2, <2>3, PeopleJoin
  <2>6. Log' BY <2>3, <2>4, <2>5, LogOfUser
  <2>7. Catalog' BY <2>1 DEF Inv, Catalog, CareerExists
  <2>8. \A v \in Users : UserExists(v) => UserExists(v)' BY <2>3, <2>5 DEF UserExists
  <2> QED BY <2>1, <2>5, <2>6, <2>7, <2>8, CommitStep DEF Inv, Rest
<1> QED BY <1>1, <1>2

LEMMA RegisterUserKeeps ==
  ASSUME Inv, NEW w \in Workers
  PROVE  /\ \A input \in Sent.accounts : BeginRegisterUser(w, input) => Inv'
         /\ \A u \in Users : CommitRegisterUser(w, u) => Inv'
<1>1. ASSUME NEW input \in Sent.accounts, BeginRegisterUser(w, input) PROVE Inv'
  <2> DEFINE row == NewRow(input, "USER", Given(input.unitId, Null), Given(input.careerId, Null))
             t == [op |-> "registerUser", row |-> row]
  <2>1. input \in AccountInput BY SentTyped DEF Inv, Rest
  <2>2. tx' = [tx EXCEPT ![w] = t] /\ UNCHANGED registry BY <1>1 DEF BeginRegisterUser, Begin
  <2>3. row \in UserRow BY <2>1, NewRowTyped DEF AccountInput
  <2> HIDE DEF row
  <2>4. t \in Handled /\ t.op = "registerUser" BY <2>3 DEF Handled
  <2> HIDE DEF t
  <2>5. Held(w)' BY <2>2, <2>4 DEF Held, Inv
  <2> QED BY <2>2, <2>4, <2>5, QuietStep DEF registry, Inv, Rest
<1>2. ASSUME NEW u \in Users, CommitRegisterUser(w, u) PROVE Inv'
  <2>1. /\ tx[w] \in Handled /\ tx[w].op = "registerUser"
        /\ tx' = [tx EXCEPT ![w] = Null]
        /\ UNCHANGED <<activeUnits, career, session, told, clients>>
    BY <1>2, GoingOn DEF CommitRegisterUser, Commits
  <2> DEFINE row == tx[w].row
  <2>2. row \in UserRow BY <2>1, HandledShapes
  <2>3. /\ ~UserExists(u) /\ users_email_key(row) /\ users_career_id_fkey(row.careerId)
        /\ user' = [user EXCEPT ![u] = row]
    BY <1>2 DEF CommitRegisterUser
  <2> HIDE DEF row
  <2>4. People' /\ UserExists(u)' /\ \A v \in Users : v # u => user'[v] = user[v]
    BY <2>1, <2>2, <2>3, PeopleJoin
  <2>5. Log' BY <2>1, <2>4 DEF Inv, Log, UserExists
  <2>6. Catalog' BY <2>1 DEF Inv, Catalog, CareerExists
  <2>7. \A v \in Users : UserExists(v) => UserExists(v)' BY <2>3, <2>4 DEF UserExists
  <2> QED BY <2>1, <2>4, <2>5, <2>6, <2>7, CommitStep DEF Inv, Rest
<1> QED BY <1>1, <1>2

LEMMA UpdateAdminUserKeeps ==
  ASSUME Inv, NEW w \in Workers
  PROVE  /\ \A actor, u \in Users, input \in Sent.adminInputs :
              BeginUpdateAdminUser(w, actor, u, input) => Inv'
         /\ RevokeSessions(w) => Inv'
         /\ CommitUpdateAdminUser(w) => Inv'
<1>1. ASSUME NEW actor \in Users, NEW u \in Users, NEW input \in Sent.adminInputs,
             BeginUpdateAdminUser(w, actor, u, input)
      PROVE  Inv'
  <2> DEFINE resolved == resolveOrganizationAssignment(input, user[u])
             data == [input EXCEPT !.unitId = resolved.unitId, !.careerId = resolved.careerId]
             changes == buildAdminUserAuditEvents(user[u], input)
             t == [op |-> "updateAdminUser", id |-> u, data |-> data, changes |-> changes,
                   revoked |-> {}]
  <2>1. input \in AdminInput BY SentTyped DEF Inv, Rest
  <2>2. /\ UserExists(u) /\ AssignmentAllowed(input, user[u])
        /\ tx' = [tx EXCEPT ![w] = t] /\ UNCHANGED registry
    BY <1>1 DEF BeginUpdateAdminUser, Begin
  <2>3. resolved \in Assignment BY <2>1, <2>2, ResolvedTyped DEF AdminInput
  <2> HIDE DEF resolved
  <2>4. data \in AdminData BY <2>1, <2>3 DEF AdminInput, AdminData, Assignment
  <2> HIDE DEF data
  <2>5. changes \in Told
    <3>1. \A f \in DOMAIN input : input[f] # Undefined =>
            f \in DOMAIN UserColumns /\ input[f] \in UserColumns[f]
      BY <2>1 DEF AdminInput, UserColumns
    <3> QED BY <3>1, ChangedTells DEF Told, buildAdminUserAuditEvents
  <2> HIDE DEF changes
  <2>6. t \in Handled /\ t.op = "updateAdminUser" /\ t.id = u BY <2>4, <2>5 DEF Handled
  <2> HIDE DEF t
  <2>7. Held(w)' BY <2>2, <2>6 DEF Held, Inv, UserExists, registry
  <2> QED BY <2>2, <2>6, <2>7, QuietStep DEF registry, Inv, Rest
<1>2. ASSUME RevokeSessions(w) PROVE Inv'
  <2> DEFINE others == SessionsOf(tx[w].id)
             t == [tx[w] EXCEPT !.op = "updateAdminUser revoked", !.revoked = others]
  <2>1. tx[w] \in Handled /\ tx[w].op = "updateAdminUser" /\ Held(w) /\ tx[w] # Null
    BY <1>2, GoingOn DEF RevokeSessions
  <2>2. tx' = [tx EXCEPT ![w] = t] /\ UNCHANGED registry BY <1>2 DEF RevokeSessions, Inv
  <2>3. others \in SUBSET Sessions BY DEF SessionsOf
  <2> HIDE DEF others
  <2>4. t \in Handled /\ t.op = "updateAdminUser revoked" /\ t.id = tx[w].id
    BY <2>1, <2>3 DEF Handled
  <2> HIDE DEF t
  <2>5. Held(w)' BY <2>1, <2>2, <2>4 DEF Held, Inv, UserExists, registry
  <2> QED BY <2>2, <2>4, <2>5, QuietStep DEF registry, Inv, Rest
<1>3. ASSUME CommitUpdateAdminUser(w) PROVE Inv'
  <2>1. /\ tx[w] \in Handled /\ tx[w].op \in {"updateAdminUser", "updateAdminUser revoked"}
        /\ Held(w) /\ tx[w] # Null
        /\ tx' = [tx EXCEPT ![w] = Null] /\ UNCHANGED <<activeUnits, career, clients>>
    BY <1>3, GoingOn DEF CommitUpdateAdminUser, Commits
  <2> DEFINE u == tx[w].id
             data == tx[w].data
             changes == tx[w].changes
             new == [Assigned(user[u], data) EXCEPT
                       !.globalRole = Given(data.globalRole, @),
                       !.isActive = Given(data.isActive, @)]
  <2>2. /\ u \in Users /\ data \in AdminData /\ changes \in Told /\ UserExists(u)
        /\ tx[w].revoked \in SUBSET Sessions
    BY <2>1, HandledShapes DEF Held
  <2>3. /\ users_career_id_fkey(new.careerId)
        /\ user' = [user EXCEPT ![u] = new] /\ told' = Telling(u, changes)
        /\ session' = Without(tx[w].revoked)
    BY <1>3 DEF CommitUpdateAdminUser
  <2> HIDE DEF u, data, changes
  <2>4. user[u] \in UserRow BY <2>2 DEF Inv, People, UserExists
  <2>5. /\ new \in UserRow /\ new.email = user[u].email
        /\ new.identificationNumber = user[u].identificationNumber
    <3>1. /\ data.unitId \in Units \cup {Null, Undefined}
          /\ data.careerId \in Careers \cup {Null, Undefined}
          /\ data.globalRole \in GlobalRoles \cup {Undefined}
          /\ data.isActive \in BOOLEAN \cup {Undefined}
      BY <2>2 DEF AdminData
    <3>2. PICK row \in UserRow : row = Assigned(user[u], data) BY <2>4, <3>1, AssignedTyped
    <3>3. Given(data.globalRole, row.globalRole) \in GlobalRoles
      BY <3>1, <3>2 DEF Given, UserRow
    <3>4. Given(data.isActive, row.isActive) \in BOOLEAN BY <3>1, <3>2 DEF Given, UserRow
    <3>5. new = [row EXCEPT !.globalRole = Given(data.globalRole, @),
                            !.isActive = Given(data.isActive, @)]
      BY <3>2
    <3>6. new \in UserRow BY <3>3, <3>4, <3>5 DEF UserRow
    <3>7. new.email = row.email /\ new.identificationNumber = row.identificationNumber
      BY <3>5 DEF UserRow
    <3> QED BY <2>4, <3>1, <3>2, <3>6, <3>7, AssignedTyped
  <2> HIDE DEF new
  <2>6. People' /\ \A v \in Users : UserExists(v)' <=> UserExists(v)
    BY <2>1, <2>2, <2>3, <2>5, PeopleMove
  <2>7. \A v \in Users : v # u => user'[v] = user[v] BY <2>3 DEF Inv, People
  <2>8. Log' BY <2>2, <2>3, <2>6, <2>7, LogOfUser
  <2>9. Catalog' BY <2>1 DEF Inv, Catalog, CareerExists
  <2>10. session' \in [Sessions -> SessionRow \cup {Null}]
    BY <2>3 DEF Without, Inv, Rest
  <2> QED BY <2>1, <2>6, <2>8, <2>9, <2>10, CommitStep DEF Inv, Rest
<1> QED BY <1>1, <1>2, <1>3

-----------------------------------------------------------------------------

LEMMA RequestKeeps ==
  ASSUME Inv, NEW w \in Workers
  PROVE  /\ CareerRequest(w) => Inv'
         /\ UserRequest(w) => Inv'
         /\ \A unit \in Sent.movable, active \in BOOLEAN : SetUnitActive(w, unit, active) => Inv'
         /\ Rollback(w) => Inv'
<1>1. CareerRequest(w) => Inv'
  BY CreateCareerKeeps, UpdateCareerKeeps, DeleteCareerKeeps DEF CareerRequest
<1>2. UserRequest(w) => Inv'
  BY UpdateProfileKeeps, CreateUserKeeps, RegisterUserKeeps, UpdateAdminUserKeeps DEF UserRequest
<1>3. ASSUME NEW unit \in Sent.movable, NEW active \in BOOLEAN, SetUnitActive(w, unit, active)
      PROVE  Inv'
  <2>1. activeUnits' \subseteq Units
    BY <1>3, SentTyped DEF SetUnitActive, Inv, Rest
  <2>2. tx' = [tx EXCEPT ![w] = Null] BY <1>3 DEF SetUnitActive, Accepts, Idle, Inv
  <2>3. Held(w)' BY <2>2 DEF Held, Inv
  <2> QED BY <1>3, <2>1, <2>2, <2>3, QuietStep DEF SetUnitActive
<1>4. ASSUME Rollback(w) PROVE Inv'
  <2>1. Held(w)' BY <1>4 DEF Rollback, Held, Inv
  <2> QED BY <1>4, <2>1, QuietStep DEF Rollback, registry, Inv, Rest
<1> QED BY <1>1, <1>2, <1>3, <1>4

LEMMA InvStep == Inv /\ [Next]_vars => Inv'
<1> SUFFICES ASSUME Inv, [Next]_vars PROVE Inv' OBVIOUS
<1>1. CASE Next BY <1>1, RequestKeeps DEF Next
<1>2. CASE UNCHANGED vars
  <2>1. UNCHANGED <<activeUnits, career, user, session, told, tx, clients>> BY <1>2 DEF vars
  <2>2. Rest' BY <2>1 DEF Inv, Rest
  <2>3. Catalog' BY <2>1 DEF Inv, Catalog, CareerExists
  <2>4. People' BY <2>1 DEF Inv, People, AccountsAreDistinct, CareersExist, UserExists, CareerExists
  <2>5. Log' BY <2>1 DEF Inv, Log, UserExists
  <2>6. \A w \in Workers : Held(w)' BY <2>1 DEF Inv, Held, UserExists
  <2> QED BY <2>1, <2>2, <2>3, <2>4, <2>5, <2>6 DEF Inv
<1> QED BY <1>1, <1>2

LEMMA InvInit == Init => Inv
<1> SUFFICES ASSUME Init PROVE Inv OBVIOUS
<1> USE DEF Init, RegistryInit
<1>1. Rest BY DEF Rest
<1>2. Catalog
  <2>1. [code |-> OTROS, unitId |-> Null] \in CareerRow BY RegistryAssumption DEF CareerRow
  <2>2. \A c \in Careers : CareerExists(c) => c = Otros BY DEF CareerExists
  <2> QED BY <2>1, <2>2, RegistryAssumption DEF Catalog
<1>3. People
  <2>1. \A u \in Users : UserExists(u) => u = Root BY DEF UserExists
  <2>2. user \in [Users -> UserRow \cup {Null}] BY AccountsAssumption
  <2>3. user[Root].careerId = Null BY RegistryAssumption, AccountsAssumption
  <2> QED BY <2>1, <2>2, <2>3 DEF People, AccountsAreDistinct, CareersExist
<1>4. Log
  <2>1. \A columns : Nothing \in ToldOf(columns)
    <3> TAKE columns
    <3>1. Nothing \in [{} -> UNION {columns[f] : f \in DOMAIN columns}] BY DEF Nothing
    <3>2. DOMAIN Nothing = {} BY DEF Nothing
    <3>3. Tells(Nothing, columns) BY <3>2 DEF Tells
    <3>4. {} \in SUBSET DOMAIN columns OBVIOUS
    <3> QED BY <3>1, <3>3, <3>4 DEF ToldOf
  <2>2. DOMAIN Nothing = {} BY DEF Nothing
  <2>3. \A x \in Users \cup Careers : told[x] = Nothing OBVIOUS
  <2> QED BY <2>1, <2>2, <2>3 DEF Log, Told, ToldOfCareer
<1>5. \A w \in Workers : Held(w) BY DEF Held
<1>6. tx \in [Workers -> Handled \cup {Null}] OBVIOUS
<1> QED BY <1>1, <1>2, <1>3, <1>4, <1>5, <1>6 DEF Inv

LEMMA InvAlways == Spec => []Inv
BY InvInit, InvStep, PTL DEF Spec

(***************************************************************************)
(* However sign-ups, updates of profiles and accounts, and edits of        *)
(* careers interleave: the global career is always there and global, nobody*)
(* has a career that is gone, and no address or identification number is   *)
(* registered twice (users.service.ts, careers.service.ts, the unique      *)
(* indexes and foreign keys of the schema).                                *)
(***************************************************************************)
THEOREM AccountTablesAlways == Spec => []AccountTables
BY InvAlways, InvImpliesTables, PTL

-----------------------------------------------------------------------------
(* Requests that run one at a time. *)

InFlight == {w \in Workers : ~Idle(w)}

\* Who is an active administrator, as a row.
Administers(row) == row.globalRole = "ADMIN" /\ row.isActive

\* The row has the career of another unit.
MisplacedRow(row) ==
  row.careerId # Null /\ unitOfCareer(row.careerId) \notin {Null, row.unitId}

\* What updateAdminUser is going to write about a role, or a status, is what it tells.
TellsOf(t, field) ==
  IF t.data[field] \in {Undefined, user[t.id][field]}
  THEN field \notin DOMAIN t.changes
  ELSE field \in DOMAIN t.changes /\ t.changes[field] = t.data[field]

\* What the tables still are for a request nothing interferes with.
Upheld(t) ==
  /\ t.op = "updateCareer" => MayMove(t.id, t.data)
  /\ t.op = "deleteCareer counted" => UsersOf(t.id) = {}
  /\ t.op = "createUser" => ~MisplacedRow(t.row)
  /\ t.op \in {"updateProfile", "updateAdminUser", "updateAdminUser revoked"} =>
       (MisplacedRow(Assigned(user[t.id], t.data)) => MisplacedRow(user[t.id]))
  /\ t.op = "updateProfile" => DOMAIN t.changes \cap {"globalRole", "isActive"} = {}
  /\ t.op \in {"updateAdminUser", "updateAdminUser revoked"} =>
       /\ removesActiveAdmin(t.id, t.data) => ActiveAdmins \ {t.id} # {}
       /\ TellsOf(t, "globalRole") /\ TellsOf(t, "isActive")

Kept(w) == Upheld(tx[w])

RolesTold ==
  \A u \in Users : \A field \in DOMAIN told[u] \cap {"globalRole", "isActive"} :
    told[u][field] = user[u][field]

AloneInv ==
  /\ IsFiniteSet(InFlight)
  /\ Alone => /\ ActiveAdmins # {}
              /\ RolesTold
              /\ \A w \in InFlight : InFlight = {w} /\ Kept(w)

LEMMA AcceptsAlone ==
  ASSUME AloneInv, Alone, NEW w \in Workers, Accepts(w)
  PROVE  InFlight = {}
<1>1. Cardinality(InFlight) \in Nat /\ Cardinality(InFlight) < 1
  BY FS_CardinalityType DEF AloneInv, Alone, Accepts, InFlight
<1>2. Cardinality(InFlight) = 0 BY <1>1
<1> QED BY <1>2, FS_EmptySet DEF AloneInv

\* A step leaves w alone in flight, or nobody.
LEMMA AloneStep ==
  ASSUME Inv, AloneInv, NEW w \in Workers, NEW t, tx' = [tx EXCEPT ![w] = t],
         UNCHANGED clients, Accepts(w) \/ ~Idle(w),
         Alone => ActiveAdmins' # {} /\ RolesTold' /\ (t # Null => Kept(w)')
  PROVE  AloneInv'
<1>1. InFlight' \subseteq InFlight \cup {w} BY DEF InFlight, Idle, Inv
<1>2. IsFiniteSet(InFlight \cup {w}) BY FS_AddElement DEF AloneInv
<1>3. IsFiniteSet(InFlight') BY <1>1, <1>2, FS_Subset
<1>4. Alone' <=> Alone BY DEF Alone, Sent
<1>5. ASSUME Alone, NEW v \in InFlight' PROVE InFlight' = {v} /\ Kept(v)'
  <2>1. InFlight \subseteq {w} BY <1>5, AcceptsAlone DEF AloneInv, InFlight
  <2>2. v = w /\ InFlight' = {w} BY <1>1, <1>5, <2>1
  <2>3. t # Null BY <1>5, <2>2 DEF InFlight, Idle, Inv
  <2> QED BY <1>5, <2>2, <2>3
<1> QED BY <1>3, <1>4, <1>5 DEF AloneInv

LEMMA AloneHolds ==
  ASSUME Inv, AloneInv, Alone, NEW w \in Workers, ~Idle(w)
  PROVE  /\ Kept(w) /\ Held(w) /\ tx[w] \in Handled /\ tx[w] # Null
         /\ ActiveAdmins # {} /\ RolesTold
BY GoingOn DEF AloneInv, InFlight

LEMMA UpheldStill ==
  ASSUME Inv, NEW w \in Workers, NEW t, tx' = [tx EXCEPT ![w] = t], UNCHANGED <<career, user>>,
         Upheld(t)
  PROVE  Kept(w)'
<1>1. tx'[w] = t BY DEF Inv
<1> QED BY <1>1 DEF Kept, Upheld, MayMove, UsersOf, UserExists, MisplacedRow, unitOfCareer,
                   Assigned, removesActiveAdmin, ActiveAdmins, TellsOf

\* A request that begins, or moves on, while accounts stay as they are.
LEMMA AloneQuiet ==
  ASSUME Inv, AloneInv, NEW w \in Workers, NEW t, tx' = [tx EXCEPT ![w] = t],
         UNCHANGED <<career, user, told, clients>>, Accepts(w) \/ ~Idle(w),
         Alone /\ t # Null => Upheld(t)
  PROVE  AloneInv'
<1>1. ActiveAdmins' = ActiveAdmins BY DEF ActiveAdmins, UserExists
<1>2. RolesTold' <=> RolesTold BY DEF RolesTold
<1>3. Alone => (t # Null => Kept(w)') BY UpheldStill
<1> QED BY <1>1, <1>2, <1>3, AloneStep DEF AloneInv

\* What an assignment resolves to leaves nobody with the career of another unit.
LEMMA ResolutionPlaces ==
  ASSUME Inv, NEW current \in UserRow \cup {Null}, NEW input,
         input.unitId \in Units \cup {Null, Undefined}, input.careerId \in Careers \cup {Undefined},
         AssignmentAllowed(input, current),
         NEW data, data = resolveOrganizationAssignment(input, current),
         NEW row, row.unitId = Given(data.unitId, currentUnit(current)),
         row.careerId = Given(data.careerId, IF current = Null THEN Null ELSE current.careerId),
         MisplacedRow(row)
  PROVE  current # Null /\ MisplacedRow(current)
<1>1. row.careerId # Null /\ unitOfCareer(row.careerId) \notin {Null, row.unitId}
  BY DEF MisplacedRow
<1>2. CASE input.unitId = Null
  <2>1. otrosCareer # {} BY <1>2 DEF AssignmentAllowed
  <2>2. (CHOOSE c \in otrosCareer : TRUE) \in otrosCareer BY <2>1
  <2>3. \A c \in otrosCareer : c = Otros BY OtrosThere DEF otrosCareer, Inv
  <2>4. data.careerId = Otros BY <1>2, <2>2, <2>3 DEF resolveOrganizationAssignment
  <2>5. row.careerId = Otros BY <2>4, RegistryAssumption DEF Given
  <2> QED BY <1>1, <2>5, RegistryAssumption DEF unitOfCareer, Inv, Catalog
<1>3. CASE input.unitId # Null /\ input.careerId # Undefined
  <2>1. row.careerId = input.careerId
    BY <1>3, RegistryAssumption DEF Given, resolveOrganizationAssignment
  <2>2. unitOfCareer(row.careerId) = career[input.careerId].unitId
    BY <1>1, <2>1 DEF unitOfCareer
  <2>3. CareerExists(input.careerId) /\ input.careerId \in Careers
    BY <1>3 DEF AssignmentAllowed
  <2>4. career[input.careerId].unitId \in Units \cup {Null}
    BY <2>3 DEF CareerExists, Inv, Catalog, CareerRow
  <2>5. CASE effectiveUnitId(input, current) = Null
    <3>1. data.unitId = career[input.careerId].unitId
      BY <1>1, <1>3, <2>2, <2>5 DEF resolveOrganizationAssignment
    <3>2. row.unitId = career[input.careerId].unitId
      BY <2>4, <3>1, RegistryAssumption DEF Given
    <3> QED BY <1>1, <2>2, <3>2
  <2>6. CASE effectiveUnitId(input, current) # Null
    <3>1. career[input.careerId].unitId \in {Null, effectiveUnitId(input, current)}
      BY <1>3, <2>6 DEF AssignmentAllowed
    <3>2. data.unitId = input.unitId BY <1>3, <2>6 DEF resolveOrganizationAssignment
    <3>3. row.unitId = effectiveUnitId(input, current) BY <3>2 DEF effectiveUnitId
    <3> QED BY <1>1, <2>2, <3>1, <3>3
  <2> QED BY <2>5, <2>6
<1>4. CASE input.unitId # Null /\ input.careerId = Undefined
  <2>1. data.unitId = input.unitId BY <1>4 DEF resolveOrganizationAssignment
  <2>2. current # Null
    <3> SUFFICES ASSUME current = Null PROVE FALSE OBVIOUS
    <3>1. data.careerId = Undefined BY <1>4 DEF resolveOrganizationAssignment
    <3> QED BY <1>1, <3>1 DEF Given
  <2>3. CASE data.careerId = Null BY <1>1, <2>3, RegistryAssumption DEF Given
  <2>4. CASE data.careerId # Null
    <3>1. /\ data.careerId = Undefined
          /\ input.unitId = Undefined \/ unitOfCareer(current.careerId) \in {Null, input.unitId}
      BY <1>4, <2>2, <2>4 DEF resolveOrganizationAssignment
    <3>2. row.careerId = current.careerId BY <2>2, <3>1 DEF Given
    <3>3. input.unitId # Undefined => row.unitId = input.unitId BY <2>1 DEF Given
    <3>4. input.unitId = Undefined => row.unitId = current.unitId
      BY <2>1, <2>2 DEF Given, currentUnit
    <3>5. input.unitId = Undefined BY <1>1, <3>1, <3>2, <3>3
    <3> QED BY <1>1, <2>2, <3>2, <3>4, <3>5 DEF MisplacedRow
  <2> QED BY <2>3, <2>4
<1> QED BY <1>2, <1>3, <1>4

LEMMA AloneCareers ==
  ASSUME Inv, AloneInv, NEW w \in Workers, CareerRequest(w)
  PROVE  AloneInv'
<1>1. ASSUME NEW actor \in Users, NEW row \in Sent.careerRows, BeginCreateCareer(w, actor, row)
      PROVE  AloneInv'
  <2> DEFINE t == [op |-> "createCareer", row |-> row]
  <2>1. tx' = [tx EXCEPT ![w] = t] /\ UNCHANGED registry /\ Accepts(w)
    BY <1>1 DEF BeginCreateCareer, Begin
  <2>2. t.op = "createCareer" OBVIOUS
  <2> HIDE DEF t
  <2>3. Upheld(t) BY <2>2 DEF Upheld
  <2> QED BY <2>1, <2>3, AloneQuiet DEF registry
<1>2. ASSUME NEW c \in Careers, CommitCreateCareer(w, c) PROVE AloneInv'
  <2>1. /\ ~Idle(w) /\ tx' = [tx EXCEPT ![w] = Null] /\ UNCHANGED <<user, clients>>
        /\ told' = Telling(c, tx[w].row)
    BY <1>2 DEF CommitCreateCareer, Commits
  <2>2. \A u \in Users : told'[u] = told[u]
    BY <2>1, RegistryAssumption DEF Telling, Inv, Log
  <2>3. RolesTold' <=> RolesTold BY <2>1, <2>2 DEF RolesTold
  <2>4. ActiveAdmins' = ActiveAdmins BY <2>1 DEF ActiveAdmins, UserExists
  <2> QED BY <2>1, <2>3, <2>4, AloneStep DEF AloneInv
<1>3. ASSUME NEW actor \in Users, NEW c \in Careers, NEW input \in Sent.careerInputs,
             BeginUpdateCareer(w, actor, c, input)
      PROVE  AloneInv'
  <2> DEFINE t == [op |-> "updateCareer", id |-> c, data |-> input,
                   changes |-> Changed(career[c], input)]
  <2>1. tx' = [tx EXCEPT ![w] = t] /\ UNCHANGED registry /\ Accepts(w) /\ MayMove(c, input)
    BY <1>3 DEF BeginUpdateCareer, Begin
  <2>2. t.op = "updateCareer" /\ t.id = c /\ t.data = input OBVIOUS
  <2> HIDE DEF t
  <2>3. Upheld(t) BY <2>1, <2>2 DEF Upheld
  <2> QED BY <2>1, <2>3, AloneQuiet DEF registry
<1>4. ASSUME CommitUpdateCareer(w) PROVE AloneInv'
  <2>1. /\ ~Idle(w) /\ tx' = [tx EXCEPT ![w] = Null] /\ UNCHANGED <<user, clients>>
        /\ told' = Telling(tx[w].id, tx[w].changes) /\ tx[w].op = "updateCareer"
    BY <1>4 DEF CommitUpdateCareer, Commits
  <2>2. tx[w].id \in Careers BY <2>1, GoingOn, HandledShapes
  <2>3. \A u \in Users : told'[u] = told[u]
    BY <2>1, <2>2, RegistryAssumption DEF Telling, Inv, Log
  <2>4. RolesTold' <=> RolesTold BY <2>1, <2>3 DEF RolesTold
  <2>5. ActiveAdmins' = ActiveAdmins BY <2>1 DEF ActiveAdmins, UserExists
  <2> QED BY <2>1, <2>4, <2>5, AloneStep DEF AloneInv
<1>5. ASSUME NEW actor \in Users, NEW c \in Careers, BeginDeleteCareer(w, actor, c)
      PROVE  AloneInv'
  <2> DEFINE t == [op |-> "deleteCareer", id |-> c]
  <2>1. tx' = [tx EXCEPT ![w] = t] /\ UNCHANGED registry /\ Accepts(w)
    BY <1>5 DEF BeginDeleteCareer, Begin
  <2>2. t.op = "deleteCareer" OBVIOUS
  <2> HIDE DEF t
  <2>3. Upheld(t) BY <2>2 DEF Upheld
  <2> QED BY <2>1, <2>3, AloneQuiet DEF registry
<1>6. ASSUME CountCareerUsers(w) PROVE AloneInv'
  <2> DEFINE t == [tx[w] EXCEPT !.op = "deleteCareer counted"]
  <2>1. /\ ~Idle(w) /\ tx[w].op = "deleteCareer" /\ UsersOf(tx[w].id) = {}
        /\ tx' = [tx EXCEPT ![w] = t] /\ UNCHANGED registry
    BY <1>6 DEF CountCareerUsers, Inv
  <2>2. t.op = "deleteCareer counted" /\ t.id = tx[w].id BY <2>1, GoingOn DEF Handled
  <2> HIDE DEF t
  <2>3. Upheld(t) BY <2>1, <2>2 DEF Upheld
  <2> QED BY <2>1, <2>3, AloneQuiet DEF registry
<1>7. ASSUME CommitDeleteCareer(w) PROVE AloneInv'
  <2>1. /\ ~Idle(w) /\ tx' = [tx EXCEPT ![w] = Null] /\ UNCHANGED <<told, clients>>
        /\ tx[w].op = "deleteCareer counted"
        /\ user' = [u \in Users |-> IF u \in UsersOf(tx[w].id)
                                    THEN [user[u] EXCEPT !.careerId = Null] ELSE user[u]]
    BY <1>7 DEF CommitDeleteCareer, Commits
  <2>2. ASSUME Alone PROVE user' = user
    <3>1. UsersOf(tx[w].id) = {} BY <2>1, <2>2, AloneHolds DEF Kept, Upheld
    <3> QED BY <2>1, <3>1 DEF Inv, People
  <2>3. Alone => (RolesTold' <=> RolesTold) BY <2>1, <2>2 DEF RolesTold
  <2>4. Alone => ActiveAdmins' = ActiveAdmins BY <2>2 DEF ActiveAdmins, UserExists
  <2> QED BY <2>1, <2>3, <2>4, AloneStep DEF AloneInv
<1> QED BY <1>1, <1>2, <1>3, <1>4, <1>5, <1>6, <1>7 DEF CareerRequest

\* The log and the table after one account was written.
LEMMA AccountStep ==
  ASSUME Inv, AloneInv, NEW w \in Workers, ~Idle(w), tx' = [tx EXCEPT ![w] = Null],
         UNCHANGED clients, NEW u \in Users, NEW new \in UserRow, user' = [user EXCEPT ![u] = new],
         \A v \in Users : v # u => told'[v] = told[v],
         Alone => \A field \in DOMAIN told'[u] \cap {"globalRole", "isActive"} :
                    told'[u][field] = new[field],
         Alone /\ u \in ActiveAdmins => Administers(new) \/ ActiveAdmins \ {u} # {}
  PROVE  AloneInv'
<1>1. user'[u] = new /\ \A v \in Users : v # u => user'[v] = user[v] BY DEF Inv, People
<1>2. ASSUME Alone PROVE RolesTold' BY <1>1, <1>2 DEF RolesTold, AloneInv
<1>3. ASSUME Alone PROVE ActiveAdmins' # {}
  <2>1. PICK a \in ActiveAdmins : TRUE BY <1>3 DEF AloneInv
  <2>2. ASSUME NEW b \in ActiveAdmins, b # u PROVE ActiveAdmins' # {}
    BY <1>1, <2>2 DEF ActiveAdmins, UserExists
  <2>3. CASE u \in ActiveAdmins /\ Administers(new)
    BY <1>1, <2>3, RegistryAssumption DEF ActiveAdmins, UserExists, Administers
  <2> QED BY <1>3, <2>1, <2>2, <2>3
<1> QED BY <1>2, <1>3, AloneStep

LEMMA AloneProfiles ==
  ASSUME Inv, AloneInv, NEW w \in Workers
  PROVE  /\ \A u \in Users, input \in Sent.profiles : BeginUpdateProfile(w, u, input) => AloneInv'
         /\ CommitUpdateProfile(w) => AloneInv'
<1>1. ASSUME NEW u \in Users, NEW input \in Sent.profiles, BeginUpdateProfile(w, u, input)
      PROVE  AloneInv'
  <2> DEFINE data == resolveOrganizationAssignment(input, user[u])
             changes == Changed(user[u], data)
             t == [op |-> "updateProfile", id |-> u, data |-> data, changes |-> changes]
  <2>1. /\ input.unitId \in Units \cup {Null, Undefined}
        /\ input.careerId \in Careers \cup {Undefined}
    BY SentTyped DEF Inv, Rest, AssignmentInput
  <2>2. /\ UserExists(u) /\ AssignmentAllowed(input, user[u]) /\ Accepts(w)
        /\ tx' = [tx EXCEPT ![w] = t] /\ UNCHANGED registry
    BY <1>1 DEF BeginUpdateProfile, Begin
  <2>3. data \in Assignment BY <2>1, <2>2, ResolvedTyped
  <2>4. user[u] \in UserRow /\ user[u] # Null BY <2>2 DEF Inv, People, UserExists
  <2>5. /\ data.unitId \in Units \cup {Null, Undefined}
        /\ data.careerId \in Careers \cup {Null, Undefined}
        /\ DOMAIN data = {"unitId", "careerId"}
    BY <2>3 DEF Assignment
  <2>6. MisplacedRow(Assigned(user[u], data)) => MisplacedRow(user[u])
    <3>1. PICK row : row = Assigned(user[u], data) OBVIOUS
    <3> HIDE DEF data
    <3>2. /\ row.unitId = Given(data.unitId, user[u].unitId)
          /\ row.careerId = Given(data.careerId, user[u].careerId)
      BY <2>4, <2>5, <3>1, AssignedTyped
    <3>3. currentUnit(user[u]) = user[u].unitId BY <2>4 DEF currentUnit
    <3>4. data = resolveOrganizationAssignment(input, user[u]) BY DEF data
    <3> QED BY <2>1, <2>2, <2>4, <3>1, <3>2, <3>3, <3>4, ResolutionPlaces
  <2> HIDE DEF data
  <2>7. DOMAIN changes \cap {"globalRole", "isActive"} = {} BY <2>5 DEF Changed
  <2> HIDE DEF changes
  <2>8. t.op = "updateProfile" /\ t.id = u /\ t.data = data /\ t.changes = changes OBVIOUS
  <2> HIDE DEF t
  <2>9. Upheld(t) BY <2>6, <2>7, <2>8 DEF Upheld
  <2> QED BY <2>2, <2>9, AloneQuiet DEF registry
<1>2. ASSUME CommitUpdateProfile(w) PROVE AloneInv'
  <2> DEFINE u == tx[w].id
             data == tx[w].data
             changes == tx[w].changes
             new == Assigned(user[u], data)
  <2>1. /\ ~Idle(w) /\ tx[w].op = "updateProfile" /\ UNCHANGED clients
        /\ tx' = [tx EXCEPT ![w] = Null] /\ user' = [user EXCEPT ![u] = new]
        /\ told' = Telling(u, changes)
    BY <1>2 DEF CommitUpdateProfile, Commits
  <2>2. /\ u \in Users /\ data \in Assignment /\ UserExists(u)
        /\ Alone => DOMAIN changes \cap {"globalRole", "isActive"} = {} /\ RolesTold
    BY <2>1, GoingOn, HandledShapes, AloneHolds DEF Held, Kept, Upheld
  <2> HIDE DEF u, data, changes
  <2>3. user[u] \in UserRow BY <2>2 DEF Inv, People, UserExists
  <2>4. /\ new \in UserRow /\ new.globalRole = user[u].globalRole
        /\ new.isActive = user[u].isActive
    <3>1. /\ data.unitId \in Units \cup {Null, Undefined}
          /\ data.careerId \in Careers \cup {Null, Undefined}
      BY <2>2 DEF Assignment
    <3> QED BY <2>3, <3>1, AssignedTyped
  <2> HIDE DEF new
  <2>5. \A v \in Users : v # u => told'[v] = told[v] BY <2>1, <2>2 DEF Telling, Inv, Log
  <2>6. ASSUME Alone, NEW field \in DOMAIN told'[u] \cap {"globalRole", "isActive"}
        PROVE  told'[u][field] = new[field]
    <3>1. field \in DOMAIN told[u] /\ told'[u][field] = told[u][field]
      BY <2>1, <2>2, <2>6 DEF Telling, Inv, Log
    <3>2. told[u][field] = user[u][field] BY <2>2, <2>6, <3>1 DEF RolesTold
    <3>3. new[field] = user[u][field] BY <2>4
    <3> QED BY <3>1, <3>2, <3>3
  <2>7. u \in ActiveAdmins => Administers(new) BY <2>4 DEF ActiveAdmins, Administers
  <2> QED BY <2>1, <2>2, <2>4, <2>5, <2>6, <2>7, AccountStep
<1> QED BY <1>1, <1>2

LEMMA AloneNewAccounts ==
  ASSUME Inv, AloneInv, NEW w \in Workers
  PROVE  /\ \A actor \in Users, input \in Sent.accounts :
              BeginCreateUser(w, actor, input) => AloneInv'
         /\ \A u \in Users : CommitCreateUser(w, u) => AloneInv'
         /\ \A input \in Sent.accounts : BeginRegisterUser(w, input) => AloneInv'
         /\ \A u \in Users : CommitRegisterUser(w, u) => AloneInv'
<1>1. ASSUME NEW actor \in Users, NEW input \in Sent.accounts, BeginCreateUser(w, actor, input)
      PROVE  AloneInv'
  <2> DEFINE data == resolveOrganizationAssignment(input, Null)
             row == NewRow(input, "USER", Given(data.unitId, Null), Given(data.careerId, Null))
             t == [op |-> "createUser", row |-> row]
  <2>1. /\ input.unitId \in Units \cup {Null, Undefined}
        /\ input.careerId \in Careers \cup {Undefined}
    BY SentTyped DEF Inv, Rest, AccountInput
  <2>2. /\ AssignmentAllowed(input, Null) /\ Accepts(w)
        /\ tx' = [tx EXCEPT ![w] = t] /\ UNCHANGED registry
    BY <1>1 DEF BeginCreateUser, Begin
  <2>3. row.unitId = Given(data.unitId, Null) /\ row.careerId = Given(data.careerId, Null)
    BY DEF NewRow
  <2>4. data = resolveOrganizationAssignment(input, Null) OBVIOUS
  <2> HIDE DEF data, row
  <2>5. currentUnit(Null) = Null BY DEF currentUnit
  <2>6. ~MisplacedRow(row) BY <2>1, <2>2, <2>3, <2>4, <2>5, ResolutionPlaces
  <2>7. t.op = "createUser" /\ t.row = row OBVIOUS
  <2> HIDE DEF t
  <2>8. Upheld(t) BY <2>6, <2>7 DEF Upheld
  <2> QED BY <2>2, <2>8, AloneQuiet DEF registry
<1>2. ASSUME NEW u \in Users, CommitCreateUser(w, u) PROVE AloneInv'
  <2> DEFINE row == tx[w].row
             changes == [field \in {"globalRole", "isActive", "unitId", "careerId"} |-> row[field]]
  <2>1. /\ ~Idle(w) /\ tx[w].op = "createUser" /\ UNCHANGED clients /\ ~UserExists(u)
        /\ tx' = [tx EXCEPT ![w] = Null] /\ user' = [user EXCEPT ![u] = row]
        /\ told' = Telling(u, changes)
    BY <1>2 DEF CommitCreateUser, Commits
  <2>2. row \in UserRow BY <2>1, GoingOn, HandledShapes
  <2> HIDE DEF row
  <2>3. \A v \in Users : v # u => told'[v] = told[v] BY <2>1 DEF Telling, Inv, Log
  <2>4. \A field \in DOMAIN told'[u] \cap {"globalRole", "isActive"} :
          told'[u][field] = row[field]
    BY <2>1 DEF Telling, Inv, Log
  <2>5. u \notin ActiveAdmins BY <2>1 DEF ActiveAdmins
  <2> QED BY <2>1, <2>2, <2>3, <2>4, <2>5, AccountStep
<1>3. ASSUME NEW input \in Sent.accounts, BeginRegisterUser(w, input) PROVE AloneInv'
  <2> DEFINE t == [op |-> "registerUser",
                   row |-> NewRow(input, "USER", Given(input.unitId, Null),
                                  Given(input.careerId, Null))]
  <2>1. tx' = [tx EXCEPT ![w] = t] /\ UNCHANGED registry /\ Accepts(w)
    BY <1>3 DEF BeginRegisterUser, Begin
  <2>2. t.op = "registerUser" OBVIOUS
  <2> HIDE DEF t
  <2>3. Upheld(t) BY <2>2 DEF Upheld
  <2> QED BY <2>1, <2>3, AloneQuiet DEF registry
<1>4. ASSUME NEW u \in Users, CommitRegisterUser(w, u) PROVE AloneInv'
  <2>1. /\ ~Idle(w) /\ tx[w].op = "registerUser" /\ UNCHANGED <<clients, told>> /\ ~UserExists(u)
        /\ tx' = [tx EXCEPT ![w] = Null] /\ user' = [user EXCEPT ![u] = tx[w].row]
    BY <1>4 DEF CommitRegisterUser, Commits
  <2>2. tx[w].row \in UserRow BY <2>1, GoingOn, HandledShapes
  <2>3. DOMAIN told'[u] = {} BY <2>1 DEF Inv, Log
  <2>4. u \notin ActiveAdmins BY <2>1 DEF ActiveAdmins
  <2> QED BY <2>1, <2>2, <2>3, <2>4, AccountStep
<1> QED BY <1>1, <1>2, <1>3, <1>4

\* The row updateAdminUser writes.
LEMMA AdministeredRow ==
  ASSUME NEW current \in UserRow, NEW data \in AdminData,
         NEW new, new = [Assigned(current, data) EXCEPT
                           !.globalRole = Given(data.globalRole, @),
                           !.isActive = Given(data.isActive, @)]
  PROVE  /\ new \in UserRow
         /\ new.globalRole = Given(data.globalRole, current.globalRole)
         /\ new.isActive = Given(data.isActive, current.isActive)
         /\ new.unitId = Assigned(current, data).unitId
         /\ new.careerId = Assigned(current, data).careerId
<1>1. /\ data.unitId \in Units \cup {Null, Undefined}
      /\ data.careerId \in Careers \cup {Null, Undefined}
      /\ data.globalRole \in GlobalRoles \cup {Undefined}
      /\ data.isActive \in BOOLEAN \cup {Undefined}
  BY DEF AdminData
<1>2. PICK row \in UserRow : row = Assigned(current, data) BY <1>1, AssignedTyped
<1>3. row.globalRole = current.globalRole /\ row.isActive = current.isActive
  BY <1>1, <1>2, AssignedTyped
<1>4. Given(data.globalRole, row.globalRole) \in GlobalRoles BY <1>1, <1>2 DEF Given, UserRow
<1>5. Given(data.isActive, row.isActive) \in BOOLEAN BY <1>1, <1>2 DEF Given, UserRow
<1>6. new = [row EXCEPT !.globalRole = Given(data.globalRole, @),
                        !.isActive = Given(data.isActive, @)]
  BY <1>2
<1>7. new \in UserRow BY <1>4, <1>5, <1>6 DEF UserRow
<1>8. /\ new.globalRole = Given(data.globalRole, row.globalRole)
      /\ new.isActive = Given(data.isActive, row.isActive)
      /\ new.unitId = row.unitId /\ new.careerId = row.careerId
  BY <1>6 DEF UserRow
<1> QED BY <1>2, <1>3, <1>7, <1>8

LEMMA AloneAdministration ==
  ASSUME Inv, AloneInv, NEW w \in Workers
  PROVE  /\ \A actor, u \in Users, input \in Sent.adminInputs :
              BeginUpdateAdminUser(w, actor, u, input) => AloneInv'
         /\ RevokeSessions(w) => AloneInv'
         /\ CommitUpdateAdminUser(w) => AloneInv'
<1>1. ASSUME NEW actor \in Users, NEW u \in Users, NEW input \in Sent.adminInputs,
             BeginUpdateAdminUser(w, actor, u, input)
      PROVE  AloneInv'
  <2> DEFINE resolved == resolveOrganizationAssignment(input, user[u])
             data == [input EXCEPT !.unitId = resolved.unitId, !.careerId = resolved.careerId]
             changes == buildAdminUserAuditEvents(user[u], input)
             t == [op |-> "updateAdminUser", id |-> u, data |-> data, changes |-> changes,
                   revoked |-> {}]
  <2>1. input \in AdminInput BY SentTyped DEF Inv, Rest
  <2>2. /\ UserExists(u) /\ AssignmentAllowed(input, user[u]) /\ Accepts(w)
        /\ removesActiveAdmin(u, input) => ActiveAdmins \ {u} # {}
        /\ tx' = [tx EXCEPT ![w] = t] /\ UNCHANGED registry
    BY <1>1 DEF BeginUpdateAdminUser, Begin
  <2>3. /\ input.unitId \in Units \cup {Null, Undefined}
        /\ input.careerId \in Careers \cup {Undefined}
    BY <2>1 DEF AdminInput
  <2>4. resolved \in Assignment BY <2>2, <2>3, ResolvedTyped
  <2>5. resolved = resolveOrganizationAssignment(input, user[u]) OBVIOUS
  <2> HIDE DEF resolved
  <2>6. /\ data.unitId = resolved.unitId /\ data.careerId = resolved.careerId
        /\ data.globalRole = input.globalRole /\ data.isActive = input.isActive
    BY <2>1 DEF AdminInput
  <2> HIDE DEF data
  <2>7. user[u] \in UserRow /\ user[u] # Null BY <2>2 DEF Inv, People, UserExists
  <2>8. MisplacedRow(Assigned(user[u], data)) => MisplacedRow(user[u])
    <3>1. PICK row : row = Assigned(user[u], data) OBVIOUS
    <3>2. /\ data.unitId \in Units \cup {Null, Undefined}
          /\ data.careerId \in Careers \cup {Null, Undefined}
      BY <2>4, <2>6 DEF Assignment
    <3>3. /\ row.unitId = Given(resolved.unitId, user[u].unitId)
          /\ row.careerId = Given(resolved.careerId, user[u].careerId)
      BY <2>6, <2>7, <3>1, <3>2, AssignedTyped
    <3>4. currentUnit(user[u]) = user[u].unitId BY <2>7 DEF currentUnit
    <3> QED BY <2>2, <2>3, <2>5, <2>7, <3>1, <3>3, <3>4, ResolutionPlaces
  <2>9. removesActiveAdmin(u, data) => ActiveAdmins \ {u} # {}
    BY <2>2, <2>6 DEF removesActiveAdmin
  <2>10. /\ DOMAIN changes = {f \in DOMAIN input : input[f] # Undefined /\ input[f] # user[u][f]}
         /\ \A f \in DOMAIN changes : changes[f] = input[f]
    BY DEF buildAdminUserAuditEvents, Changed
  <2> HIDE DEF changes
  <2>11. t.op = "updateAdminUser" /\ t.id = u /\ t.data = data /\ t.changes = changes OBVIOUS
  <2> HIDE DEF t
  <2>12. DOMAIN input = {"globalRole", "isActive", "unitId", "careerId"} BY <2>1 DEF AdminInput
  <2>13. TellsOf(t, "globalRole") BY <2>6, <2>10, <2>11, <2>12 DEF TellsOf
  <2>14. TellsOf(t, "isActive") BY <2>6, <2>10, <2>11, <2>12 DEF TellsOf
  <2>15. Upheld(t) BY <2>8, <2>9, <2>11, <2>13, <2>14 DEF Upheld
  <2> QED BY <2>2, <2>15, AloneQuiet DEF registry
<1>2. ASSUME RevokeSessions(w) PROVE AloneInv'
  <2> DEFINE t == [tx[w] EXCEPT !.op = "updateAdminUser revoked",
                                !.revoked = SessionsOf(tx[w].id)]
  <2>1. /\ ~Idle(w) /\ tx[w].op = "updateAdminUser"
        /\ tx' = [tx EXCEPT ![w] = t] /\ UNCHANGED registry
    BY <1>2 DEF RevokeSessions, Inv
  <2>2. /\ t.op = "updateAdminUser revoked" /\ t.id = tx[w].id /\ t.data = tx[w].data
        /\ t.changes = tx[w].changes
    BY <2>1, GoingOn DEF Handled
  <2> HIDE DEF t
  <2>3. Alone => Upheld(tx[w]) BY <2>1, AloneHolds DEF Kept
  <2>4. Alone => Upheld(t) BY <2>1, <2>2, <2>3 DEF Upheld, TellsOf
  <2> QED BY <2>1, <2>4, AloneQuiet DEF registry
<1>3. ASSUME CommitUpdateAdminUser(w) PROVE AloneInv'
  <2> DEFINE u == tx[w].id
             data == tx[w].data
             changes == tx[w].changes
             new == [Assigned(user[u], data) EXCEPT
                       !.globalRole = Given(data.globalRole, @),
                       !.isActive = Given(data.isActive, @)]
  <2>1. /\ ~Idle(w) /\ tx[w].op \in {"updateAdminUser", "updateAdminUser revoked"}
        /\ UNCHANGED clients
        /\ tx' = [tx EXCEPT ![w] = Null] /\ user' = [user EXCEPT ![u] = new]
        /\ told' = Telling(u, changes)
    BY <1>3 DEF CommitUpdateAdminUser, Commits
  <2>2. /\ u \in Users /\ data \in AdminData /\ UserExists(u)
        /\ Alone => /\ removesActiveAdmin(u, data) => ActiveAdmins \ {u} # {}
                    /\ TellsOf(tx[w], "globalRole") /\ TellsOf(tx[w], "isActive")
                    /\ RolesTold
    BY <2>1, GoingOn, HandledShapes, AloneHolds DEF Held, Kept, Upheld
  <2>3. Alone =>
          /\ IF data.globalRole \in {Undefined, user[u].globalRole}
             THEN "globalRole" \notin DOMAIN changes
             ELSE changes.globalRole = data.globalRole /\ "globalRole" \in DOMAIN changes
          /\ IF data.isActive \in {Undefined, user[u].isActive}
             THEN "isActive" \notin DOMAIN changes
             ELSE changes.isActive = data.isActive /\ "isActive" \in DOMAIN changes
    BY <2>2 DEF TellsOf
  <2> HIDE DEF u, data, changes
  <2>4. user[u] \in UserRow BY <2>2 DEF Inv, People, UserExists
  <2>5. new = [Assigned(user[u], data) EXCEPT
                 !.globalRole = Given(data.globalRole, @),
                 !.isActive = Given(data.isActive, @)]
    OBVIOUS
  <2> HIDE DEF new
  <2>6. /\ new \in UserRow
        /\ new.globalRole = Given(data.globalRole, user[u].globalRole)
        /\ new.isActive = Given(data.isActive, user[u].isActive)
    BY <2>2, <2>4, <2>5, AdministeredRow
  <2>7. \A v \in Users : v # u => told'[v] = told[v] BY <2>1, <2>2 DEF Telling, Inv, Log
  <2>8. \A f \in DOMAIN told'[u] :
          /\ f \in DOMAIN changes => told'[u][f] = changes[f]
          /\ f \notin DOMAIN changes => f \in DOMAIN told[u] /\ told'[u][f] = told[u][f]
    BY <2>1, <2>2 DEF Telling, Inv, Log
  <2>9. ASSUME Alone, "globalRole" \in DOMAIN told'[u] PROVE told'[u].globalRole = new.globalRole
    <3>1. "globalRole" \in DOMAIN told[u] => told[u].globalRole = user[u].globalRole
      BY <2>2, <2>9 DEF RolesTold
    <3> QED BY <2>3, <2>6, <2>8, <2>9, <3>1 DEF Given
  <2>10. ASSUME Alone, "isActive" \in DOMAIN told'[u] PROVE told'[u].isActive = new.isActive
    <3>1. "isActive" \in DOMAIN told[u] => told[u].isActive = user[u].isActive
      BY <2>2, <2>10 DEF RolesTold
    <3> QED BY <2>3, <2>6, <2>8, <2>10, <3>1 DEF Given
  <2>11. Alone => \A field \in DOMAIN told'[u] \cap {"globalRole", "isActive"} :
                    told'[u][field] = new[field]
    BY <2>9, <2>10
  <2>12. ASSUME Alone, u \in ActiveAdmins, ~Administers(new) PROVE ActiveAdmins \ {u} # {}
    <3>1. user[u].globalRole = "ADMIN" /\ user[u].isActive BY <2>12 DEF ActiveAdmins
    <3>2. data.globalRole \notin {Undefined, "ADMIN"} \/ data.isActive = FALSE
      BY <2>2, <2>6, <2>12, <3>1 DEF Administers, Given, AdminData
    <3> QED BY <2>2, <2>12, <3>2 DEF removesActiveAdmin
  <2> QED BY <2>1, <2>2, <2>6, <2>7, <2>11, <2>12, AccountStep
<1> QED BY <1>1, <1>2, <1>3

LEMMA AloneInvStep == Inv /\ AloneInv /\ [Next]_vars => AloneInv'
<1> SUFFICES ASSUME Inv, AloneInv, [Next]_vars PROVE AloneInv' OBVIOUS
<1>1. ASSUME NEW w \in Workers, CareerRequest(w) PROVE AloneInv' BY <1>1, AloneCareers
<1>2. ASSUME NEW w \in Workers, UserRequest(w) PROVE AloneInv'
  BY <1>2, AloneProfiles, AloneNewAccounts, AloneAdministration DEF UserRequest
<1>3. ASSUME NEW w \in Workers, NEW unit, NEW active, SetUnitActive(w, unit, active)
      PROVE  AloneInv'
  <2>1. tx' = [tx EXCEPT ![w] = Null] /\ Accepts(w)
    BY <1>3 DEF SetUnitActive, Accepts, Idle, Inv
  <2> QED BY <1>3, <2>1, AloneQuiet DEF SetUnitActive
<1>4. ASSUME NEW w \in Workers, Rollback(w) PROVE AloneInv'
  BY <1>4, AloneQuiet DEF Rollback, registry
<1>5. CASE UNCHANGED vars
  <2>1. UNCHANGED <<career, user, told, tx, clients>> BY <1>5 DEF vars
  <2>2. InFlight' = InFlight BY <2>1 DEF InFlight, Idle
  <2>3. ActiveAdmins' = ActiveAdmins BY <2>1 DEF ActiveAdmins, UserExists
  <2>4. RolesTold' <=> RolesTold BY <2>1 DEF RolesTold
  <2>5. Alone' <=> Alone BY <2>1 DEF Alone, Sent
  <2>6. ASSUME NEW w \in InFlight, Kept(w) PROVE Kept(w)'
    <3>1. w \in Workers /\ tx' = [tx EXCEPT ![w] = tx[w]] BY <2>1 DEF InFlight, Inv
    <3> QED BY <2>1, <2>6, <3>1, UpheldStill DEF Kept
  <2> QED BY <2>2, <2>3, <2>4, <2>5, <2>6 DEF AloneInv
<1> QED BY <1>1, <1>2, <1>3, <1>4, <1>5 DEF Next

LEMMA AloneInvInit == Init => AloneInv
<1> SUFFICES ASSUME Init PROVE AloneInv OBVIOUS
<1> USE DEF Init, RegistryInit
<1>1. InFlight = {} BY DEF InFlight, Idle
<1>2. Root \in ActiveAdmins
  BY RegistryAssumption, AccountsAssumption DEF ActiveAdmins, UserExists
<1>3. RolesTold
  <2>1. \A u \in Users : DOMAIN told[u] = {} BY DEF Nothing
  <2> QED BY <2>1 DEF RolesTold
<1> QED BY <1>1, <1>2, <1>3, FS_EmptySet DEF AloneInv

LEMMA AloneInvAlways == Spec => [](Inv /\ AloneInv)
<1>1. Init => Inv /\ AloneInv BY InvInit, AloneInvInit
<1>2. (Inv /\ AloneInv) /\ [Next]_vars => (Inv /\ AloneInv)' BY InvStep, AloneInvStep
<1> QED BY <1>1, <1>2, PTL DEF Spec

(***************************************************************************)
(* While requests run one at a time an active administrator remains: the   *)
(* guard of updateAdminUser counts the others, and nobody is promoted who is*)
(* not active (users.service.ts, updateAdminUser).                         *)
(***************************************************************************)
THEOREM AnAdministratorRemainsAlways == Spec => []AnAdministratorRemains
<1>1. AloneInv => AnAdministratorRemains
  BY DEF AloneInv, AnAdministratorRemains, ActiveAdmins
<1> QED BY <1>1, AloneInvAlways, PTL

(***************************************************************************)
(* While requests run one at a time the last event about the role or the   *)
(* status of an account tells what the table holds, although events tell   *)
(* only what changed and sign-up tells nothing (users.service.ts,          *)
(* buildAdminUserAuditEvents).                                             *)
(***************************************************************************)
THEOREM RolesAreToldAlways == Spec => []RolesAreTold
<1>1. AloneInv => RolesAreTold BY DEF AloneInv, RolesAreTold, RolesTold
<1> QED BY <1>1, AloneInvAlways, PTL

\* Someone signs up as u.
SignsUp(u) == \E w \in Workers : tx[w] # Null /\ tx[w].op = "registerUser" /\ ~UserExists(u)

PlacedStep ==
  /\ \A u \in Users : Misplaced(u)' => Misplaced(u) \/ SignsUp(u)
  /\ \A c \in Careers :
       /\ CareerExists(c)
       /\ career'[c] = Null \/ career'[c].unitId # career[c].unitId
       => UsersOf(c) = {}

LEMMA MisplacedAreRows ==
  ASSUME NEW u \in Users
  PROVE  /\ Misplaced(u) <=> UserExists(u) /\ MisplacedRow(user[u])
         /\ Misplaced(u)' <=> UserExists(u)' /\ user'[u].careerId # Null
                              /\ career'[user'[u].careerId].unitId \notin {Null, user'[u].unitId}
BY DEF Misplaced, MisplacedRow, unitOfCareer

\* Careers change, but for the unit of those someone has.
LEMMA CareersMove ==
  ASSUME Inv, UNCHANGED user,
         \A c \in Careers : CareerExists(c) /\ UsersOf(c) # {} =>
           career'[c] # Null /\ career'[c].unitId = career[c].unitId
  PROVE  PlacedStep
<1>1. ASSUME NEW u \in Users, Misplaced(u)' PROVE Misplaced(u)
  <2>1. /\ UserExists(u) /\ user[u].careerId # Null
        /\ career'[user[u].careerId].unitId \notin {Null, user[u].unitId}
    BY <1>1, MisplacedAreRows DEF UserExists
  <2>2. CareerExists(user[u].careerId) /\ user[u].careerId \in Careers
    BY <2>1 DEF Inv, People, CareersExist, UserExists, UserRow
  <2>3. u \in UsersOf(user[u].careerId) BY <2>1 DEF UsersOf
  <2>4. career'[user[u].careerId].unitId = career[user[u].careerId].unitId BY <2>2, <2>3
  <2> QED BY <2>1, <2>4 DEF Misplaced, unitOfCareer
<1> QED BY <1>1 DEF PlacedStep

\* One account changes, or appears.
LEMMA AccountMoves ==
  ASSUME Inv, UNCHANGED career, NEW u \in Users, NEW new, user' = [user EXCEPT ![u] = new],
         MisplacedRow(new) => (UserExists(u) /\ MisplacedRow(user[u])) \/ SignsUp(u)
  PROVE  PlacedStep
<1>1. user'[u] = new /\ \A v \in Users : v # u => user'[v] = user[v] BY DEF Inv, People
<1>2. ASSUME NEW v \in Users, Misplaced(v)' PROVE Misplaced(v) \/ SignsUp(v)
  <2>1. CASE v # u
    <3>1. user'[v] = user[v] BY <1>1, <2>1
    <3> QED BY <1>2, <3>1 DEF Misplaced, unitOfCareer, UserExists
  <2>2. CASE v = u
    <3>1. MisplacedRow(new)
      BY <1>1, <1>2, <2>2, MisplacedAreRows DEF MisplacedRow, unitOfCareer
    <3> QED BY <2>2, <3>1, MisplacedAreRows
  <2> QED BY <2>1, <2>2
<1> QED BY <1>2 DEF PlacedStep, CareerExists

LEMMA RequestsPlace ==
  ASSUME Inv, AloneInv, Alone, NEW w \in Workers, CareerRequest(w) \/ UserRequest(w)
  PROVE  PlacedStep
<1>1. ASSUME UNCHANGED <<career, user>> PROVE PlacedStep
  BY <1>1, CareersMove DEF CareerExists
<1>2. ASSUME NEW c \in Careers, CommitCreateCareer(w, c) PROVE PlacedStep
  <2>1. ~CareerExists(c) /\ UNCHANGED user /\ career' = [career EXCEPT ![c] = tx[w].row]
    BY <1>2 DEF CommitCreateCareer
  <2>2. \A d \in Careers : d # c => career'[d] = career[d] BY <2>1 DEF Inv, Catalog
  <2> QED BY <2>1, <2>2, CareersMove DEF CareerExists
<1>3. ASSUME CommitUpdateCareer(w) PROVE PlacedStep
  <2> DEFINE c == tx[w].id
             data == tx[w].data
             new == [code |-> Given(data.code, career[c].code),
                     unitId |-> Given(data.unitId, career[c].unitId)]
  <2>1. /\ ~Idle(w) /\ tx[w].op = "updateCareer" /\ UNCHANGED user
        /\ CareerExists(c) /\ career' = [career EXCEPT ![c] = new]
    BY <1>3 DEF CommitUpdateCareer, Commits
  <2>2. c \in Careers /\ data \in CareerInput /\ MayMove(c, data)
    BY <2>1, AloneHolds, HandledShapes DEF Kept, Upheld
  <2> HIDE DEF c, data
  <2>3. \A d \in Careers : d # c => career'[d] = career[d] BY <2>1 DEF Inv, Catalog
  <2>4. career'[c] = new /\ new.unitId = Given(data.unitId, career[c].unitId)
    BY <2>1, <2>2 DEF Inv, Catalog
  <2>5. career'[c] # Null
    <3>1. career[c] \in CareerRow BY <2>1, <2>2 DEF CareerExists, Inv, Catalog
    <3>2. new \in CareerRow BY <2>2, <3>1 DEF CareerRow, CareerInput, Given
    <3> QED BY <2>4, <3>2, RegistryAssumption
  <2>6. UsersOf(c) # {} => new.unitId = career[c].unitId BY <2>2, <2>4 DEF MayMove, Given
  <2> HIDE DEF new
  <2> QED BY <2>1, <2>3, <2>4, <2>5, <2>6, CareersMove DEF CareerExists
<1>4. ASSUME CommitDeleteCareer(w) PROVE PlacedStep
  <2>1. /\ ~Idle(w) /\ tx[w].op = "deleteCareer counted"
        /\ career' = [career EXCEPT ![tx[w].id] = Null]
        /\ user' = [u \in Users |-> IF u \in UsersOf(tx[w].id)
                                    THEN [user[u] EXCEPT !.careerId = Null] ELSE user[u]]
    BY <1>4 DEF CommitDeleteCareer, Commits
  <2>2. UsersOf(tx[w].id) = {} BY <2>1, AloneHolds DEF Kept, Upheld
  <2>3. user' = user BY <2>1, <2>2 DEF Inv, People
  <2>4. \A d \in Careers : d # tx[w].id => career'[d] = career[d] BY <2>1 DEF Inv, Catalog
  <2> QED BY <2>2, <2>3, <2>4, CareersMove DEF CareerExists
<1>5. ASSUME CommitUpdateProfile(w) PROVE PlacedStep
  <2>1. /\ ~Idle(w) /\ tx[w].op = "updateProfile" /\ UNCHANGED career
        /\ user' = [user EXCEPT ![tx[w].id] = Assigned(user[tx[w].id], tx[w].data)]
    BY <1>5 DEF CommitUpdateProfile, Commits
  <2>2. /\ tx[w].id \in Users /\ UserExists(tx[w].id)
        /\ MisplacedRow(Assigned(user[tx[w].id], tx[w].data)) => MisplacedRow(user[tx[w].id])
    BY <2>1, AloneHolds, HandledShapes DEF Held, Kept, Upheld
  <2> QED BY <2>1, <2>2, AccountMoves
<1>6. ASSUME CommitUpdateAdminUser(w) PROVE PlacedStep
  <2> DEFINE u == tx[w].id
             data == tx[w].data
             new == [Assigned(user[u], data) EXCEPT
                       !.globalRole = Given(data.globalRole, @),
                       !.isActive = Given(data.isActive, @)]
  <2>1. /\ ~Idle(w) /\ tx[w].op \in {"updateAdminUser", "updateAdminUser revoked"}
        /\ UNCHANGED career /\ user' = [user EXCEPT ![u] = new]
    BY <1>6 DEF CommitUpdateAdminUser, Commits
  <2>2. /\ u \in Users /\ data \in AdminData /\ UserExists(u)
        /\ MisplacedRow(Assigned(user[u], data)) => MisplacedRow(user[u])
    BY <2>1, AloneHolds, HandledShapes DEF Held, Kept, Upheld
  <2> HIDE DEF u, data
  <2>3. user[u] \in UserRow BY <2>2 DEF Inv, People, UserExists
  <2>4. new = [Assigned(user[u], data) EXCEPT
                 !.globalRole = Given(data.globalRole, @),
                 !.isActive = Given(data.isActive, @)]
    OBVIOUS
  <2> HIDE DEF new
  <2>5. /\ new.unitId = Assigned(user[u], data).unitId
        /\ new.careerId = Assigned(user[u], data).careerId
    BY <2>2, <2>3, <2>4, AdministeredRow
  <2>6. MisplacedRow(new) => MisplacedRow(user[u]) BY <2>2, <2>5 DEF MisplacedRow
  <2> QED BY <2>1, <2>2, <2>6, AccountMoves
<1>7. ASSUME NEW u \in Users, CommitCreateUser(w, u) PROVE PlacedStep
  <2>1. /\ ~Idle(w) /\ tx[w].op = "createUser" /\ UNCHANGED career
        /\ user' = [user EXCEPT ![u] = tx[w].row]
    BY <1>7 DEF CommitCreateUser, Commits
  <2>2. ~MisplacedRow(tx[w].row) BY <2>1, AloneHolds DEF Kept, Upheld
  <2> QED BY <2>1, <2>2, AccountMoves
<1>8. ASSUME NEW u \in Users, CommitRegisterUser(w, u) PROVE PlacedStep
  <2>1. /\ ~Idle(w) /\ tx[w].op = "registerUser" /\ UNCHANGED career /\ ~UserExists(u)
        /\ user' = [user EXCEPT ![u] = tx[w].row]
    BY <1>8 DEF CommitRegisterUser, Commits
  <2>2. SignsUp(u) BY <2>1 DEF SignsUp, Idle
  <2> QED BY <2>1, <2>2, AccountMoves
<1>9. CASE CareerRequest(w)
  BY <1>1, <1>2, <1>3, <1>4, <1>9
     DEF CareerRequest, BeginCreateCareer, BeginUpdateCareer, BeginDeleteCareer,
         CountCareerUsers, Begin, registry
<1>10. CASE UserRequest(w)
  BY <1>1, <1>5, <1>6, <1>7, <1>8, <1>10
     DEF UserRequest, BeginUpdateProfile, BeginCreateUser, BeginRegisterUser,
         BeginUpdateAdminUser, RevokeSessions, Begin, registry
<1> QED BY <1>9, <1>10

(***************************************************************************)
(* While requests run one at a time only sign-up leaves a user with the    *)
(* career of another unit, and no career that someone has moves or goes    *)
(* (users.service.ts, resolveOrganizationAssignment; careers.service.ts).  *)
(***************************************************************************)
THEOREM UsersStayPlacedAlways == Spec => UsersStayPlaced
<1>1. Inv /\ AloneInv /\ [Next]_vars =>
        [Alone =>
           /\ \A u \in Users : Misplaced(u)' =>
                \/ Misplaced(u)
                \/ \E w \in Workers : tx[w] # Null /\ tx[w].op = "registerUser" /\ ~UserExists(u)
           /\ \A c \in Careers :
                /\ CareerExists(c)
                /\ career'[c] = Null \/ career'[c].unitId # career[c].unitId
                => UsersOf(c) = {}]_vars
  <2> SUFFICES ASSUME Inv, AloneInv, Next, Alone PROVE PlacedStep
    BY DEF PlacedStep, SignsUp
  <2>1. PICK w \in Workers :
          \/ CareerRequest(w) \/ UserRequest(w)
          \/ \E unit \in Sent.movable, active \in BOOLEAN : SetUnitActive(w, unit, active)
          \/ Rollback(w)
    BY DEF Next
  <2>2. CASE CareerRequest(w) \/ UserRequest(w) BY <2>2, RequestsPlace
  <2>3. CASE \/ \E unit \in Sent.movable, active \in BOOLEAN : SetUnitActive(w, unit, active)
             \/ Rollback(w)
    <3>1. UNCHANGED <<career, user>> BY <2>3 DEF SetUnitActive, Rollback, registry
    <3> QED BY <3>1, CareersMove DEF CareerExists
  <2> QED BY <2>1, <2>2, <2>3
<1> QED BY <1>1, AloneInvAlways, PTL DEF Spec, UsersStayPlaced
=============================================================================
