---------------------------- MODULE Rooms_proofs ----------------------------
(***************************************************************************)
(* Rooms, bookings, speakers and line-ups, for every set of classrooms,    *)
(* activities, users, requests and workers: theorems of SpeakersSpec.      *)
(*                                                                         *)
(* Inv holds however requests interleave.  To the tables it adds that a    *)
(* window's id is used once, that bookings last, and what a transaction    *)
(* was decided with (Decided), as far as nobody else can undo it: rooms    *)
(* and users are never deleted.                                            *)
(*                                                                         *)
(* AloneInv is for requests that come one at a time: what the service      *)
(* read is still so when it writes (Upheld), which is why windows do not   *)
(* overlap and why a line-up that is not told did not change.              *)
(***************************************************************************)
EXTENDS Speakers, ActivityStatus_proofs, FiniteSetTheorems, TLAPS

\* Speakers as a request is going to write them.
Invited(entries) ==
  /\ IsFiniteSet(DOMAIN entries)
  /\ \A i \in DOMAIN entries :
       /\ entries[i] \in SpeakerRow
       /\ entries[i].userId # Null => /\ entries[i].userId = entries[i].email
                                      /\ entries[i].userId \in accounts

\* What is true of a transaction from its decision to its end, whatever others commit.
Decided(t) ==
  /\ t.op = "updateClassroom" =>
       t.id \in Classrooms /\ Exists(t.id) /\ t.data \in ClassroomInput
  /\ t.op \in {"addClassroomAmenity", "removeClassroomAmenity"} =>
       t.id \in Classrooms /\ t.amenity \in Amenities
  /\ t.op = "removeClassroomAmenity" => t.told = t.amenity
  /\ t.op = "addClassroomAvailability" => t.id \in Classrooms /\ t.slot \in Slot
  /\ t.op = "removeClassroomAvailability" => t.id \in Windows
  /\ t.op = "booking" => /\ t.id \in Activities /\ t.row \in ActivityRow
                         /\ t.row.startTime < t.row.endTime
  /\ t.op \in {"createLineup", "replaceLineup"} =>
       /\ t.id \in Activities
       /\ "equipment" \in DOMAIN t.data => t.data.equipment \subseteq Amenities
       /\ "speakers" \in DOMAIN t.data => Invited(t.data.speakers)

Held(w) == tx[w] # Null => Decided(tx[w])

\* Every booking has a duration.
Lasting == \A a \in Booked : activity[a].startTime < activity[a].endTime

\* The id of a window is used once, and no window is there twice.
WindowsAreIssued ==
  /\ \A n \in Windows : window[n] # Null => n \in issued
  /\ \A m, n \in Windows : window[m] # Null /\ window[m] = window[n] => m = n

Inv ==
  /\ TypeOK /\ RoomLogReplays /\ Lasting /\ WindowsAreIssued /\ SpeakerTables
  /\ \A a \in Activities : Posted(a) => a \in posted
  /\ DOMAIN tx = Workers /\ \A w \in Workers : Held(w)

\* Nothing is booked, offered or shown at the start.
LEMMA InvInit == SpeakersInit => Inv
<1> SUFFICES ASSUME SpeakersInit PROVE Inv OBVIOUS
<1>1. TypeOK BY DEF SpeakersInit, Init, TypeOK
<1>2. RoomLogReplays /\ Lasting /\ WindowsAreIssued
  BY DEF SpeakersInit, Init, RoomLogReplays, Lasting, WindowsAreIssued, Booked, SlotsOf, WindowsOf
<1>3. SpeakerTables /\ \A a \in Activities : Posted(a) => a \in posted
  BY DEF SpeakersInit, SpeakerTables, speakers_email_key, Cataloged, Posted
<1>4. DOMAIN tx = Workers /\ \A w \in Workers : tx[w] = Null BY DEF SpeakersInit, Init
<1> QED BY <1>1, <1>2, <1>3, <1>4 DEF Inv, Held

\* Classrooms and users are never deleted: what was decided stays decided.
LEMMA DecidedStill ==
  ASSUME Inv, NEW w \in Workers, NEW t, tx' = [tx EXCEPT ![w] = t], t # Null => Decided(t),
         \A r \in Classrooms : classroom[r] # Null => classroom'[r] # Null,
         accounts \subseteq accounts'
  PROVE  /\ DOMAIN tx' = Workers /\ tx'[w] = t
         /\ \A v \in Workers : Held(v)'
<1>1. DOMAIN tx' = Workers /\ \A v \in Workers : tx'[v] = IF v = w THEN t ELSE tx[v]
  BY DEF Inv
<1>2. ASSUME NEW v \in Workers PROVE Held(v)'
  <2>1. PICK k : k = tx'[v] OBVIOUS
  <2>2. k # Null => Decided(k) BY <1>1, <2>1 DEF Inv, Held
  <2> QED BY <2>1, <2>2 DEF Held, Decided, Invited, Exists
<1> QED BY <1>1, <1>2

\* The speakers stay as they are.
LEMMA PeopleStay ==
  ASSUME Inv, UNCHANGED people
  PROVE  SpeakerTables' /\ \A a \in Activities : Posted(a)' => a \in posted'
BY DEF Inv, people, SpeakerTables, speakers_email_key, Cataloged, Posted

\* A request reads and decides, or gives up.
LEMMA QuietStep ==
  ASSUME Inv, NEW w \in Workers, NEW t, tx' = [tx EXCEPT ![w] = t], t # Null => Decided(t),
         UNCHANGED <<rooms, now, clients, people>>
  PROVE  Inv'
<1>1. TypeOK' /\ RoomLogReplays' /\ Lasting' /\ WindowsAreIssued'
  BY DEF Inv, rooms, TypeOK, RoomLogReplays, Lasting, WindowsAreIssued, Booked, SlotsOf, WindowsOf
<1>2. UNCHANGED people /\ UNCHANGED classroom /\ UNCHANGED accounts BY DEF rooms, people
<1> QED BY <1>1, <1>2, PeopleStay, DecidedStill DEF Inv

\* A request that writes rooms, windows, amenities or bookings.
LEMMA WriteStep ==
  ASSUME Inv, NEW w \in Workers, tx' = [tx EXCEPT ![w] = Null], UNCHANGED people,
         \A r \in Classrooms : classroom[r] # Null => classroom'[r] # Null,
         TypeOK', RoomLogReplays', Lasting', WindowsAreIssued'
  PROVE  Inv'
<1>1. UNCHANGED accounts BY DEF people
<1> QED BY <1>1, PeopleStay, DecidedStill DEF Inv

\* A write of one step, that no transaction separates from its decision.
LEMMA DirectStep ==
  ASSUME Inv, UNCHANGED <<tx, people>>,
         \A r \in Classrooms : classroom[r] # Null => classroom'[r] # Null,
         TypeOK', RoomLogReplays', Lasting', WindowsAreIssued'
  PROVE  Inv'
<1>1. \A v \in Workers : Held(v)'
  BY DEF Inv, people, Held, Decided, Invited, Exists
<1> QED BY <1>1, PeopleStay DEF Inv

\* What clients send is what the schemas let through.
LEMMA SentTyped ==
  ASSUME Inv
  PROVE  /\ Sent.slots \subseteq Slot /\ Sent.drafts \subseteq ActivityRow
         /\ Sent.rooms \subseteq ClassroomRow /\ Sent.inputs \subseteq ClassroomInput
         /\ Sent.amenities \subseteq Amenities /\ Sent.inFlight \in Nat
         /\ Sent.signUps \subseteq Addresses
         /\ \A input \in Sent.lineups :
              /\ DOMAIN input \subseteq {"speakers", "equipment"}
              /\ "equipment" \in DOMAIN input => input.equipment \subseteq Amenities
              /\ "speakers" \in DOMAIN input =>
                   /\ input.speakers \in Seq(Entry)
                   /\ uniqueSpeakerEmails(input.speakers)
BY RoomsAssumption, SpeakersAssumption DEF Inv, TypeOK, Sent

\* A classroom is created, or its row updated.
LEMMA ClassroomKeeps ==
  ASSUME Inv, NEW w \in Workers, UNCHANGED people
  PROVE  /\ \A r \in Classrooms, row \in Sent.rooms : CreateClassroom(w, r, row) => Inv'
         /\ \A r \in Classrooms, input \in Sent.inputs : BeginUpdateClassroom(w, r, input) => Inv'
         /\ CommitUpdateClassroom(w) => Inv'
<1>1. ASSUME NEW r \in Classrooms, NEW row \in Sent.rooms, CreateClassroom(w, r, row) PROVE Inv'
  <2>1. row \in ClassroomRow /\ row # Null BY SentTyped, RoomsAssumption
  <2>2. TypeOK' BY <1>1, <2>1 DEF CreateClassroom, Inv, TypeOK
  <2>3. RoomLogReplays' /\ Lasting' /\ WindowsAreIssued'
    BY <1>1 DEF CreateClassroom, Inv, RoomLogReplays, Lasting, WindowsAreIssued, Booked,
                SlotsOf, WindowsOf
  <2>4. \A q \in Classrooms : classroom[q] # Null => classroom'[q] # Null
    BY <1>1, <2>1 DEF CreateClassroom, Inv, TypeOK
  <2>5. UNCHANGED <<tx, people>> BY <1>1 DEF CreateClassroom
  <2> QED BY <2>2, <2>3, <2>4, <2>5, DirectStep
<1>2. ASSUME NEW r \in Classrooms, NEW input \in Sent.inputs, BeginUpdateClassroom(w, r, input)
      PROVE  Inv'
  <2> DEFINE t == [op |-> "updateClassroom", id |-> r, data |-> input]
  <2>1. Decided(t) BY <1>2, SentTyped DEF BeginUpdateClassroom, Decided
  <2>2. tx' = [tx EXCEPT ![w] = t] /\ UNCHANGED <<rooms, now, clients, people>>
    BY <1>2 DEF BeginUpdateClassroom, Begin
  <2> HIDE DEF t
  <2> QED BY <2>1, <2>2, QuietStep
<1>3. ASSUME CommitUpdateClassroom(w) PROVE Inv'
  <2>1. PICK t : t = tx[w] OBVIOUS
  <2>2. /\ t.id \in Classrooms /\ classroom[t.id] \in ClassroomRow /\ t.data \in ClassroomInput
    BY <1>3, <2>1 DEF CommitUpdateClassroom, Commits, Idle, Inv, Held, Decided, Exists, TypeOK
  <2> DEFINE r == t.id
             row == [field \in DOMAIN classroom[r] |->
                       IF field \in DOMAIN t.data THEN t.data[field] ELSE classroom[r][field]]
  <2>3. row \in ClassroomRow BY <2>2 DEF ClassroomRow, ClassroomInput
  <2>4. classroom' = [classroom EXCEPT ![r] = row]
    BY <1>3, <2>1, <2>2 DEF CommitUpdateClassroom, Inv, TypeOK
  <2>5. UNCHANGED <<window, amenity, activity, issued, log, now, clients>>
        /\ tx' = [tx EXCEPT ![w] = Null]
    BY <1>3 DEF CommitUpdateClassroom, Commits
  <2> HIDE DEF row
  <2>6. TypeOK' BY <2>2, <2>3, <2>4, <2>5 DEF Inv, TypeOK
  <2>7. RoomLogReplays' /\ Lasting' /\ WindowsAreIssued'
    BY <2>5 DEF Inv, RoomLogReplays, Lasting, WindowsAreIssued, Booked, SlotsOf, WindowsOf
  <2>8. \A q \in Classrooms : classroom[q] # Null => classroom'[q] # Null
    BY <2>2, <2>3, <2>4, RoomsAssumption DEF Inv, TypeOK
  <2> QED BY <2>5, <2>6, <2>7, <2>8, WriteStep
<1> QED BY <1>1, <1>2, <1>3

\* An amenity more, or less, with its event.
LEMMA AmenityKeeps ==
  ASSUME Inv, NEW w \in Workers, UNCHANGED people
  PROVE  /\ \A r \in Classrooms, name \in Sent.amenities :
              BeginAddClassroomAmenity(w, r, name) \/ BeginRemoveClassroomAmenity(w, r, name)
                => Inv'
         /\ CommitAddClassroomAmenity(w) => Inv'
         /\ CommitRemoveClassroomAmenity(w) => Inv'
<1>1. ASSUME NEW r \in Classrooms, NEW name \in Sent.amenities,
             BeginAddClassroomAmenity(w, r, name)
      PROVE  Inv'
  <2> DEFINE t == [op |-> "addClassroomAmenity", id |-> r, amenity |-> name]
  <2>1. Decided(t) BY <1>1, SentTyped DEF Decided
  <2>2. tx' = [tx EXCEPT ![w] = t] /\ UNCHANGED <<rooms, now, clients, people>>
    BY <1>1 DEF BeginAddClassroomAmenity, Begin
  <2> HIDE DEF t
  <2> QED BY <2>1, <2>2, QuietStep
<1>2. ASSUME NEW r \in Classrooms, NEW name \in Sent.amenities,
             BeginRemoveClassroomAmenity(w, r, name)
      PROVE  Inv'
  <2>1. PICK existing \in amenity[r] :
          Begin(w, [op |-> "removeClassroomAmenity", id |-> r, amenity |-> existing,
                    told |-> existing])
    BY <1>2 DEF BeginRemoveClassroomAmenity
  <2> DEFINE t == [op |-> "removeClassroomAmenity", id |-> r, amenity |-> existing,
                   told |-> existing]
  <2>2. Decided(t) BY DEF Decided, Inv, TypeOK
  <2>3. tx' = [tx EXCEPT ![w] = t] /\ UNCHANGED <<rooms, now, clients, people>>
    BY <2>1 DEF Begin
  <2> HIDE DEF t
  <2> QED BY <2>2, <2>3, QuietStep
<1>3. ASSUME CommitAddClassroomAmenity(w) PROVE Inv'
  <2>1. PICK t : t = tx[w] OBVIOUS
  <2>2. t.id \in Classrooms /\ t.amenity \in Amenities
    BY <1>3, <2>1 DEF CommitAddClassroomAmenity, Commits, Idle, Inv, Held, Decided
  <2>3. /\ amenity' = [amenity EXCEPT ![t.id] = @ \cup {t.amenity}]
        /\ log' = [log EXCEPT ![t.id].amenities = @ \cup {t.amenity}]
        /\ UNCHANGED <<classroom, window, activity, issued, now, clients>>
        /\ tx' = [tx EXCEPT ![w] = Null]
    BY <1>3, <2>1 DEF CommitAddClassroomAmenity, Commits
  <2>4. TypeOK' BY <2>2, <2>3 DEF Inv, TypeOK
  <2>5. Lasting' /\ WindowsAreIssued' BY <2>3 DEF Inv, Lasting, WindowsAreIssued, Booked
  <2>6. \A q \in Classrooms : SlotsOf(q)' = SlotsOf(q) BY <2>3 DEF SlotsOf, WindowsOf
  <2>7. \A q \in Classrooms : log'[q] = [amenities |-> amenity'[q], slots |-> SlotsOf(q)]
    <3>1. log[t.id] = [amenities |-> amenity[t.id], slots |-> SlotsOf(t.id)]
      BY <2>2 DEF Inv, RoomLogReplays
    <3>2. log'[t.id] = [log[t.id] EXCEPT !.amenities = @ \cup {t.amenity}]
      BY <2>2, <2>3 DEF Inv, TypeOK
    <3>3. amenity'[t.id] = amenity[t.id] \cup {t.amenity}
      BY <2>2, <2>3 DEF Inv, TypeOK
    <3>4. log'[t.id] = [amenities |-> amenity'[t.id], slots |-> SlotsOf(t.id)]
      BY <3>1, <3>2, <3>3
    <3>5. \A q \in Classrooms : q # t.id => log'[q] = log[q] /\ amenity'[q] = amenity[q]
      BY <2>3 DEF Inv, TypeOK
    <3> QED BY <3>4, <3>5 DEF Inv, RoomLogReplays
  <2>8. RoomLogReplays' BY <2>6, <2>7 DEF RoomLogReplays
  <2> QED BY <2>3, <2>4, <2>5, <2>8, WriteStep
<1>4. ASSUME CommitRemoveClassroomAmenity(w) PROVE Inv'
  <2>1. PICK t : t = tx[w] OBVIOUS
  <2>2. t.id \in Classrooms /\ t.amenity \in Amenities /\ t.told = t.amenity
    BY <1>4, <2>1 DEF CommitRemoveClassroomAmenity, Commits, Idle, Inv, Held, Decided
  <2>3. /\ amenity' = [amenity EXCEPT ![t.id] = @ \ {t.amenity}]
        /\ log' = [log EXCEPT ![t.id].amenities = @ \ {t.amenity}]
        /\ UNCHANGED <<classroom, window, activity, issued, now, clients>>
        /\ tx' = [tx EXCEPT ![w] = Null]
    BY <1>4, <2>1, <2>2 DEF CommitRemoveClassroomAmenity, Commits
  <2>4. TypeOK' BY <2>2, <2>3 DEF Inv, TypeOK
  <2>5. Lasting' /\ WindowsAreIssued' BY <2>3 DEF Inv, Lasting, WindowsAreIssued, Booked
  <2>6. \A q \in Classrooms : SlotsOf(q)' = SlotsOf(q) BY <2>3 DEF SlotsOf, WindowsOf
  <2>7. \A q \in Classrooms : log'[q] = [amenities |-> amenity'[q], slots |-> SlotsOf(q)]
    <3>1. log[t.id] = [amenities |-> amenity[t.id], slots |-> SlotsOf(t.id)]
      BY <2>2 DEF Inv, RoomLogReplays
    <3>2. log'[t.id] = [log[t.id] EXCEPT !.amenities = @ \ {t.amenity}]
      BY <2>2, <2>3 DEF Inv, TypeOK
    <3>3. amenity'[t.id] = amenity[t.id] \ {t.amenity}
      BY <2>2, <2>3 DEF Inv, TypeOK
    <3>4. log'[t.id] = [amenities |-> amenity'[t.id], slots |-> SlotsOf(t.id)]
      BY <3>1, <3>2, <3>3
    <3>5. \A q \in Classrooms : q # t.id => log'[q] = log[q] /\ amenity'[q] = amenity[q]
      BY <2>3 DEF Inv, TypeOK
    <3> QED BY <3>4, <3>5 DEF Inv, RoomLogReplays
  <2>8. RoomLogReplays' BY <2>6, <2>7 DEF RoomLogReplays
  <2> QED BY <2>3, <2>4, <2>5, <2>8, WriteStep
<1> QED BY <1>1, <1>2, <1>3, <1>4

\* A window more, or less, is a slot more, or less.
LEMMA WindowAdded ==
  ASSUME Inv, NEW r \in Classrooms, NEW slot \in Slot, NEW n \in Windows, n \notin issued,
         window' = [window EXCEPT ![n] = [classroomId |-> r, slot |-> slot]]
  PROVE  /\ \A q \in Classrooms : /\ q # r => WindowsOf(q)' = WindowsOf(q)
                                  /\ q # r => SlotsOf(q)' = SlotsOf(q)
         /\ WindowsOf(r)' = WindowsOf(r) \cup {n}
         /\ SlotsOf(r)' = SlotsOf(r) \cup {slot}
<1> DEFINE row == [classroomId |-> r, slot |-> slot]
<1>1. row \in WindowRow /\ row # Null BY RoomsAssumption DEF WindowRow
<1>2. row.classroomId = r /\ row.slot = slot OBVIOUS
<1>3. \A m \in Windows : window'[m] = IF m = n THEN row ELSE window[m] BY DEF Inv, TypeOK
<1>4. window[n] = Null BY DEF Inv, WindowsAreIssued
<1> HIDE DEF row
<1>5. /\ \A q \in Classrooms : q # r => WindowsOf(q)' = WindowsOf(q)
      /\ WindowsOf(r)' = WindowsOf(r) \cup {n}
  BY <1>1, <1>2, <1>3, <1>4 DEF WindowsOf
<1>6. /\ n \notin WindowsOf(r) /\ \A q \in Classrooms : n \notin WindowsOf(q)
  BY <1>4 DEF WindowsOf
<1>7. /\ \A q \in Classrooms : \A m \in WindowsOf(q) : window'[m].slot = window[m].slot
      /\ window'[n].slot = slot
  BY <1>2, <1>3, <1>6 DEF WindowsOf
<1>8. SlotsOf(r)' = SlotsOf(r) \cup {slot} BY <1>5, <1>7 DEF SlotsOf
<1>9. \A q \in Classrooms : q # r => SlotsOf(q)' = SlotsOf(q) BY <1>5, <1>7 DEF SlotsOf
<1> QED BY <1>5, <1>8, <1>9

\* A window less: its slot is gone, for no other window of the room had it.
LEMMA WindowRemoved ==
  ASSUME Inv, NEW n \in Windows, window[n] # Null, window' = [window EXCEPT ![n] = Null]
  PROVE  /\ window[n] \in WindowRow
         /\ \A q \in Classrooms : WindowsOf(q)' = WindowsOf(q) \ {n}
         /\ \A q \in Classrooms :
              SlotsOf(q)' = IF q = window[n].classroomId THEN SlotsOf(q) \ {window[n].slot}
                            ELSE SlotsOf(q)
<1>1. PICK row : row = window[n] OBVIOUS
<1>2. row \in WindowRow BY <1>1 DEF Inv, TypeOK
<1>3. \A m \in Windows : window'[m] = IF m = n THEN Null ELSE window[m] BY DEF Inv, TypeOK
<1>4. \A q \in Classrooms : WindowsOf(q)' = WindowsOf(q) \ {n}
  BY <1>3 DEF WindowsOf
<1>5. \A q \in Classrooms : SlotsOf(q)' = {window[m].slot : m \in WindowsOf(q) \ {n}}
  BY <1>3, <1>4 DEF SlotsOf, WindowsOf
<1>6. \A q \in Classrooms : q # row.classroomId => SlotsOf(q)' = SlotsOf(q)
  <2>1. \A q \in Classrooms : q # row.classroomId => n \notin WindowsOf(q)
    BY <1>1 DEF WindowsOf
  <2> QED BY <1>5, <2>1 DEF SlotsOf
<1>7. \A m \in WindowsOf(row.classroomId) : m # n => window[m].slot # row.slot
  <2> SUFFICES ASSUME NEW m \in WindowsOf(row.classroomId), m # n, window[m].slot = row.slot
               PROVE  FALSE
    OBVIOUS
  <2>1. m \in Windows /\ window[m] \in WindowRow /\ window[m].classroomId = row.classroomId
        /\ window[m] # Null
    BY DEF WindowsOf, Inv, TypeOK
  <2>2. window[m] = row BY <1>2, <2>1 DEF WindowRow
  <2> QED BY <1>1, <2>1, <2>2 DEF Inv, WindowsAreIssued
<1>8. n \in WindowsOf(row.classroomId) BY <1>1 DEF WindowsOf
<1>9. \A q \in Classrooms : q = row.classroomId => SlotsOf(q)' = SlotsOf(q) \ {row.slot}
  BY <1>1, <1>5, <1>7, <1>8 DEF SlotsOf
<1> QED BY <1>1, <1>2, <1>4, <1>6, <1>9

\* A window more, or less, with its event.
LEMMA WindowKeeps ==
  ASSUME Inv, NEW w \in Workers, UNCHANGED people
  PROVE  /\ \A r \in Classrooms, slot \in Sent.slots :
              BeginAddClassroomAvailability(w, r, slot) => Inv'
         /\ \A n \in Windows : CommitAddClassroomAvailability(w, n) => Inv'
         /\ \A r \in Classrooms, n \in Windows : BeginRemoveClassroomAvailability(w, r, n) => Inv'
         /\ CommitRemoveClassroomAvailability(w) => Inv'
<1>1. ASSUME NEW r \in Classrooms, NEW slot \in Sent.slots,
             BeginAddClassroomAvailability(w, r, slot)
      PROVE  Inv'
  <2> DEFINE t == [op |-> "addClassroomAvailability", id |-> r, slot |-> slot]
  <2>1. Decided(t) BY SentTyped DEF Decided
  <2>2. tx' = [tx EXCEPT ![w] = t] /\ UNCHANGED <<rooms, now, clients, people>>
    BY <1>1 DEF BeginAddClassroomAvailability, Begin
  <2> HIDE DEF t
  <2> QED BY <2>1, <2>2, QuietStep
<1>2. ASSUME NEW n \in Windows, CommitAddClassroomAvailability(w, n) PROVE Inv'
  <2>1. PICK t : t = tx[w] OBVIOUS
  <2>2. PICK r, slot : r = t.id /\ slot = t.slot OBVIOUS
  <2>3. r \in Classrooms /\ slot \in Slot
    BY <1>2, <2>1, <2>2 DEF CommitAddClassroomAvailability, Commits, Idle, Inv, Held, Decided
  <2>4. /\ n \notin issued /\ slot \notin SlotsOf(r)
        /\ window' = [window EXCEPT ![n] = [classroomId |-> r, slot |-> slot]]
        /\ issued' = issued \cup {n}
        /\ log' = [log EXCEPT ![r].slots = @ \cup {slot}]
        /\ UNCHANGED <<classroom, amenity, activity, now, clients>>
        /\ tx' = [tx EXCEPT ![w] = Null]
    BY <1>2, <2>1, <2>2 DEF CommitAddClassroomAvailability, Commits
  <2>5. TypeOK'
    <3>1. [classroomId |-> r, slot |-> slot] \in WindowRow BY <2>3 DEF WindowRow
    <3> QED BY <2>3, <2>4, <3>1 DEF Inv, TypeOK
  <2>6. WindowsAreIssued'
    <3>1. PICK row : row = [classroomId |-> r, slot |-> slot] OBVIOUS
    <3>2. \A m \in Windows : window'[m] = IF m = n THEN row ELSE window[m]
      BY <2>4, <3>1 DEF Inv, TypeOK
    <3>3. \A m \in Windows : window[m] # Null => window[m] # row
      BY <2>4, <3>1 DEF SlotsOf, WindowsOf
    <3> QED BY <2>4, <3>2, <3>3 DEF Inv, WindowsAreIssued
  <2>7. Lasting' BY <2>4 DEF Inv, Lasting, Booked
  <2>8. \A q \in Classrooms : log'[q] = [amenities |-> amenity[q], slots |-> SlotsOf(q)']
    <3>1. log[r] = [amenities |-> amenity[r], slots |-> SlotsOf(r)]
      BY <2>3 DEF Inv, RoomLogReplays
    <3>2. log'[r] = [log[r] EXCEPT !.slots = @ \cup {slot}] BY <2>3, <2>4 DEF Inv, TypeOK
    <3>3. log'[r] = [amenities |-> amenity[r], slots |-> SlotsOf(r) \cup {slot}]
      BY <3>1, <3>2
    <3>4. log'[r] = [amenities |-> amenity[r], slots |-> SlotsOf(r)']
      BY <2>3, <2>4, <3>3, WindowAdded
    <3>5. \A q \in Classrooms : q # r => log'[q] = log[q] BY <2>4 DEF Inv, TypeOK
    <3>6. \A q \in Classrooms : q # r => SlotsOf(q)' = SlotsOf(q) BY <2>3, <2>4, WindowAdded
    <3> QED BY <3>4, <3>5, <3>6 DEF Inv, RoomLogReplays
  <2>9. RoomLogReplays' BY <2>4, <2>8 DEF RoomLogReplays
  <2> QED BY <2>4, <2>5, <2>6, <2>7, <2>9, WriteStep
<1>3. ASSUME NEW r \in Classrooms, NEW n \in Windows, BeginRemoveClassroomAvailability(w, r, n)
      PROVE  Inv'
  <2> DEFINE t == [op |-> "removeClassroomAvailability", id |-> n]
  <2>1. Decided(t) BY DEF Decided
  <2>2. tx' = [tx EXCEPT ![w] = t] /\ UNCHANGED <<rooms, now, clients, people>>
    BY <1>3 DEF BeginRemoveClassroomAvailability, Begin
  <2> HIDE DEF t
  <2> QED BY <2>1, <2>2, QuietStep
<1>4. ASSUME CommitRemoveClassroomAvailability(w) PROVE Inv'
  <2>1. PICK n : n = tx[w].id OBVIOUS
  <2>2. n \in Windows
    BY <1>4, <2>1 DEF CommitRemoveClassroomAvailability, Commits, Idle, Inv, Held, Decided
  <2>3. PICK r, slot : r = window[n].classroomId /\ slot = window[n].slot OBVIOUS
  <2>4. /\ window[n] # Null /\ window' = [window EXCEPT ![n] = Null]
        /\ log' = [log EXCEPT ![r].slots = @ \ {slot}]
        /\ UNCHANGED <<classroom, amenity, activity, issued, now, clients>>
        /\ tx' = [tx EXCEPT ![w] = Null]
    BY <1>4, <2>1, <2>3 DEF CommitRemoveClassroomAvailability, Commits
  <2>5. r \in Classrooms /\ slot \in Slot
    BY <2>2, <2>3, <2>4 DEF Inv, TypeOK, WindowRow
  <2>6. TypeOK' BY <2>4, <2>5 DEF Inv, TypeOK
  <2>7. WindowsAreIssued'
    <3>1. \A m \in Windows : window'[m] = IF m = n THEN Null ELSE window[m]
      BY <2>4 DEF Inv, TypeOK
    <3> QED BY <2>4, <3>1 DEF Inv, WindowsAreIssued
  <2>8. Lasting' BY <2>4 DEF Inv, Lasting, Booked
  <2>9. \A q \in Classrooms : log'[q] = [amenities |-> amenity[q], slots |-> SlotsOf(q)']
    <3>1. log[r] = [amenities |-> amenity[r], slots |-> SlotsOf(r)]
      BY <2>5 DEF Inv, RoomLogReplays
    <3>2. log'[r] = [log[r] EXCEPT !.slots = @ \ {slot}] BY <2>4, <2>5 DEF Inv, TypeOK
    <3>3. log'[r] = [amenities |-> amenity[r], slots |-> SlotsOf(r) \ {slot}]
      BY <3>1, <3>2
    <3>4. SlotsOf(r)' = SlotsOf(r) \ {slot} BY <2>2, <2>3, <2>4, <2>5, WindowRemoved
    <3>5. \A q \in Classrooms : q # r => log'[q] = log[q] BY <2>4 DEF Inv, TypeOK
    <3>6. \A q \in Classrooms : q # r => SlotsOf(q)' = SlotsOf(q)
      BY <2>2, <2>3, <2>4, WindowRemoved
    <3> QED BY <3>3, <3>4, <3>5, <3>6 DEF Inv, RoomLogReplays
  <2>10. RoomLogReplays' BY <2>4, <2>9 DEF RoomLogReplays
  <2> QED BY <2>4, <2>6, <2>7, <2>8, <2>10, WriteStep
<1> QED BY <1>1, <1>2, <1>3, <1>4

\* An activity gets its place and its time, or is cancelled.
LEMMA BookingKeeps ==
  ASSUME Inv, NEW w \in Workers, UNCHANGED people
  PROVE  /\ \A a \in Activities, row \in Sent.drafts : BeginCreateActivity(w, a, row) => Inv'
         /\ \A a \in Activities : BeginPublishActivity(w, a) => Inv'
         /\ CommitBooking(w) => Inv'
         /\ \A a \in Activities : CancelActivity(w, a) => Inv'
<1>1. ASSUME NEW a \in Activities, NEW row \in Sent.drafts, BeginCreateActivity(w, a, row)
      PROVE  Inv'
  <2> DEFINE t == [op |-> "booking", id |-> a, row |-> row]
  <2>1. Decided(t)
    BY <1>1, SentTyped DEF Decided, BeginCreateActivity, assertActivityTimeRange
  <2>2. tx' = [tx EXCEPT ![w] = t] /\ UNCHANGED <<rooms, now, clients, people>>
    BY <1>1 DEF BeginCreateActivity, Begin
  <2> HIDE DEF t
  <2> QED BY <2>1, <2>2, QuietStep
<1>2. ASSUME NEW a \in Activities, BeginPublishActivity(w, a) PROVE Inv'
  <2> DEFINE row == [activity[a] EXCEPT !.status = "SCHEDULED"]
             t == [op |-> "booking", id |-> a, row |-> row]
  <2>1. activity[a] \in ActivityRow /\ activity[a].startTime < activity[a].endTime
    BY <1>2 DEF BeginPublishActivity, Inv, TypeOK, Lasting, Booked
  <2>2. row \in ActivityRow /\ row.startTime < row.endTime BY <2>1 DEF ActivityRow
  <2>3. tx' = [tx EXCEPT ![w] = t] /\ UNCHANGED <<rooms, now, clients, people>>
    BY <1>2 DEF BeginPublishActivity, Begin
  <2> HIDE DEF row
  <2>4. Decided(t) BY <2>2 DEF Decided
  <2> HIDE DEF t
  <2> QED BY <2>3, <2>4, QuietStep
<1>3. ASSUME CommitBooking(w) PROVE Inv'
  <2>1. PICK a, row : a = tx[w].id /\ row = tx[w].row OBVIOUS
  <2>2. a \in Activities /\ row \in ActivityRow /\ row.startTime < row.endTime
    BY <1>3, <2>1 DEF CommitBooking, Commits, Idle, Inv, Held, Decided
  <2>3. /\ activity' = [activity EXCEPT ![a] = row]
        /\ UNCHANGED <<classroom, window, amenity, issued, log, now, clients>>
        /\ tx' = [tx EXCEPT ![w] = Null]
    BY <1>3, <2>1 DEF CommitBooking, Commits
  <2>4. TypeOK' BY <2>2, <2>3 DEF Inv, TypeOK
  <2>5. Lasting' BY <2>2, <2>3 DEF Inv, TypeOK, Lasting, Booked
  <2>6. RoomLogReplays' /\ WindowsAreIssued'
    BY <2>3 DEF Inv, RoomLogReplays, WindowsAreIssued, SlotsOf, WindowsOf
  <2> QED BY <2>3, <2>4, <2>5, <2>6, WriteStep
<1>4. ASSUME NEW a \in Activities, CancelActivity(w, a) PROVE Inv'
  <2>1. activity[a] \in ActivityRow /\ activity[a].startTime < activity[a].endTime
    BY <1>4 DEF CancelActivity, Inv, TypeOK, Lasting, Booked
  <2> DEFINE row == [activity[a] EXCEPT !.status = "CANCELLED"]
  <2>2. row \in ActivityRow /\ row.startTime < row.endTime BY <2>1 DEF ActivityRow
  <2>3. activity' = [activity EXCEPT ![a] = row] BY <1>4 DEF CancelActivity, Inv, TypeOK
  <2>4. UNCHANGED <<classroom, window, amenity, issued, log, now, tx, clients>>
    BY <1>4 DEF CancelActivity
  <2> HIDE DEF row
  <2>5. TypeOK' BY <2>2, <2>3, <2>4 DEF Inv, TypeOK
  <2>6. Lasting' BY <2>2, <2>3 DEF Inv, TypeOK, Lasting, Booked
  <2>7. RoomLogReplays' /\ WindowsAreIssued'
    BY <2>4 DEF Inv, RoomLogReplays, WindowsAreIssued, SlotsOf, WindowsOf
  <2> QED BY <2>4, <2>5, <2>6, <2>7, DirectStep
<1> QED BY <1>1, <1>2, <1>3, <1>4

\* Every request about rooms, and the clock.
LEMMA RoomStepKeeps == ASSUME Inv, Next, UNCHANGED people PROVE Inv'
<1>1. ASSUME Tick PROVE Inv'
  <2>1. UNCHANGED <<rooms, tx, clients>> /\ now' \in Int BY <1>1 DEF Tick, Inv, TypeOK
  <2>2. TypeOK' /\ RoomLogReplays' /\ Lasting' /\ WindowsAreIssued'
    BY <2>1 DEF Inv, rooms, TypeOK, RoomLogReplays, Lasting, WindowsAreIssued, Booked,
                SlotsOf, WindowsOf
  <2>3. UNCHANGED classroom BY <2>1 DEF rooms
  <2> QED BY <2>1, <2>2, <2>3, DirectStep
<1>2. ASSUME NEW w \in Workers, ClassroomRequest(w) PROVE Inv'
  BY <1>2, ClassroomKeeps, AmenityKeeps DEF ClassroomRequest
<1>3. ASSUME NEW w \in Workers, WindowRequest(w) PROVE Inv'
  BY <1>3, WindowKeeps DEF WindowRequest
<1>4. ASSUME NEW w \in Workers, BookingRequest(w) PROVE Inv'
  BY <1>4, BookingKeeps DEF BookingRequest
<1>5. ASSUME NEW w \in Workers, Rollback(w) PROVE Inv'
  <2>1. tx' = [tx EXCEPT ![w] = Null] /\ UNCHANGED <<rooms, now, clients, people>>
    BY <1>5 DEF Rollback
  <2> QED BY <2>1, QuietStep
<1> QED BY <1>1, <1>2, <1>3, <1>4, <1>5 DEF Next

-----------------------------------------------------------------------------
(* The line-up. *)

KeysOf(entries) == [i \in DOMAIN entries |-> speakerSetKey(entries[i])]
Counted(key) ==
  [k \in {key[i] : i \in DOMAIN key} |-> Cardinality({i \in DOMAIN key : key[i] = k})]

\* The set a request is compared by counts each key.
LEMMA SetsAreCounts == \A entries : normalizeSet(entries) = Counted(KeysOf(entries))
BY DEF normalizeSet, Counted, KeysOf

\* The lists of a request, prepared, are lists that may be written.
LEMMA PreparedTyped ==
  ASSUME Inv, NEW input \in Sent.lineups
  PROVE  /\ DOMAIN Prepared(input) = DOMAIN input
         /\ "equipment" \in DOMAIN input =>
              /\ input.equipment \subseteq Amenities
              /\ Prepared(input).equipment = input.equipment
         /\ "speakers" \in DOMAIN input =>
              /\ Invited(Prepared(input).speakers)
              /\ normalizeSet(Prepared(input).speakers) = normalizeSet(input.speakers)
<1>1. "speakers" # "equipment" OBVIOUS
<1>2. /\ DOMAIN Prepared(input) = DOMAIN input
      /\ "equipment" \in DOMAIN input => Prepared(input).equipment = input.equipment
      /\ "speakers" \in DOMAIN input =>
           Prepared(input).speakers = buildSpeakerCreates(input.speakers)
  BY <1>1 DEF Prepared
<1>3. ASSUME "speakers" \in DOMAIN input
      PROVE  /\ Invited(buildSpeakerCreates(input.speakers))
             /\ normalizeSet(buildSpeakerCreates(input.speakers)) = normalizeSet(input.speakers)
  <2>1. PICK entries : entries = input.speakers OBVIOUS
  <2>2. entries \in Seq(Entry) BY <1>3, <2>1, SentTyped
  <2>3. /\ DOMAIN entries = 1 .. Len(entries) /\ Len(entries) \in Nat
        /\ \A i \in DOMAIN entries : entries[i] \in Entry
    BY <2>2
  <2>4. PICK creates : creates = buildSpeakerCreates(entries) OBVIOUS
  <2>5. /\ DOMAIN creates = DOMAIN entries
        /\ \A i \in DOMAIN entries :
             /\ creates[i] = [email |-> entries[i].email, name |-> entries[i].name,
                  userId |-> IF entries[i].email \in accounts THEN entries[i].email ELSE Null]
    BY <2>4 DEF buildSpeakerCreates
  <2>6. IsFiniteSet(DOMAIN creates)
    <3>1. PICK n \in Nat : n = Len(entries) BY <2>3
    <3>2. IsFiniteSet(1 .. n) BY FS_Interval
    <3>3. DOMAIN creates = 1 .. n BY <2>3, <2>5, <3>1
    <3> QED BY <3>2, <3>3
  <2>7. \A i \in DOMAIN creates : creates[i] \in SpeakerRow
    BY <2>3, <2>5 DEF Entry, SpeakerRow
  <2>8. Invited(creates) BY <2>5, <2>6, <2>7 DEF Invited
  <2>9. normalizeSet(creates) = normalizeSet(entries)
    <3>1. \A i \in DOMAIN entries : speakerSetKey(creates[i]) = speakerSetKey(entries[i])
      BY <2>5 DEF speakerSetKey
    <3>2. KeysOf(creates) = KeysOf(entries) BY <2>5, <3>1 DEF KeysOf
    <3> QED BY <3>2, SetsAreCounts
  <2> QED BY <2>1, <2>4, <2>8, <2>9
<1> QED BY <1>2, <1>3, SentTyped

\* The lists a transaction may write.
Listed(data) ==
  /\ "equipment" \in DOMAIN data => data.equipment \subseteq Amenities
  /\ "speakers" \in DOMAIN data => Invited(data.speakers)

EntriesOf(data) == IF "speakers" \in DOMAIN data THEN data.speakers ELSE <<>>

\* Each entry is connected to a row that has its address, or is a row of its own.
Placed(entries, id) ==
  /\ id \in [DOMAIN entries -> Speakers]
  /\ \A i, j \in DOMAIN entries : id[i] = id[j] => i = j
  /\ \A i \in DOMAIN entries :
       \/ ~IsNew(entries[i]) /\ Connects(entries[i], id[i])
       \/ IsNew(entries[i]) /\ id[i] \notin Cataloged /\ speaker'[id[i]] = entries[i]

\* What is written for activity a.
NewLineup(before, data, id) ==
  [speakers |-> IF "speakers" \in DOMAIN data THEN {id[i] : i \in DOMAIN EntriesOf(data)}
                ELSE before.speakers,
   equipment |-> IF "equipment" \in DOMAIN data THEN data.equipment ELSE before.equipment]

\* A transaction that writes a line-up gives each place of the list a row.
LEMMA WriteShape ==
  ASSUME NEW a, NEW before, NEW data, Write(a, before, data)
  PROVE  \E id : /\ Placed(EntriesOf(data), id)
                 /\ speaker' = Saved(EntriesOf(data), id)
                 /\ speakers_email_key(speaker')
                 /\ lineup' = [lineup EXCEPT ![a] = NewLineup(before, data, id)]
<1> DEFINE entries == EntriesOf(data)
<1>0. PICK id \in [DOMAIN entries -> Speakers] :
        /\ \A i, j \in DOMAIN entries : id[i] = id[j] => i = j
        /\ \A i \in DOMAIN entries :
             IF IsNew(entries[i]) THEN id[i] \notin Cataloged ELSE Connects(entries[i], id[i])
        /\ LET rows == Saved(entries, id)
           IN  /\ speakers_email_key(rows) /\ speakers_user_id_key(rows)
               /\ speaker' = rows
        /\ lineup' = [lineup EXCEPT ![a] =
             [speakers |-> IF "speakers" \in DOMAIN data THEN {id[i] : i \in DOMAIN entries}
                           ELSE before.speakers,
              equipment |-> IF "equipment" \in DOMAIN data THEN data.equipment
                            ELSE before.equipment]]
  BY DEF Write, EntriesOf
<1>1. /\ \A i, j \in DOMAIN entries : id[i] = id[j] => i = j
      /\ \A i \in DOMAIN entries : IsNew(entries[i]) => id[i] \notin Cataloged
      /\ \A i \in DOMAIN entries : ~IsNew(entries[i]) => Connects(entries[i], id[i])
      /\ speakers_email_key(speaker') /\ speaker' = Saved(entries, id)
      /\ lineup' = [lineup EXCEPT ![a] = NewLineup(before, data, id)]
  <2> HIDE DEF entries
  <2>1. lineup' = [lineup EXCEPT ![a] = NewLineup(before, data, id)]
    BY <1>0 DEF NewLineup, entries
  <2> QED BY <1>0, <2>1
<1> HIDE DEF entries
<1>2. ASSUME NEW i \in DOMAIN entries, IsNew(entries[i]) PROVE speaker'[id[i]] = entries[i]
  <2>1. id[i] \in Speakers /\ \E j \in DOMAIN entries : id[j] = id[i] /\ IsNew(entries[j])
    BY <1>1, <1>2
  <2>2. (CHOOSE j \in DOMAIN entries : id[j] = id[i]) = i BY <1>1, <1>2
  <2> QED BY <1>1, <2>1, <2>2 DEF Saved
<1>3. Placed(entries, id) BY <1>1, <1>2 DEF Placed
<1> QED BY <1>1, <1>3 DEF entries

\* The catalogue keeps its rows, and has those that are named.
LEMMA WriteCatalogs ==
  ASSUME Inv, NEW entries, NEW id, Placed(entries, id), speaker' = Saved(entries, id),
         \A i \in DOMAIN entries : entries[i] \in SpeakerRow
  PROVE  /\ speaker' \in [Speakers -> SpeakerRow \cup {Null}]
         /\ \A s \in Cataloged : speaker'[s] = speaker[s] /\ s \in Cataloged'
         /\ \A i \in DOMAIN entries : id[i] \in Cataloged'
         /\ \A s \in Cataloged' : s \in Cataloged \/ \E i \in DOMAIN entries :
                                                       speaker'[s] = entries[i]
<1>1. DOMAIN speaker' = Speakers BY DEF Saved
<1>2. ASSUME NEW s \in Speakers, NEW i \in DOMAIN entries, id[i] = s, IsNew(entries[i])
      PROVE  s \notin Cataloged /\ speaker'[s] = entries[i]
  BY <1>2 DEF Placed
<1>3. ASSUME NEW s \in Speakers, ~ \E i \in DOMAIN entries : id[i] = s /\ IsNew(entries[i])
      PROVE  speaker'[s] = speaker[s]
  BY <1>3 DEF Saved
<1>4. \A s \in Speakers : speaker[s] \in SpeakerRow \cup {Null} BY DEF Inv, SpeakerTables
<1>5. \A s \in Speakers : speaker'[s] \in SpeakerRow \cup {Null} BY <1>2, <1>3, <1>4
<1>6. speaker' \in [Speakers -> SpeakerRow \cup {Null}]
  <2>1. speaker' = [s \in Speakers |-> speaker'[s]] BY DEF Saved
  <2> QED BY <1>5, <2>1
<1>7. \A s \in Cataloged : speaker'[s] = speaker[s] /\ s \in Cataloged'
  BY <1>2, <1>3 DEF Cataloged
<1>8. \A i \in DOMAIN entries : id[i] \in Cataloged'
  <2> SUFFICES ASSUME NEW i \in DOMAIN entries PROVE id[i] \in Cataloged' OBVIOUS
  <2>1. CASE IsNew(entries[i])
    BY <2>1, SpeakersAssumption DEF Placed, Cataloged
  <2>2. CASE ~IsNew(entries[i]) BY <2>2, <1>7 DEF Placed, Connects
  <2> QED BY <2>1, <2>2
<1>9. \A s \in Cataloged' : s \in Cataloged \/ \E i \in DOMAIN entries : speaker'[s] = entries[i]
  BY <1>2, <1>3 DEF Cataloged
<1> QED BY <1>6, <1>7, <1>8, <1>9

\* The tables of speakers after a transaction that writes a line-up.
LEMMA WriteKeeps ==
  ASSUME Inv, NEW a \in Activities, NEW before, NEW data, Listed(data), Write(a, before, data),
         before \in Lineup, before.speakers \subseteq Cataloged,
         UNCHANGED accounts, posted' \subseteq Activities
  PROVE  SpeakerTables' /\ \A b \in Activities : b # a => lineup'[b] = lineup[b]
<1> DEFINE entries == EntriesOf(data)
<1>1. PICK id : /\ Placed(entries, id)
                /\ speaker' = Saved(entries, id)
                /\ speakers_email_key(speaker')
                /\ lineup' = [lineup EXCEPT ![a] = NewLineup(before, data, id)]
  BY WriteShape
<1>2. \A i \in DOMAIN entries :
        /\ entries[i] \in SpeakerRow
        /\ entries[i].userId # Null => /\ entries[i].userId = entries[i].email
                                       /\ entries[i].userId \in accounts
  BY DEF Listed, Invited, EntriesOf
<1> HIDE DEF entries
<1>3. /\ speaker' \in [Speakers -> SpeakerRow \cup {Null}]
      /\ \A s \in Cataloged : speaker'[s] = speaker[s] /\ s \in Cataloged'
      /\ \A i \in DOMAIN entries : id[i] \in Cataloged'
      /\ \A s \in Cataloged' : s \in Cataloged \/ \E i \in DOMAIN entries :
                                                    speaker'[s] = entries[i]
  BY <1>1, <1>2, WriteCatalogs
<1>4. \A s \in Cataloged' : speaker'[s].userId # Null =>
        speaker'[s].userId = speaker'[s].email /\ speaker'[s].userId \in accounts
  BY <1>2, <1>3 DEF Inv, SpeakerTables
<1> DEFINE new == NewLineup(before, data, id)
<1>5. new.speakers \subseteq Cataloged'
  BY <1>3 DEF NewLineup, EntriesOf, entries
<1>6. new \in Lineup
  <2>1. new.speakers \subseteq Speakers BY <1>5 DEF Cataloged
  <2>2. new.equipment \subseteq Amenities BY DEF NewLineup, Listed, Lineup
  <2>3. new = [speakers |-> new.speakers, equipment |-> new.equipment] BY DEF NewLineup
  <2> HIDE DEF new
  <2> QED BY <2>1, <2>2, <2>3 DEF Lineup
<1> HIDE DEF new
<1>7. \A b \in Activities : lineup'[b] = IF b = a THEN new ELSE lineup[b]
  BY <1>1 DEF Inv, SpeakerTables, new
<1>8. lineup' \in [Activities -> Lineup \cup {Null}]
  BY <1>1, <1>6 DEF Inv, SpeakerTables, new
<1>9. \A b \in Activities : Posted(b)' => lineup'[b].speakers \subseteq Cataloged'
  BY <1>3, <1>5, <1>7 DEF Inv, SpeakerTables, Posted
<1>10. speakers_email_key(speaker)' BY <1>1 DEF speakers_email_key
<1> QED BY <1>3, <1>4, <1>7, <1>8, <1>9, <1>10 DEF Inv, SpeakerTables

\* What a request about a line-up decided with.
LEMMA LineupDecided ==
  ASSUME Inv, NEW a \in Activities, NEW input \in Sent.lineups, NEW op, NEW told,
         op \in {"createLineup", "replaceLineup"}
  PROVE  Decided([op |-> op, id |-> a, data |-> Prepared(input), told |-> told])
<1>1. Listed(Prepared(input)) BY PreparedTyped DEF Listed
<1> QED BY <1>1 DEF Decided, Listed

\* A line-up is created, replaced or deleted.
LEMMA LineupKeeps ==
  ASSUME Inv, NEW w \in Workers
  PROVE  /\ \A a \in Activities, input \in Sent.lineups :
              BeginCreateLineup(w, a, input) \/ BeginReplaceLineup(w, a, input) => Inv'
         /\ CommitCreateLineup(w) \/ CommitReplaceLineup(w) => Inv'
         /\ \A a \in Activities : DeleteLineup(w, a) => Inv'
<1>1. ASSUME NEW a \in Activities, NEW input \in Sent.lineups,
             BeginCreateLineup(w, a, input) \/ BeginReplaceLineup(w, a, input)
      PROVE  Inv'
  <2>1. PICK op, told :
          /\ op \in {"createLineup", "replaceLineup"}
          /\ tx' = [tx EXCEPT ![w] = [op |-> op, id |-> a, data |-> Prepared(input),
                                      told |-> told]]
    BY <1>1 DEF BeginCreateLineup, BeginReplaceLineup, Begin
  <2>2. UNCHANGED <<rooms, now, clients, people>>
    BY <1>1 DEF BeginCreateLineup, BeginReplaceLineup, Begin
  <2>3. PICK t : t = [op |-> op, id |-> a, data |-> Prepared(input), told |-> told] OBVIOUS
  <2>4. Decided(t) BY <2>1, <2>3, LineupDecided
  <2> QED BY <2>1, <2>2, <2>3, <2>4, QuietStep
<1>2. ASSUME CommitCreateLineup(w) \/ CommitReplaceLineup(w) PROVE Inv'
  <2>1. PICK t : t = tx[w] OBVIOUS
  <2>2. PICK a, data : a = t.id /\ data = t.data OBVIOUS
  <2>3. a \in Activities /\ Listed(data)
    BY <1>2, <2>1, <2>2 DEF CommitCreateLineup, CommitReplaceLineup, Commits, Idle, Inv, Held,
                            Decided, Listed
  <2>4. /\ tx' = [tx EXCEPT ![w] = Null] /\ UNCHANGED <<rooms, now, clients, accounts>>
    BY <1>2 DEF CommitCreateLineup, CommitReplaceLineup, Commits
  <2>5. PICK before \in Lineup : before.speakers \subseteq Cataloged /\ Write(a, before, data)
    <3>1. CASE CommitCreateLineup(w)
      <4> DEFINE none == [speakers |-> {}, equipment |-> {}]
      <4>1. none \in Lineup /\ none.speakers = {} BY DEF Lineup
      <4>2. Write(a, none, data) BY <2>1, <2>2, <3>1 DEF CommitCreateLineup
      <4> HIDE DEF none
      <4> QED BY <4>1, <4>2
    <3>2. CASE CommitReplaceLineup(w)
      <4>1. lineup[a] \in Lineup /\ lineup[a].speakers \subseteq Cataloged
        BY <2>1, <2>2, <2>3, <3>2 DEF CommitReplaceLineup, Posted, Inv, SpeakerTables
      <4> QED BY <2>1, <2>2, <3>2, <4>1 DEF CommitReplaceLineup
    <3> QED BY <1>2, <3>1, <3>2
  <2>6. /\ posted' \in {posted, posted \cup {a}}
        /\ a \in posted' /\ posted \subseteq posted' /\ posted' \subseteq Activities
    BY <1>2, <2>1, <2>2, <2>3 DEF CommitCreateLineup, CommitReplaceLineup, Inv, SpeakerTables
  <2>7. SpeakerTables' /\ \A b \in Activities : b # a => lineup'[b] = lineup[b]
    BY <2>3, <2>4, <2>5, <2>6, WriteKeeps
  <2>8. \A b \in Activities : Posted(b)' => b \in posted'
    BY <2>6, <2>7 DEF Inv, Posted
  <2>9. TypeOK' /\ RoomLogReplays' /\ Lasting' /\ WindowsAreIssued'
    BY <2>4 DEF Inv, rooms, TypeOK, RoomLogReplays, Lasting, WindowsAreIssued, Booked,
                SlotsOf, WindowsOf
  <2>10. UNCHANGED <<classroom, accounts>> BY <2>4 DEF rooms
  <2>11. DOMAIN tx' = Workers /\ \A v \in Workers : Held(v)' BY <2>4, <2>10, DecidedStill
  <2> QED BY <2>7, <2>8, <2>9, <2>11 DEF Inv
<1>3. ASSUME NEW a \in Activities, DeleteLineup(w, a) PROVE Inv'
  <2>1. /\ lineup' = [lineup EXCEPT ![a] = Null]
        /\ UNCHANGED <<speaker, posted, accounts, vars>>
    BY <1>3 DEF DeleteLineup
  <2>2. TypeOK' /\ RoomLogReplays' /\ Lasting' /\ WindowsAreIssued'
    BY <2>1 DEF Inv, vars, TypeOK, RoomLogReplays, Lasting, WindowsAreIssued, Booked,
                SlotsOf, WindowsOf
  <2>3. \A b \in Activities : lineup'[b] = IF b = a THEN Null ELSE lineup[b]
    BY <2>1 DEF Inv, SpeakerTables
  <2>4. SpeakerTables' /\ \A b \in Activities : Posted(b)' => b \in posted'
    BY <2>1, <2>3 DEF Inv, SpeakerTables, speakers_email_key, Cataloged, Posted
  <2>5. DOMAIN tx' = Workers /\ \A v \in Workers : Held(v)'
    BY <2>1 DEF Inv, vars, Held, Decided, Invited, Exists
  <2> QED BY <2>2, <2>4, <2>5 DEF Inv
<1> QED BY <1>1, <1>2, <1>3

\* Somebody signs up: the addresses of accounts only grow.
LEMMA SignUpKeeps ==
  ASSUME Inv, NEW address \in Sent.signUps, SignUp(address)
  PROVE  Inv'
<1>1. /\ accounts' = accounts \cup {address} /\ address \in Addresses
      /\ UNCHANGED <<speaker, lineup, posted, vars>>
  BY SentTyped DEF SignUp
<1>2. TypeOK' /\ RoomLogReplays' /\ Lasting' /\ WindowsAreIssued'
  BY <1>1 DEF Inv, vars, TypeOK, RoomLogReplays, Lasting, WindowsAreIssued, Booked,
              SlotsOf, WindowsOf
<1>3. SpeakerTables' /\ \A b \in Activities : Posted(b)' => b \in posted'
  BY <1>1 DEF Inv, SpeakerTables, speakers_email_key, Cataloged, Posted
<1>4. DOMAIN tx' = Workers /\ \A v \in Workers : Held(v)'
  BY <1>1 DEF Inv, vars, Held, Decided, Invited, Exists
<1> QED BY <1>2, <1>3, <1>4 DEF Inv

\* Every step keeps the invariant.
LEMMA InvNext == Inv /\ [SpeakersNext]_<<vars, people>> => Inv'
<1> SUFFICES ASSUME Inv, [SpeakersNext]_<<vars, people>> PROVE Inv' OBVIOUS
<1>1. CASE Next /\ UNCHANGED people BY <1>1, RoomStepKeeps
<1>2. ASSUME NEW address \in Sent.signUps, SignUp(address) PROVE Inv' BY <1>2, SignUpKeeps
<1>3. ASSUME NEW w \in Workers,
             \/ \E a \in Activities, input \in Sent.lineups :
                  BeginCreateLineup(w, a, input) \/ BeginReplaceLineup(w, a, input)
             \/ CommitCreateLineup(w) \/ CommitReplaceLineup(w)
             \/ \E a \in Activities : DeleteLineup(w, a)
      PROVE  Inv'
  BY <1>3, LineupKeeps
<1>4. CASE UNCHANGED <<vars, people>>
  <2>1. UNCHANGED <<tx, people>> /\ UNCHANGED <<rooms, now, clients>> /\ UNCHANGED classroom
    BY <1>4 DEF vars, rooms
  <2>2. TypeOK' /\ RoomLogReplays' /\ Lasting' /\ WindowsAreIssued'
    BY <2>1 DEF Inv, rooms, TypeOK, RoomLogReplays, Lasting, WindowsAreIssued, Booked,
                SlotsOf, WindowsOf
  <2> QED BY <2>1, <2>2, DirectStep
<1> QED BY <1>1, <1>2, <1>3, <1>4 DEF SpeakersNext

\* The tables, and what is in flight, keep what they promise whatever interleaves.
THEOREM InvAlways == SpeakersSpec => []Inv
BY InvInit, InvNext, PTL DEF SpeakersSpec

\* Whatever requests interleave on a room, replaying its audit events gives the amenities and
\* the windows the tables hold: addClassroomAmenity, addClassroomAvailability and their
\* removals record in their own transaction what that transaction did.
THEOREM RoomLogReplaysAlways == SpeakersSpec => []RoomLogReplays
<1>1. Inv => RoomLogReplays BY DEF Inv
<1> QED BY <1>1, InvAlways, PTL

\* The catalogue of speakers and the line-ups stay consistent: one speaker per address
\* (speakers_email_key), every speaker shown is in the catalogue, and a user's speaker has
\* the address of its account.
THEOREM SpeakerTablesAlways == SpeakersSpec => []SpeakerTables
<1>1. Inv => SpeakerTables BY DEF Inv
<1> QED BY <1>1, InvAlways, PTL

-----------------------------------------------------------------------------
(* The search and the booking. *)

\* What has not begun cannot meet a reservation that is over.
LEMMA OverlapIsReserving ==
  ASSUME NEW row \in ActivityRow, row.startTime < row.endTime, NEW instant \in Int,
         NEW startTime \in TimesOfDay, toInstitutionalInstant(row.date, startTime) >= instant,
         row.endTime > startTime
  PROVE  buildReservingActivityWhere(row, instant) <=> row.status \in RESERVING_STATUSES
<1>1. /\ row.date \in Int /\ row.endTime \in TimesOfDay /\ row.endTime \in Int
      /\ row.startTime \in TimesOfDay
      /\ row.status \in {"DRAFT", "SCHEDULED", "CANCELLED"} /\ startTime \in Int
  <2>1. /\ row.date \in Dates /\ row.endTime \in TimesOfDay /\ row.startTime \in TimesOfDay
        /\ row.status \in {"DRAFT", "SCHEDULED", "CANCELLED"}
    BY DEF ActivityRow
  <2>2. TimesOfDay \subseteq Int BY TimeAssumption DEF TimesOfDay
  <2>3. Dates \subseteq Int BY RoomsAssumption
  <2> QED BY <2>1, <2>2, <2>3
<1>2. instant < toInstitutionalInstant(row.date, row.endTime)
  <2>1. DayStart(row.date) \in Int
    BY <1>1, TimeAssumption DEF DayStart
  <2>2. /\ DayStart(row.date) + startTime >= instant
        /\ DayStart(row.date) + row.endTime > DayStart(row.date) + startTime
    BY <1>1, <2>1 DEF toInstitutionalInstant
  <2> QED BY <1>1, <2>1, <2>2 DEF toInstitutionalInstant
<1>3. \/ row.date > startOfInstitutionalDay(instant)
      \/ /\ row.date = startOfInstitutionalDay(instant)
         /\ row.endTime > getInstitutionalTimeOfDay(instant)
  BY <1>1, <1>2, ClockOrder
<1> QED
  BY <1>1, <1>3 DEF buildReservingActivityWhere, PUBLISHED_ACTIVITY_STATUSES, RESERVING_STATUSES

\* The search and the guard ask the same of a room: its capacity, a window around the slot,
\* and no reservation that overlaps.
LEMMA SearchAgrees == Inv => OfferedIsBookable
<1> SUFFICES ASSUME Inv, NEW date \in Dates, NEW startTime \in TimesOfDay,
                    NEW endTime \in TimesOfDay, NEW least \in Capacities \cup {Null},
                    startTime < endTime, toInstitutionalInstant(date, startTime) >= now
             PROVE  findAvailableClassrooms(
                      [date |-> date, startTime |-> startTime, endTime |-> endTime,
                       minCapacity |-> least, amenity |-> Null])
                      = {r \in Classrooms :
                           assertActivityScheduleIsAvailable(Null, r,
                             [date |-> date, startTime |-> startTime, endTime |-> endTime,
                              maxCapacity |-> least])}
  BY DEF OfferedIsBookable
<1>1. PICK query : query = [date |-> date, startTime |-> startTime, endTime |-> endTime,
                            minCapacity |-> least, amenity |-> Null]
  OBVIOUS
<1>2. PICK booking : booking = [date |-> date, startTime |-> startTime, endTime |-> endTime,
                                maxCapacity |-> least]
  OBVIOUS
<1>3. /\ query.date = date /\ query.startTime = startTime /\ query.endTime = endTime
      /\ query.minCapacity = least /\ query.amenity = Null
      /\ booking.date = date /\ booking.startTime = startTime /\ booking.endTime = endTime
      /\ booking.maxCapacity = least
  BY <1>1, <1>2
<1>4. \A r \in Classrooms : AvailableFor(r, date, query) <=> AvailableFor(r, date, booking)
  BY <1>3 DEF AvailableFor
<1>5. Booked \ {Null} = Booked BY RoomsAssumption DEF Booked
<1>6. ASSUME NEW b \in Booked, activity[b].date = date
      PROVE  /\ Overlap(activity[b], query) <=> Overlap(activity[b], booking)
             /\ Overlap(activity[b], query) =>
                  (buildReservingActivityWhere(activity[b], now)
                     <=> activity[b].status \in RESERVING_STATUSES)
  <2>1. PICK row : row = activity[b] OBVIOUS
  <2>2. row \in ActivityRow /\ row.startTime < row.endTime
    BY <2>1 DEF Inv, TypeOK, Lasting, Booked
  <2>3. Overlap(row, query) => row.endTime > startTime BY <1>3 DEF Overlap
  <2>4. now \in Int BY DEF Inv, TypeOK
  <2>5. Overlap(row, query) => (buildReservingActivityWhere(row, now)
                                  <=> row.status \in RESERVING_STATUSES)
    BY <1>6, <2>1, <2>2, <2>3, <2>4, OverlapIsReserving
  <2>6. Overlap(row, query) <=> Overlap(row, booking) BY <1>3 DEF Overlap
  <2> QED BY <2>1, <2>5, <2>6
<1>7. \A r \in Classrooms : BlockedFor(r, query)
        <=> ~ \A b \in Booked : /\ activity[b].classroomId = r /\ activity[b].date = booking.date
                                /\ activity[b].status \in RESERVING_STATUSES
                                => ~Overlap(activity[b], booking)
  BY <1>3, <1>6 DEF BlockedFor
<1>8. \A r \in Classrooms :
        (/\ Exists(r) /\ classroom[r].isActive
         /\ query.minCapacity # Null => classroom[r].capacity >= query.minCapacity
         /\ query.amenity # Null => HasAmenity(r, query.amenity)
         /\ AvailableFor(r, query.date, query)
         /\ ~BlockedFor(r, query))
        <=> assertActivityScheduleIsAvailable(Null, r, booking)
  BY <1>3, <1>4, <1>5, <1>7 DEF assertActivityScheduleIsAvailable
<1>9. findAvailableClassrooms(query)
        = {r \in Classrooms : assertActivityScheduleIsAvailable(Null, r, booking)}
  BY <1>8 DEF findAvailableClassrooms
<1> QED BY <1>1, <1>2, <1>9

\* findAvailableClassrooms offers a room for a slot that has not begun exactly when
\* assertActivityScheduleIsAvailable would let an activity be booked in it, whatever is booked.
THEOREM OfferedIsBookableAlways == SpeakersSpec => []OfferedIsBookable
BY InvAlways, SearchAgrees, PTL

-----------------------------------------------------------------------------
(* One request at a time. *)

InFlight == {w \in Workers : ~Idle(w)}

\* What the tables still are for a request nothing interferes with.
Upheld(t) ==
  /\ t.op = "addClassroomAmenity" => ~HasAmenity(t.id, t.amenity)
  /\ t.op = "addClassroomAvailability" => ~OverlapsWindow(t.id, t.slot)
  /\ t.op = "replaceLineup" /\ Posted(t.id) =>
       /\ "equipment" \in DOMAIN t.data \ t.told => t.data.equipment = lineup[t.id].equipment
       /\ "speakers" \in DOMAIN t.data \ t.told =>
            normalizeSet(t.data.speakers) = normalizeSet(Shown(t.id))

Kept(w) == Upheld(tx[w])

AloneInv ==
  /\ IsFiniteSet(InFlight)
  /\ Alone => /\ WindowsAndAmenitiesAreDistinct
              /\ \A w \in InFlight : InFlight = {w} /\ Kept(w)

\* A request is accepted alone only when nobody is in flight.
LEMMA AcceptsAlone ==
  ASSUME Inv, AloneInv, Alone, NEW w \in Workers, Accepts(w)
  PROVE  InFlight = {}
<1>1. Cardinality(InFlight) \in Nat /\ Cardinality(InFlight) < 1
  BY FS_CardinalityType DEF AloneInv, Alone, Accepts, InFlight
<1>2. Cardinality(InFlight) = 0 BY <1>1
<1> QED BY <1>2, FS_EmptySet DEF AloneInv

\* A step leaves w alone in flight, or nobody.
LEMMA AloneStep ==
  ASSUME Inv, AloneInv, NEW w \in Workers, NEW t, tx' = [tx EXCEPT ![w] = t],
         UNCHANGED clients, Accepts(w) \/ ~Idle(w),
         Alone => WindowsAndAmenitiesAreDistinct' /\ (t # Null => Kept(w)')
  PROVE  AloneInv'
<1>1. InFlight' \subseteq InFlight \cup {w} BY DEF InFlight, Idle, Inv
<1>2. IsFiniteSet(InFlight \cup {w}) BY FS_AddElement DEF AloneInv
<1>3. IsFiniteSet(InFlight') BY <1>1, <1>2, FS_Subset
<1>4. Alone' <=> Alone BY DEF Alone, Sent
<1>5. ASSUME Alone, NEW v \in InFlight' PROVE InFlight' = {v} /\ Kept(v)'
  <2>1. InFlight \subseteq {w} BY <1>5, AcceptsAlone DEF AloneInv, InFlight
  <2>2. v = w /\ InFlight' = {w} BY <1>1, <1>5, <2>1
  <2>3. t # Null BY <1>5, <2>2 DEF InFlight, Idle, Inv
  <2> QED BY <1>5, <2>2, <2>3
<1> QED BY <1>3, <1>4, <1>5 DEF AloneInv

\* Windows and amenities that nobody writes stay distinct.
LEMMA DistinctStill ==
  ASSUME WindowsAndAmenitiesAreDistinct, UNCHANGED <<window, amenity, clients>>
  PROVE  WindowsAndAmenitiesAreDistinct'
BY DEF WindowsAndAmenitiesAreDistinct, WindowsOf, Alone, Sent

\* What a request was decided with is kept while nothing is written.
LEMMA UpheldStill ==
  ASSUME Inv, NEW w \in Workers, NEW t, tx' = [tx EXCEPT ![w] = t],
         UNCHANGED <<window, amenity, speaker, lineup>>, Upheld(t)
  PROVE  Kept(w)'
<1>1. tx'[w] = t BY DEF Inv
<1> QED BY <1>1 DEF Kept, Upheld, HasAmenity, OverlapsWindow, SlotsOf, WindowsOf, Posted, Shown

\* A request that begins, or ends, while windows, amenities and line-ups stay.
LEMMA AloneQuiet ==
  ASSUME Inv, AloneInv, NEW w \in Workers, NEW t, tx' = [tx EXCEPT ![w] = t],
         UNCHANGED <<window, amenity, speaker, lineup, clients>>, Accepts(w) \/ ~Idle(w),
         Alone /\ t # Null => Upheld(t)
  PROVE  AloneInv'
<1>1. Alone => WindowsAndAmenitiesAreDistinct' BY DistinctStill DEF AloneInv
<1>2. Alone => (t # Null => Kept(w)') BY UpheldStill
<1> QED BY <1>1, <1>2, AloneStep

\* A write of one step: nobody is in flight.
LEMMA AloneDirect ==
  ASSUME Inv, AloneInv, NEW w \in Workers, Accepts(w), UNCHANGED <<tx, window, amenity, clients>>
  PROVE  AloneInv'
<1>1. InFlight' = InFlight BY DEF InFlight, Idle
<1>2. Alone' <=> Alone BY DEF Alone, Sent
<1>3. Alone => InFlight = {} BY AcceptsAlone
<1> QED BY <1>1, <1>2, <1>3, DistinctStill DEF AloneInv

\* What the one request in flight may count on.
LEMMA AloneHolds ==
  ASSUME Inv, AloneInv, Alone, NEW w \in Workers, ~Idle(w)
  PROVE  Kept(w) /\ WindowsAndAmenitiesAreDistinct
BY DEF AloneInv, InFlight

\* Requests about classrooms and amenities.
LEMMA AloneClassrooms ==
  ASSUME Inv, AloneInv, NEW w \in Workers, UNCHANGED people, ClassroomRequest(w)
  PROVE  AloneInv'
<1>1. ASSUME NEW r \in Classrooms, NEW row \in Sent.rooms, CreateClassroom(w, r, row)
      PROVE  AloneInv'
  BY <1>1, AloneDirect DEF CreateClassroom
<1>2. ASSUME NEW r \in Classrooms, NEW input \in Sent.inputs, BeginUpdateClassroom(w, r, input)
      PROVE  AloneInv'
  <2>1. PICK t : t = [op |-> "updateClassroom", id |-> r, data |-> input] OBVIOUS
  <2>2. Upheld(t) BY <2>1 DEF Upheld
  <2>3. /\ tx' = [tx EXCEPT ![w] = t] /\ Accepts(w)
        /\ UNCHANGED <<window, amenity, speaker, lineup, clients>>
    BY <1>2, <2>1 DEF BeginUpdateClassroom, Begin, rooms, people
  <2> QED BY <2>2, <2>3, AloneQuiet
<1>3. ASSUME CommitUpdateClassroom(w) PROVE AloneInv'
  <2>1. /\ tx' = [tx EXCEPT ![w] = Null] /\ ~Idle(w)
        /\ UNCHANGED <<window, amenity, speaker, lineup, clients>>
    BY <1>3 DEF CommitUpdateClassroom, Commits, people
  <2> QED BY <2>1, AloneQuiet
<1>4. ASSUME NEW r \in Classrooms, NEW name \in Sent.amenities,
             BeginAddClassroomAmenity(w, r, name)
      PROVE  AloneInv'
  <2>1. PICK t : t = [op |-> "addClassroomAmenity", id |-> r, amenity |-> name] OBVIOUS
  <2>2. Upheld(t) BY <1>4, <2>1 DEF Upheld, BeginAddClassroomAmenity
  <2>3. /\ tx' = [tx EXCEPT ![w] = t] /\ Accepts(w)
        /\ UNCHANGED <<window, amenity, speaker, lineup, clients>>
    BY <1>4, <2>1 DEF BeginAddClassroomAmenity, Begin, rooms, people
  <2> QED BY <2>2, <2>3, AloneQuiet
<1>5. ASSUME CommitAddClassroomAmenity(w) PROVE AloneInv'
  <2>1. PICK t : t = tx[w] OBVIOUS
  <2>2. PICK r, name : r = t.id /\ name = t.amenity OBVIOUS
  <2>3. /\ amenity' = [amenity EXCEPT ![r] = @ \cup {name}]
        /\ UNCHANGED <<window, clients>> /\ ~Idle(w)
        /\ tx' = [tx EXCEPT ![w] = Null]
    BY <1>5, <2>1, <2>2 DEF CommitAddClassroomAmenity, Commits
  <2>4. Alone => ~HasAmenity(r, name) /\ WindowsAndAmenitiesAreDistinct
    BY <1>5, <2>1, <2>2, <2>3, AloneHolds DEF CommitAddClassroomAmenity, Commits, Kept, Upheld
  <2>5. r \in Classrooms
    BY <1>5, <2>1, <2>2 DEF CommitAddClassroomAmenity, Commits, Idle, Inv, Held, Decided
  <2>6. \A q \in Classrooms : amenity'[q] = IF q = r THEN amenity[q] \cup {name} ELSE amenity[q]
    BY <2>3 DEF Inv, TypeOK
  <2>7. \A q \in Classrooms : WindowsOf(q)' = WindowsOf(q) BY <2>3 DEF WindowsOf
  <2>8. ASSUME Alone PROVE WindowsAndAmenitiesAreDistinct'
    <3>1. \A b \in amenity[r] : Folded[b] # Folded[name] BY <2>4, <2>8 DEF HasAmenity
    <3>2. \A q \in Classrooms : \A b, c \in amenity'[q] : Folded[b] = Folded[c] => b = c
      <4> SUFFICES ASSUME NEW q \in Classrooms, NEW b \in amenity'[q], NEW c \in amenity'[q],
                          Folded[b] = Folded[c]
                   PROVE  b = c
        OBVIOUS
      <4>1. b \in amenity[q] /\ c \in amenity[q] => b = c
        BY <2>4, <2>8 DEF WindowsAndAmenitiesAreDistinct
      <4>2. CASE q = r
        <5>1. amenity'[q] = amenity[q] \cup {name} BY <2>6, <4>2
        <5>2. (b \in amenity[q] \/ b = name) /\ (c \in amenity[q] \/ c = name) BY <5>1
        <5>3. \A d \in amenity[q] : Folded[d] # Folded[name] BY <3>1, <4>2
        <5> QED BY <4>1, <5>2, <5>3
      <4>3. CASE q # r BY <2>6, <4>1, <4>3
      <4> QED BY <4>2, <4>3
    <3> QED BY <2>3, <2>4, <2>7, <2>8, <3>2 DEF WindowsAndAmenitiesAreDistinct
  <2> QED BY <2>3, <2>8, AloneStep
<1>6. ASSUME NEW r \in Classrooms, NEW name \in Sent.amenities,
             BeginRemoveClassroomAmenity(w, r, name)
      PROVE  AloneInv'
  <2>1. PICK t : /\ t.op = "removeClassroomAmenity" /\ tx' = [tx EXCEPT ![w] = t]
                 /\ Accepts(w) /\ UNCHANGED <<rooms, now, clients>>
    BY <1>6 DEF BeginRemoveClassroomAmenity, Begin
  <2>2. Upheld(t) BY <2>1 DEF Upheld
  <2>3. UNCHANGED <<window, amenity, speaker, lineup, clients>> BY <2>1 DEF rooms, people
  <2> QED BY <2>1, <2>2, <2>3, AloneQuiet
<1>7. ASSUME CommitRemoveClassroomAmenity(w) PROVE AloneInv'
  <2>1. /\ UNCHANGED <<window, clients>> /\ ~Idle(w) /\ tx' = [tx EXCEPT ![w] = Null]
    BY <1>7 DEF CommitRemoveClassroomAmenity, Commits
  <2>2. \A q \in Classrooms : amenity'[q] \subseteq amenity[q]
    BY <1>7 DEF CommitRemoveClassroomAmenity, Inv, TypeOK
  <2>3. \A q \in Classrooms : WindowsOf(q)' = WindowsOf(q) BY <2>1 DEF WindowsOf
  <2>4. ASSUME Alone PROVE WindowsAndAmenitiesAreDistinct'
    BY <2>1, <2>2, <2>3, <2>4, AloneHolds DEF WindowsAndAmenitiesAreDistinct
  <2> QED BY <2>1, <2>4, AloneStep
<1> QED BY <1>1, <1>2, <1>3, <1>4, <1>5, <1>6, <1>7 DEF ClassroomRequest

\* A window that overlaps none is apart from all.
LEMMA WindowsStayApart ==
  ASSUME Inv, Alone, WindowsAndAmenitiesAreDistinct, NEW r \in Classrooms, NEW slot \in Slot,
         NEW n \in Windows, n \notin issued, ~OverlapsWindow(r, slot),
         window' = [window EXCEPT ![n] = [classroomId |-> r, slot |-> slot]],
         UNCHANGED <<amenity, clients>>
  PROVE  WindowsAndAmenitiesAreDistinct'
<1>1. /\ \A q \in Classrooms : q # r => WindowsOf(q)' = WindowsOf(q)
      /\ WindowsOf(r)' = WindowsOf(r) \cup {n}
  BY WindowAdded
<1>2. \A q \in Classrooms : WindowsOf(q) \subseteq Windows \ {n}
  BY DEF WindowsOf, Inv, WindowsAreIssued
<1>3. /\ window'[n].slot = slot
      /\ \A m \in Windows : m # n => window'[m] = window[m]
  BY DEF Inv, TypeOK
<1>4. ASSUME NEW m \in WindowsOf(r), window[m].slot.dayOfWeek = slot.dayOfWeek
      PROVE  ~Overlap(window[m].slot, slot) /\ ~Overlap(slot, window[m].slot)
  <2>1. PICK other : other = window[m].slot OBVIOUS
  <2>2. other \in SlotsOf(r) /\ other \in Slot
    BY <2>1 DEF SlotsOf, WindowsOf, Inv, TypeOK, WindowRow
  <2>3. ~Overlap(other, slot) BY <1>4, <2>1, <2>2 DEF OverlapsWindow
  <2>4. TimesOfDay \subseteq Int BY TimeAssumption DEF TimesOfDay
  <2>5. /\ other.startTime \in Int /\ other.endTime \in Int
        /\ slot.startTime \in Int /\ slot.endTime \in Int
    BY <2>2, <2>4 DEF Slot
  <2>6. ~Overlap(slot, other) BY <2>3, <2>5 DEF Overlap
  <2> QED BY <2>1, <2>3, <2>6
<1>5. ASSUME NEW q \in Classrooms, NEW k \in WindowsOf(q)', NEW m \in WindowsOf(q)', k # m,
             window'[k].slot.dayOfWeek = window'[m].slot.dayOfWeek
      PROVE  ~Overlap(window'[k].slot, window'[m].slot)
  <2>1. k \in WindowsOf(q) /\ m \in WindowsOf(q) => ~Overlap(window'[k].slot, window'[m].slot)
    BY <1>2, <1>3, <1>5 DEF WindowsAndAmenitiesAreDistinct
  <2>2. CASE q # r BY <1>1, <2>1, <2>2
  <2>3. CASE q = r
    <3>1. (k = n /\ m \in WindowsOf(r)) \/ (m = n /\ k \in WindowsOf(r))
            \/ (k \in WindowsOf(q) /\ m \in WindowsOf(q))
      BY <1>1, <1>5, <2>3
    <3>2. CASE k = n /\ m \in WindowsOf(r) BY <1>2, <1>3, <1>4, <1>5, <3>2
    <3>3. CASE m = n /\ k \in WindowsOf(r) BY <1>2, <1>3, <1>4, <1>5, <3>3
    <3> QED BY <2>1, <3>1, <3>2, <3>3
  <2> QED BY <2>2, <2>3
<1> QED BY <1>5 DEF WindowsAndAmenitiesAreDistinct

\* Requests about windows.
LEMMA AloneWindows ==
  ASSUME Inv, AloneInv, NEW w \in Workers, UNCHANGED people, WindowRequest(w)
  PROVE  AloneInv'
<1>1. ASSUME NEW r \in Classrooms, NEW slot \in Sent.slots,
             BeginAddClassroomAvailability(w, r, slot)
      PROVE  AloneInv'
  <2>1. PICK t : t = [op |-> "addClassroomAvailability", id |-> r, slot |-> slot] OBVIOUS
  <2>2. Upheld(t) BY <1>1, <2>1 DEF Upheld, BeginAddClassroomAvailability
  <2>3. /\ tx' = [tx EXCEPT ![w] = t] /\ Accepts(w)
        /\ UNCHANGED <<window, amenity, speaker, lineup, clients>>
    BY <1>1, <2>1 DEF BeginAddClassroomAvailability, Begin, rooms, people
  <2> QED BY <2>2, <2>3, AloneQuiet
<1>2. ASSUME NEW n \in Windows, CommitAddClassroomAvailability(w, n) PROVE AloneInv'
  <2>1. PICK t : t = tx[w] OBVIOUS
  <2>2. PICK r, slot : r = t.id /\ slot = t.slot OBVIOUS
  <2>3. r \in Classrooms /\ slot \in Slot
    BY <1>2, <2>1, <2>2 DEF CommitAddClassroomAvailability, Commits, Idle, Inv, Held, Decided
  <2>4. /\ n \notin issued /\ window' = [window EXCEPT ![n] = [classroomId |-> r, slot |-> slot]]
        /\ UNCHANGED <<amenity, clients>> /\ ~Idle(w) /\ tx' = [tx EXCEPT ![w] = Null]
    BY <1>2, <2>1, <2>2 DEF CommitAddClassroomAvailability, Commits
  <2>5. Alone => ~OverlapsWindow(r, slot) /\ WindowsAndAmenitiesAreDistinct
    BY <1>2, <2>1, <2>2, <2>4, AloneHolds
       DEF CommitAddClassroomAvailability, Commits, Kept, Upheld
  <2>6. Alone => WindowsAndAmenitiesAreDistinct' BY <2>3, <2>4, <2>5, WindowsStayApart
  <2> QED BY <2>4, <2>6, AloneStep
<1>3. ASSUME NEW r \in Classrooms, NEW n \in Windows, BeginRemoveClassroomAvailability(w, r, n)
      PROVE  AloneInv'
  <2>1. PICK t : t = [op |-> "removeClassroomAvailability", id |-> n] OBVIOUS
  <2>2. Upheld(t) BY <2>1 DEF Upheld
  <2>3. /\ tx' = [tx EXCEPT ![w] = t] /\ Accepts(w)
        /\ UNCHANGED <<window, amenity, speaker, lineup, clients>>
    BY <1>3, <2>1 DEF BeginRemoveClassroomAvailability, Begin, rooms, people
  <2> QED BY <2>2, <2>3, AloneQuiet
<1>4. ASSUME CommitRemoveClassroomAvailability(w) PROVE AloneInv'
  <2>1. PICK n : n = tx[w].id OBVIOUS
  <2>2. n \in Windows
    BY <1>4, <2>1 DEF CommitRemoveClassroomAvailability, Commits, Idle, Inv, Held, Decided
  <2>3. /\ window[n] # Null /\ window' = [window EXCEPT ![n] = Null]
        /\ UNCHANGED <<amenity, clients>> /\ ~Idle(w) /\ tx' = [tx EXCEPT ![w] = Null]
    BY <1>4, <2>1 DEF CommitRemoveClassroomAvailability, Commits
  <2>4. \A q \in Classrooms : WindowsOf(q)' = WindowsOf(q) \ {n} BY <2>2, <2>3, WindowRemoved
  <2>5. \A q \in Classrooms : \A m \in WindowsOf(q) \ {n} : window'[m] = window[m]
    BY <2>3 DEF WindowsOf, Inv, TypeOK
  <2>6. ASSUME Alone PROVE WindowsAndAmenitiesAreDistinct'
    <3>1. Alone' BY <2>3, <2>6 DEF Alone, Sent
    <3>2. WindowsAndAmenitiesAreDistinct BY <2>6 DEF AloneInv
    <3> QED BY <2>3, <2>4, <2>5, <2>6, <3>2 DEF WindowsAndAmenitiesAreDistinct
  <2> QED BY <2>3, <2>6, AloneStep
<1> QED BY <1>1, <1>2, <1>3, <1>4 DEF WindowRequest

\* Requests about bookings.
LEMMA AloneBookings ==
  ASSUME Inv, AloneInv, NEW w \in Workers, UNCHANGED people, BookingRequest(w)
  PROVE  AloneInv'
<1>1. ASSUME NEW t, t.op = "booking", tx' = [tx EXCEPT ![w] = t], Accepts(w),
             UNCHANGED <<rooms, now, clients>>
      PROVE  AloneInv'
  <2>1. Upheld(t) BY <1>1 DEF Upheld
  <2>2. UNCHANGED <<window, amenity, speaker, lineup, clients>> BY <1>1 DEF rooms, people
  <2> QED BY <1>1, <2>1, <2>2, AloneQuiet
<1>2. ASSUME NEW a \in Activities, NEW row \in Sent.drafts, BeginCreateActivity(w, a, row)
      PROVE  AloneInv'
  <2>1. PICK t : t.op = "booking" /\ tx' = [tx EXCEPT ![w] = t]
    BY <1>2 DEF BeginCreateActivity, Begin
  <2> QED BY <1>1, <1>2, <2>1 DEF BeginCreateActivity, Begin
<1>3. ASSUME NEW a \in Activities, BeginPublishActivity(w, a) PROVE AloneInv'
  <2>1. PICK t : t.op = "booking" /\ tx' = [tx EXCEPT ![w] = t]
    BY <1>3 DEF BeginPublishActivity, Begin
  <2> QED BY <1>1, <1>3, <2>1 DEF BeginPublishActivity, Begin
<1>4. ASSUME CommitBooking(w) PROVE AloneInv'
  <2>1. /\ tx' = [tx EXCEPT ![w] = Null] /\ ~Idle(w)
        /\ UNCHANGED <<window, amenity, speaker, lineup, clients>>
    BY <1>4 DEF CommitBooking, Commits, people
  <2> QED BY <2>1, AloneQuiet
<1>5. ASSUME NEW a \in Activities, CancelActivity(w, a) PROVE AloneInv'
  BY <1>5, AloneDirect DEF CancelActivity
<1> QED BY <1>2, <1>3, <1>4, <1>5 DEF BookingRequest

\* Requests about line-ups.
LEMMA AloneLineups ==
  ASSUME Inv, AloneInv, NEW w \in Workers
  PROVE  /\ \A a \in Activities, input \in Sent.lineups :
              BeginCreateLineup(w, a, input) \/ BeginReplaceLineup(w, a, input) => AloneInv'
         /\ CommitCreateLineup(w) \/ CommitReplaceLineup(w) => AloneInv'
         /\ \A a \in Activities : DeleteLineup(w, a) => AloneInv'
<1>1. ASSUME NEW a \in Activities, NEW input \in Sent.lineups, BeginCreateLineup(w, a, input)
      PROVE  AloneInv'
  <2>1. PICK t : t.op = "createLineup" /\ tx' = [tx EXCEPT ![w] = t]
    BY <1>1 DEF BeginCreateLineup, Begin
  <2>2. Upheld(t) BY <2>1 DEF Upheld
  <2>3. Accepts(w) /\ UNCHANGED <<window, amenity, speaker, lineup, clients>>
    BY <1>1 DEF BeginCreateLineup, Begin, rooms, people
  <2> QED BY <2>1, <2>2, <2>3, AloneQuiet
<1>2. ASSUME NEW a \in Activities, NEW input \in Sent.lineups, BeginReplaceLineup(w, a, input)
      PROVE  AloneInv'
  <2>1. PICK t : t = [op |-> "replaceLineup", id |-> a, data |-> Prepared(input),
                      told |-> changedFields(a, input)]
    OBVIOUS
  <2>2. /\ tx' = [tx EXCEPT ![w] = t] /\ Accepts(w)
        /\ UNCHANGED <<window, amenity, speaker, lineup, clients>>
    BY <1>2, <2>1 DEF BeginReplaceLineup, Begin, rooms, people
  <2>3. t.op = "replaceLineup" /\ t.id = a /\ t.told = changedFields(a, input)
        /\ t.data = Prepared(input)
    BY <2>1
  <2>4. "equipment" \in DOMAIN t.data \ t.told => t.data.equipment = lineup[a].equipment
    BY <2>3, PreparedTyped DEF changedFields
  <2>5. "speakers" \in DOMAIN t.data \ t.told =>
          normalizeSet(t.data.speakers) = normalizeSet(Shown(a))
    BY <2>3, PreparedTyped DEF changedFields
  <2>6. Upheld(t) BY <2>3, <2>4, <2>5 DEF Upheld
  <2> QED BY <2>2, <2>6, AloneQuiet
<1>3. ASSUME CommitCreateLineup(w) \/ CommitReplaceLineup(w) PROVE AloneInv'
  <2>1. /\ tx' = [tx EXCEPT ![w] = Null] /\ ~Idle(w) /\ UNCHANGED <<window, amenity, clients>>
    BY <1>3 DEF CommitCreateLineup, CommitReplaceLineup, Commits, rooms
  <2>2. Alone => WindowsAndAmenitiesAreDistinct' BY <2>1, DistinctStill DEF AloneInv
  <2> QED BY <2>1, <2>2, AloneStep
<1>4. ASSUME NEW a \in Activities, DeleteLineup(w, a) PROVE AloneInv'
  BY <1>4, AloneDirect DEF DeleteLineup, vars
<1> QED BY <1>1, <1>2, <1>3, <1>4

\* Time passes, or somebody signs up: no request moves.
LEMMA AloneElsewhere ==
  ASSUME Inv, AloneInv, UNCHANGED <<tx, window, amenity, speaker, lineup, clients>>
  PROVE  AloneInv'
<1>1. InFlight' = InFlight BY DEF InFlight, Idle
<1>2. Alone' <=> Alone BY DEF Alone, Sent
<1>3. ASSUME NEW w \in InFlight, Kept(w) PROVE Kept(w)'
  BY <1>3 DEF Kept, Upheld, HasAmenity, OverlapsWindow, SlotsOf, WindowsOf, Posted, Shown
<1> QED BY <1>1, <1>2, <1>3, DistinctStill DEF AloneInv

\* Every step keeps both invariants.
LEMMA AloneNext == Inv /\ AloneInv /\ [SpeakersNext]_<<vars, people>> => AloneInv'
<1> SUFFICES ASSUME Inv, AloneInv, [SpeakersNext]_<<vars, people>> PROVE AloneInv' OBVIOUS
<1>1. ASSUME NEW w \in Workers, ClassroomRequest(w) \/ WindowRequest(w) \/ BookingRequest(w),
             UNCHANGED people
      PROVE  AloneInv'
  BY <1>1, AloneClassrooms, AloneWindows, AloneBookings
<1>2. ASSUME NEW w \in Workers, Rollback(w), UNCHANGED people PROVE AloneInv'
  <2>1. /\ tx' = [tx EXCEPT ![w] = Null] /\ ~Idle(w)
        /\ UNCHANGED <<window, amenity, speaker, lineup, clients>>
    BY <1>2 DEF Rollback, rooms, people
  <2> QED BY <2>1, AloneQuiet
<1>3. ASSUME Tick, UNCHANGED people PROVE AloneInv'
  BY <1>3, AloneElsewhere DEF Tick, rooms, people
<1>4. ASSUME NEW address, SignUp(address) PROVE AloneInv'
  BY <1>4, AloneElsewhere DEF SignUp, vars
<1>5. ASSUME NEW w \in Workers,
             \/ \E a \in Activities, input \in Sent.lineups :
                  BeginCreateLineup(w, a, input) \/ BeginReplaceLineup(w, a, input)
             \/ CommitCreateLineup(w) \/ CommitReplaceLineup(w)
             \/ \E a \in Activities : DeleteLineup(w, a)
      PROVE  AloneInv'
  BY <1>5, AloneLineups
<1>6. CASE UNCHANGED <<vars, people>> BY <1>6, AloneElsewhere DEF vars, people
<1> QED BY <1>1, <1>2, <1>3, <1>4, <1>5, <1>6 DEF SpeakersNext, Next

\* Nobody is in flight at the start.
LEMMA AloneInit == SpeakersInit => AloneInv
<1> SUFFICES ASSUME SpeakersInit PROVE AloneInv OBVIOUS
<1>1. InFlight = {} BY DEF SpeakersInit, Init, InFlight, Idle
<1>2. WindowsAndAmenitiesAreDistinct
  BY DEF SpeakersInit, Init, WindowsAndAmenitiesAreDistinct, WindowsOf
<1> QED BY <1>1, <1>2, FS_EmptySet DEF AloneInv

\* Both invariants hold in every behaviour; the second speaks of clients who send one request at
\* a time, and says nothing of others.
THEOREM AloneInvAlways == SpeakersSpec => [](Inv /\ AloneInv)
<1>1. SpeakersInit => Inv /\ AloneInv BY InvInit, AloneInit
<1>2. (Inv /\ AloneInv) /\ [SpeakersNext]_<<vars, people>> => (Inv /\ AloneInv)'
  BY InvNext, AloneNext
<1> QED BY <1>1, <1>2, PTL DEF SpeakersSpec

\* Requests one at a time never give a classroom the same amenity twice or two windows that
\* overlap, which no constraint of the database prevents and the services check before they
\* write; the types, the catalogue of speakers and the line-ups hold under any interleaving.
THEOREM ResourceTablesAlways == SpeakersSpec => []ResourceTables
<1>1. Inv /\ AloneInv => ResourceTables
  BY DEF Inv, AloneInv, ResourceTables, RoomTables, WindowsAndAmenitiesAreDistinct
<1> QED BY <1>1, AloneInvAlways, PTL

-----------------------------------------------------------------------------
(* Changes of a line-up. *)

KeyOf(row) == [email |-> row.email, name |-> row.name]

\* The rows of a catalogue that have this key; the places of a list that have it.
RowsWith(rows, catalog, k) == {s \in rows : KeyOf(catalog[s]) = k}
Places(key, k) == {i \in DOMAIN key : key[i] = k}

\* What a line-up shows of its speakers is what requests are compared by.
LEMMA ShownAreKeys ==
  ASSUME NEW a
  PROVE  /\ DOMAIN KeysOf(Shown(a)) = lineup[a].speakers
         /\ \A s \in lineup[a].speakers :
              /\ KeysOf(Shown(a))[s] = Shown(a)[s] /\ Shown(a)[s] = KeyOf(speaker[s])
BY DEF KeysOf, Shown, speakerSetKey, KeyOf

\* How often a speaker is shown is how many rows have its key.
LEMMA TimesCounts ==
  ASSUME NEW a, NEW e
  PROVE  /\ Times(a, e) = Cardinality(RowsWith(lineup[a].speakers, speaker, e))
         /\ Times(a, e)' = Cardinality(RowsWith(lineup'[a].speakers, speaker', e))
<1>1. \A s \in lineup[a].speakers : Shown(a)[s] = KeyOf(speaker[s]) BY DEF Shown, KeyOf
<1>2. \A s \in lineup'[a].speakers : Shown(a)'[s] = KeyOf(speaker'[s]) BY DEF Shown, KeyOf
<1>3. {s \in lineup[a].speakers : Shown(a)[s] = e}
        = RowsWith(lineup[a].speakers, speaker, e)
  BY <1>1 DEF RowsWith
<1>4. {s \in lineup'[a].speakers : Shown(a)'[s] = e}
        = RowsWith(lineup'[a].speakers, speaker', e)
  BY <1>2 DEF RowsWith
<1> QED BY <1>3, <1>4 DEF Times

\* The rows a line-up shows are as they were.
LEMMA ShownStays ==
  ASSUME Inv, NEW a \in Activities, Posted(a), lineup'[a].speakers = lineup[a].speakers,
         \A s \in Cataloged : speaker'[s] = speaker[s]
  PROVE  \A e : Times(a, e)' = Times(a, e)
<1> SUFFICES ASSUME NEW e PROVE Times(a, e)' = Times(a, e) OBVIOUS
<1>1. lineup[a].speakers \subseteq Cataloged BY DEF Inv, SpeakerTables
<1>2. RowsWith(lineup'[a].speakers, speaker', e) = RowsWith(lineup[a].speakers, speaker, e)
  BY <1>1 DEF RowsWith
<1> QED BY <1>2, TimesCounts

\* Equal counts have the same keys, each as often.
LEMMA EqualCounts ==
  ASSUME NEW one, NEW other, Counted(one) = Counted(other)
  PROVE  /\ \A i \in DOMAIN one : \E j \in DOMAIN other : other[j] = one[i]
         /\ \A k : Cardinality(Places(one, k)) = Cardinality(Places(other, k))
<1>1. /\ DOMAIN Counted(one) = {one[i] : i \in DOMAIN one}
      /\ DOMAIN Counted(other) = {other[i] : i \in DOMAIN other}
  BY DEF Counted
<1>2. {one[i] : i \in DOMAIN one} = {other[j] : j \in DOMAIN other} BY <1>1
<1>3. ASSUME NEW k
      PROVE  Cardinality(Places(one, k)) = Cardinality(Places(other, k))
  <2>1. CASE k \in {one[i] : i \in DOMAIN one}
    <3>1. Counted(one)[k] = Cardinality(Places(one, k)) BY <2>1 DEF Counted, Places
    <3>2. Counted(other)[k] = Cardinality(Places(other, k))
      BY <1>2, <2>1 DEF Counted, Places
    <3> QED BY <3>1, <3>2
  <2>2. CASE k \notin {one[i] : i \in DOMAIN one}
    <3>1. Places(one, k) = {} /\ Places(other, k) = {} BY <1>2, <2>2 DEF Places
    <3> QED BY <3>1
  <2> QED BY <2>1, <2>2
<1> QED BY <1>2, <1>3

\* A list that names the speakers shown leaves them as they are shown: an
\* address that is found has the name it is sent with.
LEMMA SameSpeakers ==
  ASSUME Inv, NEW a \in Activities, Posted(a), NEW entries, NEW id,
         Placed(entries, id), speaker' = Saved(entries, id), Invited(entries),
         normalizeSet(entries) = normalizeSet(Shown(a)),
         lineup'[a].speakers = {id[i] : i \in DOMAIN entries}
  PROVE  \A e : Times(a, e)' = Times(a, e)
<1> SUFFICES ASSUME NEW e PROVE Times(a, e)' = Times(a, e) OBVIOUS
<1>0. PICK key, shown : key = KeysOf(entries) /\ shown = KeysOf(Shown(a)) OBVIOUS
<1>1. Counted(key) = Counted(shown) BY <1>0, SetsAreCounts
<1>2. DOMAIN key = DOMAIN entries /\ \A i \in DOMAIN entries : key[i] = KeyOf(entries[i])
  BY <1>0 DEF KeysOf, speakerSetKey, KeyOf
<1>3. Times(a, e) = Cardinality(Places(key, e))
  <2>1. Places(shown, e) = RowsWith(lineup[a].speakers, speaker, e)
    BY <1>0, ShownAreKeys DEF Places, RowsWith
  <2>2. Cardinality(Places(key, e)) = Cardinality(Places(shown, e)) BY <1>1, EqualCounts
  <2> QED BY <2>1, <2>2, TimesCounts
<1>4. /\ \A s \in Cataloged : speaker'[s] = speaker[s]
      /\ lineup[a].speakers \subseteq Cataloged
  <2>1. \A i \in DOMAIN entries : entries[i] \in SpeakerRow BY DEF Invited
  <2> QED BY <2>1, WriteCatalogs DEF Inv, SpeakerTables
<1>5. ASSUME NEW i \in DOMAIN entries PROVE KeyOf(speaker'[id[i]]) = key[i]
  <2>1. CASE IsNew(entries[i]) BY <1>2, <2>1 DEF Placed
  <2>2. CASE ~IsNew(entries[i])
    <3>1. Connects(entries[i], id[i]) BY <2>2 DEF Placed
    <3>2. PICK s \in DOMAIN shown : shown[s] = key[i] BY <1>1, <1>2, EqualCounts
    <3>3. s \in Cataloged /\ KeyOf(speaker[s]) = KeyOf(entries[i])
      BY <1>0, <1>2, <1>4, <3>2, ShownAreKeys
    <3>4. speaker[s].email = entries[i].email BY <3>3 DEF KeyOf
    <3>5. s = id[i]
      BY <3>1, <3>3, <3>4 DEF Connects, Cataloged, Inv, SpeakerTables, speakers_email_key
    <3> QED BY <1>2, <1>4, <3>3, <3>5
  <2> QED BY <2>1, <2>2
<1>6. RowsWith(lineup'[a].speakers, speaker', e) = {id[i] : i \in Places(key, e)}
  BY <1>2, <1>5 DEF RowsWith, Places
<1>7. Cardinality({id[i] : i \in Places(key, e)}) = Cardinality(Places(key, e))
  <2>1. PICK P : P = Places(key, e) OBVIOUS
  <2> DEFINE T == {id[i] : i \in P}
             f == [i \in P |-> id[i]]
  <2>2. IsFiniteSet(P)
    <3>1. P \subseteq DOMAIN entries /\ IsFiniteSet(DOMAIN entries)
      BY <1>2, <2>1 DEF Invited, Places
    <3> QED BY <3>1, FS_Subset
  <2>3. \A i, j \in P : id[i] = id[j] => i = j BY <1>2, <2>1 DEF Placed, Places
  <2>4. f \in Bijection(P, T) BY <2>3 DEF Bijection, Injection, Surjection, IsInjective
  <2>5. ExistsBijection(P, T) BY <2>4 DEF ExistsBijection
  <2> HIDE DEF T, f
  <2>6. Cardinality(T) = Cardinality(P) BY <2>2, <2>5, FS_Bijection
  <2> QED BY <2>1, <2>6 DEF T
<1> QED BY <1>3, <1>6, <1>7, TimesCounts

\* The request that changes the line-up of a, which tells so when it is alone.
ToldBy(a, field) ==
  \E w \in Workers :
    /\ tx[w] # Null /\ tx'[w] = Null
    /\ tx[w].op = "replaceLineup" /\ tx[w].id = a
    /\ Alone => field \in tx[w].told

Told(a) ==
  /\ (\E e \in Entry : Times(a, e)' # Times(a, e)) => ToldBy(a, "speakers")
  /\ lineup'[a].equipment # lineup[a].equipment => ToldBy(a, "equipment")

\* A line-up that stays, with its rows, has nothing to tell.
LEMMA LineupStays ==
  ASSUME Inv, NEW a \in Activities, Posted(a), lineup'[a] = lineup[a],
         \A s \in Cataloged : speaker'[s] = speaker[s]
  PROVE  Told(a)
BY ShownStays DEF Told

\* The two transactions that write line-ups.
LEMMA WritesTell ==
  ASSUME Inv, AloneInv, NEW w \in Workers, NEW a \in Activities, Posted(a),
         CommitCreateLineup(w) \/ CommitReplaceLineup(w)
  PROVE  Told(a)
<1>1. PICK t : t = tx[w] OBVIOUS
<1>2. PICK b, data : b = t.id /\ data = t.data OBVIOUS
<1>3. b \in Activities /\ Listed(data)
  BY <1>1, <1>2 DEF CommitCreateLineup, CommitReplaceLineup, Commits, Idle, Inv, Held, Decided,
                    Listed
<1>4. PICK before : /\ Write(b, before, data)
                    /\ CommitReplaceLineup(w) => before = lineup[b]
  <2>1. CASE CommitCreateLineup(w)
    BY <1>1, <1>2, <2>1 DEF CommitCreateLineup, CommitReplaceLineup, Commits
  <2>2. CASE CommitReplaceLineup(w) BY <1>1, <1>2, <2>2 DEF CommitReplaceLineup
  <2> QED BY <2>1, <2>2
<1>5. PICK id : /\ Placed(EntriesOf(data), id) /\ speaker' = Saved(EntriesOf(data), id)
                /\ lineup' = [lineup EXCEPT ![b] = NewLineup(before, data, id)]
  BY <1>4, WriteShape
<1>6. Invited(EntriesOf(data)) \/ "speakers" \notin DOMAIN data BY <1>3 DEF Listed, EntriesOf
<1>7. \A i \in DOMAIN EntriesOf(data) : EntriesOf(data)[i] \in SpeakerRow
  BY <1>3 DEF Listed, EntriesOf, Invited
<1>8. \A s \in Cataloged : speaker'[s] = speaker[s] BY <1>5, <1>7, WriteCatalogs
<1>9. CASE a # b
  <2>1. lineup'[a] = lineup[a] BY <1>5, <1>9 DEF Inv, SpeakerTables
  <2> QED BY <1>8, <2>1, LineupStays
<1>10. CASE a = b
  <2>1. CommitReplaceLineup(w)
    BY <1>1, <1>2, <1>10 DEF CommitCreateLineup, Inv
  <2>2. /\ tx[w] # Null /\ tx'[w] = Null /\ tx[w].op = "replaceLineup" /\ tx[w].id = a
        /\ ~Idle(w)
    BY <1>1, <1>2, <1>10, <2>1 DEF CommitReplaceLineup, Commits, Idle, Inv
  <2>3. Alone => /\ "equipment" \in DOMAIN data \ t.told => data.equipment = lineup[a].equipment
                 /\ "speakers" \in DOMAIN data \ t.told =>
                      normalizeSet(data.speakers) = normalizeSet(Shown(a))
    BY <1>1, <1>2, <1>10, <2>2, AloneHolds DEF Kept, Upheld
  <2> DEFINE new == NewLineup(before, data, id)
  <2>4. lineup'[a] = new BY <1>5, <1>10 DEF Inv, SpeakerTables
  <2>5. before = lineup[a] BY <1>4, <1>10, <2>1
  <2>6. lineup'[a].equipment # lineup[a].equipment => ToldBy(a, "equipment")
    <3>1. lineup'[a].equipment
            = IF "equipment" \in DOMAIN data THEN data.equipment ELSE lineup[a].equipment
      BY <2>4, <2>5 DEF NewLineup
    <3> QED BY <1>1, <2>2, <2>3, <3>1 DEF ToldBy
  <2>7. ASSUME Alone => "speakers" \in t.told PROVE ToldBy(a, "speakers")
    BY <1>1, <2>2, <2>7 DEF ToldBy
  <2>8. ASSUME Alone, "speakers" \notin t.told PROVE \A e : Times(a, e)' = Times(a, e)
    <3>1. CASE "speakers" \notin DOMAIN data
      <4>1. lineup'[a].speakers = lineup[a].speakers BY <2>4, <2>5, <3>1 DEF NewLineup
      <4> QED BY <1>8, <4>1, ShownStays
    <3>2. CASE "speakers" \in DOMAIN data
      <4>1. EntriesOf(data) = data.speakers BY <3>2 DEF EntriesOf
      <4>2. lineup'[a].speakers = {id[i] : i \in DOMAIN EntriesOf(data)}
        BY <2>4, <3>2 DEF NewLineup
      <4>3. normalizeSet(EntriesOf(data)) = normalizeSet(Shown(a))
        BY <2>3, <2>8, <3>2, <4>1
      <4> QED BY <1>5, <1>6, <3>2, <4>2, <4>3, SameSpeakers
    <3> QED BY <3>1, <3>2
  <2> QED BY <2>6, <2>7, <2>8 DEF Told
<1> QED BY <1>9, <1>10

\* Every step.
LEMMA StepsTell ==
  ASSUME Inv, AloneInv, SpeakersNext, NEW a \in Activities, Posted(a), Posted(a)'
  PROVE  Told(a)
<1>1. ASSUME UNCHANGED <<speaker, lineup>> PROVE Told(a) BY <1>1, LineupStays
<1>2. CASE Next /\ UNCHANGED people BY <1>1, <1>2 DEF people
<1>3. ASSUME NEW address, SignUp(address) PROVE Told(a) BY <1>1, <1>3 DEF SignUp
<1>4. ASSUME NEW w \in Workers, NEW b \in Activities, NEW input,
             BeginCreateLineup(w, b, input) \/ BeginReplaceLineup(w, b, input)
      PROVE  Told(a)
  BY <1>1, <1>4 DEF BeginCreateLineup, BeginReplaceLineup, people
<1>5. ASSUME NEW w \in Workers, CommitCreateLineup(w) \/ CommitReplaceLineup(w) PROVE Told(a)
  BY <1>5, WritesTell
<1>6. ASSUME NEW w \in Workers, NEW b \in Activities, DeleteLineup(w, b) PROVE Told(a)
  <2>1. UNCHANGED speaker /\ lineup' = [lineup EXCEPT ![b] = Null] BY <1>6 DEF DeleteLineup
  <2>2. a # b BY <2>1 DEF Inv, SpeakerTables, Posted
  <2>3. lineup'[a] = lineup[a] BY <2>1, <2>2 DEF Inv, SpeakerTables
  <2> QED BY <2>1, <2>3, LineupStays
<1> QED BY <1>2, <1>3, <1>4, <1>5, <1>6 DEF SpeakersNext

\* What an activity shows of its speakers and equipment changes only by a request about this
\* activity; and when requests run one at a time its audit event names the field that changed:
\* comparing what was sent with what is shown (buildActivityResidualAuditEvent) misses nothing,
\* although rows of the catalogue are shared and an upsert may rename them.
THEOREM LineupChangesAreToldAlways == SpeakersSpec => LineupChangesAreTold
<1>1. Inv /\ AloneInv /\ [SpeakersNext]_<<vars, people>> =>
        [\A a \in Activities : Posted(a) /\ Posted(a)' =>
           LET by(field) == \E w \in Workers :
                 /\ tx[w] # Null /\ tx'[w] = Null
                 /\ tx[w].op = "replaceLineup" /\ tx[w].id = a
                 /\ Alone => field \in tx[w].told
           IN  /\ (\E e \in Entry : Times(a, e)' # Times(a, e)) => by("speakers")
               /\ lineup'[a].equipment # lineup[a].equipment => by("equipment")]_<<vars, people>>
  BY StepsTell DEF Told, ToldBy
<1> QED BY <1>1, AloneInvAlways, PTL DEF SpeakersSpec, LineupChangesAreTold
=============================================================================
