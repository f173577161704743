----------------------------- MODULE Speakers -----------------------------
(***************************************************************************)
(* The speakers and the equipment of an activity, as createActivity,       *)
(* updateActivity and deleteActivity write them beside the room and the    *)
(* dates (modules/activities/activities.service.ts).  Speakers are a       *)
(* catalogue of their own: an entry with an e-mail address is shared by    *)
(* the activities that name the address.                                   *)
(***************************************************************************)
EXTENDS Rooms, Sequences

CONSTANTS
  Speakers,         (* Row ids: none is used twice.                        *)
  Addresses,        (* E-mail addresses, in lower case.                    *)
  Names             (* First name, last name and organization in one.      *)

VARIABLES
  speaker,     (* speakers                                                 *)
  lineup,      (* activity_speakers and activity_equipment                 *)
  posted,      (* ids of activities that were given out                    *)
  accounts     (* addresses of users; a user is known by theirs            *)

people == <<speaker, lineup, posted, accounts>>

\* activitySpeakerInputSchema
Entry == [email : Addresses \cup {Null}, name : Names]
SpeakerRow == [email : Addresses \cup {Null}, name : Names, userId : Addresses \cup {Null}]
Lineup == [speakers : SUBSET Speakers, equipment : SUBSET Amenities]

\* "Speaker emails must be unique."
uniqueSpeakerEmails(entries) ==
  \A i, j \in DOMAIN entries :
    i # j /\ entries[i].email # Null => entries[i].email # entries[j].email

ASSUME SpeakersAssumption ==
  /\ Null \notin Addresses /\ Null \notin SpeakerRow /\ Null \notin Lineup
  /\ \A name \in DOMAIN Clients :
       /\ Clients[name].signUps \subseteq Addresses
       /\ \A input \in Clients[name].lineups :
            /\ DOMAIN input \subseteq {"speakers", "equipment"}
            /\ "equipment" \in DOMAIN input => input.equipment \subseteq Amenities
            /\ "speakers" \in DOMAIN input =>
                 /\ input.speakers \in Seq(Entry)
                 /\ uniqueSpeakerEmails(input.speakers)

-----------------------------------------------------------------------------

Posted(a) == lineup[a] # Null
Cataloged == {s \in Speakers : speaker[s] # Null}

speakerSetKey(entry) == [email |-> entry.email, name |-> entry.name]

\* How often each key is among the entries: the sorted list of them.
normalizeSet(entries) ==
  LET key == [i \in DOMAIN entries |-> speakerSetKey(entries[i])]
  IN  [k \in {key[i] : i \in DOMAIN key} |-> Cardinality({i \in DOMAIN key : key[i] = k})]

\* The entries an activity shows.
Shown(a) == [s \in lineup[a].speakers |-> [email |-> speaker[s].email, name |-> speaker[s].name]]

\* The fields of a body that the event names, next to those of Activities.
changedFields(a, input) ==
       {f \in {"equipment"} : f \in DOMAIN input /\ input[f] # lineup[a][f]}
  \cup {f \in {"speakers"} : f \in DOMAIN input
                               /\ normalizeSet(input[f]) # normalizeSet(Shown(a))}

\* Users are looked up before the transaction.
buildSpeakerCreates(entries) ==
  [i \in DOMAIN entries |->
     [email |-> entries[i].email, name |-> entries[i].name,
      userId |-> IF entries[i].email \in accounts THEN entries[i].email ELSE Null]]

Prepared(input) ==
  [f \in DOMAIN input |-> IF f = "speakers" THEN buildSpeakerCreates(input[f]) ELSE input[f]]

BeginCreateLineup(w, a, input) ==
  /\ Accepts(w)
  /\ a \notin posted
  /\ Begin(w, [op |-> "createLineup", id |-> a, data |-> Prepared(input), told |-> DOMAIN input])
  /\ UNCHANGED people

BeginReplaceLineup(w, a, input) ==
  /\ Accepts(w)
  /\ Posted(a)
  /\ Begin(w, [op |-> "replaceLineup", id |-> a, data |-> Prepared(input),
               told |-> changedFields(a, input)])
  /\ UNCHANGED people

-----------------------------------------------------------------------------

speakers_email_key(rows) ==
  \A s, t \in Speakers :
    rows[s] # Null /\ rows[t] # Null /\ rows[s].email # Null /\ rows[s].email = rows[t].email
      => s = t

speakers_user_id_key(rows) ==
  \A s, t \in Speakers :
    rows[s] # Null /\ rows[t] # Null /\ rows[s].userId # Null /\ rows[s].userId = rows[t].userId
      => s = t

\* connectOrCreate, or create without an address: a new row if no row has it.
Connects(entry, s) == s \in Cataloged /\ entry.email # Null /\ speaker[s].email = entry.email
IsNew(entry) == ~ \E s \in Speakers : Connects(entry, s)

\* Mutation: connecting writes the name over the row that is found.
Saved_Updating(entries, id) ==
  [s \in Speakers |->
     IF \E i \in DOMAIN entries : id[i] = s
     THEN entries[CHOOSE i \in DOMAIN entries : id[i] = s] ELSE speaker[s]]

\* The catalogue after entry i of entries was found in, or put into, row id[i].
Saved(entries, id) ==
  [s \in Speakers |->
     IF \E i \in DOMAIN entries : id[i] = s /\ IsNew(entries[i])
     THEN entries[CHOOSE i \in DOMAIN entries : id[i] = s] ELSE speaker[s]]

\* Nested writes of the transaction: lists that are given are replaced whole.
Write(a, before, data) ==
  LET entries == IF "speakers" \in DOMAIN data THEN data.speakers ELSE <<>>
  IN  \E id \in [DOMAIN entries -> Speakers] :
        /\ \A i, j \in DOMAIN entries : id[i] = id[j] => i = j
        /\ \A i \in DOMAIN entries :
             IF IsNew(entries[i]) THEN id[i] \notin Cataloged ELSE Connects(entries[i], id[i])
        /\ LET rows == Saved(entries, id)
           IN  /\ speakers_email_key(rows) /\ speakers_user_id_key(rows)
               /\ speaker' = rows
        /\ lineup' = [lineup EXCEPT ![a] =
             [speakers |-> IF "speakers" \in DOMAIN data THEN {id[i] : i \in DOMAIN entries}
                           ELSE before.speakers,
              equipment |-> IF "equipment" \in DOMAIN data THEN data.equipment
                            ELSE before.equipment]]

CommitCreateLineup(w) ==
  LET a == tx[w].id
  IN  /\ Commits(w, "createLineup")
      /\ a \notin posted
      /\ Write(a, [speakers |-> {}, equipment |-> {}], tx[w].data)
      /\ posted' = posted \cup {a}
      /\ UNCHANGED <<rooms, accounts>>

\* The update of the row locks it: the lists are those of the last one to commit.
CommitReplaceLineup(w) ==
  LET a == tx[w].id
  IN  /\ Commits(w, "replaceLineup")
      /\ Posted(a)
      /\ Write(a, lineup[a], tx[w].data)
      /\ UNCHANGED <<rooms, posted, accounts>>

\* deleteActivity: the lists go with the activity, the catalogue stays.
DeleteLineup(w, a) ==
  /\ Accepts(w)
  /\ Posted(a)
  /\ lineup' = [lineup EXCEPT ![a] = Null]
  /\ UNCHANGED <<speaker, posted, accounts, vars>>

SignUp(address) ==
  /\ address \notin accounts
  /\ accounts' = accounts \cup {address}
  /\ UNCHANGED <<speaker, lineup, posted, vars>>

SpeakersInit ==
  /\ Init
  /\ speaker = [s \in Speakers |-> Null]
  /\ lineup = [a \in Activities |-> Null]
  /\ posted = {} /\ accounts = {}

SpeakersNext ==
  \/ Next /\ UNCHANGED people
  \/ \E address \in Sent.signUps : SignUp(address)
  \/ \E w \in Workers :
       \/ \E a \in Activities, input \in Sent.lineups :
            BeginCreateLineup(w, a, input) \/ BeginReplaceLineup(w, a, input)
       \/ CommitCreateLineup(w) \/ CommitReplaceLineup(w)
       \/ Sent.lineups # {} /\ \E a \in Activities : DeleteLineup(w, a)

SpeakersSpec == SpeakersInit /\ [][SpeakersNext]_<<vars, people>>

-----------------------------------------------------------------------------
(***************************************************************************)
(* An address is in the catalogue once, although two requests may both     *)
(* find it new; who is linked to a user has their address; and what an     *)
(* activity links to is there.                                             *)
(***************************************************************************)
SpeakerTables ==
  /\ speaker \in [Speakers -> SpeakerRow \cup {Null}]
  /\ lineup \in [Activities -> Lineup \cup {Null}]
  /\ posted \subseteq Activities /\ accounts \subseteq Addresses
  /\ speakers_email_key(speaker)
  /\ \A s \in Cataloged :
       speaker[s].userId # Null => speaker[s].userId = speaker[s].email
                                     /\ speaker[s].userId \in accounts
  /\ \A a \in Activities : Posted(a) => lineup[a].speakers \subseteq Cataloged

(***************************************************************************)
(* The tables of rooms and those of speakers.                              *)
(***************************************************************************)
ResourceTables == RoomTables /\ SpeakerTables

\* How often activity a shows a speaker of this address and name.
Times(a, e) == Cardinality({s \in lineup[a].speakers : Shown(a)[s] = e})

(***************************************************************************)
(* What an activity shows of speakers and equipment changes by a request   *)
(* about this activity alone, and its event names the field, as long as    *)
(* requests run one at a time: neither the catalogue the activities share  *)
(* nor the comparison with what was stored hides a change                  *)
(* (buildActivityResidualAuditEvent).                                      *)
(***************************************************************************)
LineupChangesAreTold ==
  [][\A a \in Activities : Posted(a) /\ Posted(a)' =>
       LET by(field) == \E w \in Workers :
             /\ tx[w] # Null /\ tx'[w] = Null
             /\ tx[w].op = "replaceLineup" /\ tx[w].id = a
             /\ Alone => field \in tx[w].told
       IN  /\ (\E e \in Entry : Times(a, e)' # Times(a, e)) => by("speakers")
           /\ lineup'[a].equipment # lineup[a].equipment => by("equipment")]_<<vars, people>>
=============================================================================
