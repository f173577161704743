------------------------------- MODULE Seeds -------------------------------
(***************************************************************************)
(* The seeds (prisma/seed.base.ts, prisma/seed.ts and prisma/seed/*.ts):   *)
(* scripts of statements without a transaction around them, run again at   *)
(* every deployment, or by a developer, over what an earlier run left,     *)
(* perhaps half done, and what the application made of it since.           *)
(*                                                                         *)
(* A seed is a sequence of statements.  Catalogues keep one entry of each  *)
(* kind that a statement, a trigger or another catalogue tells apart.  A   *)
(* row is kept under what a seed finds it by; its columns are the ones a   *)
(* trigger reads, the fixed "id" of what is not found by it, and "text",   *)
(* which stands for all the others.  Dates are days, relative to the day   *)
(* of the run in a catalogue.                                              *)
(***************************************************************************)
EXTENDS Absent, Integers, Sequences, FiniteSets, SequencesExt

CONSTANTS
  AdminEmails,     (* SEED_ADMIN_EMAIL of a base run; Null: not configured *)
  MaxDay,          (* bound: days that pass                                *)
  MaxStops,        (* bound: runs that are killed                          *)
  MaxEdits         (* bound: what the application does in between          *)

VARIABLES
  row,         (* the rows there are, by table and key                     *)
  seedRun,     (* the seed that runs: its mode, day and next statement     *)
  lastRun,     (* how the last one ended, while nobody changed a row since *)
  removed,     (* keys of rows the application deleted                     *)
  today, stops, edits

seedVars == <<row, seedRun, lastRun, removed, today, stops, edits>>

\* Statements.  An upsert writes "update" to the row it finds.
Upsert(key, create, update) ==
  [op |-> "upsert", key |-> key, create |-> create, update |-> update]
\* Columns that a run refreshes in a row it finds; in "ensure" mode none.
Save(mode, key, create, refreshed) ==
  Upsert(key, create, IF mode = "sync" THEN Restrict(create, refreshed) ELSE <<>>)
DeleteMany(table, parent, source) ==
  [op |-> "deleteMany", table |-> table, parent |-> parent, source |-> source]
CreateMany(keys, create) == [op |-> "createMany", keys |-> keys, create |-> create]
SkipIfFound(key, count) == [op |-> "skip", key |-> key, count |-> count]
RequireAdmin == [op |-> "require"]
Finalize(key, status) == [op |-> "finalize", key |-> key, status |-> status]

Text == [text |-> "seed"]
Refresh(key, create) == Save("sync", key, create, DOMAIN create)

\* The statements of the entries of a catalogue, one entry after the other.
ForEach(entries, Statements(_)) == FlattenSeq([i \in DOMAIN entries |-> Statements(entries[i])])

-----------------------------------------------------------------------------
(***************************************************************************)
(* organizations.seed.ts                                                   *)
(***************************************************************************)
PERMISSION_NAMES == <<"activity:create", "permission:grant">>
UNITS == <<"fic">>
CAREERS == <<[key |-> "FIC-CIV", unitKey |-> "fic"], [key |-> "OTROS", unitKey |-> Null]>>

DefaultProgram(unit) == <<"program", unit, "default">>

ensureDefaultProgram(mode, unit) ==
  Save(mode, DefaultProgram(unit),
       [text |-> "seed", isDefault |-> TRUE, status |-> "ACTIVE", start |-> Null, end |-> Null],
       {"text"})

seedOrganizations(mode) ==
  ForEach(PERMISSION_NAMES, LAMBDA name : <<Refresh(<<"permission", name>>, Text)>>)
  \o ForEach(UNITS, LAMBDA unit :
       <<Save(mode, <<"unit", unit>>, [text |-> "seed", isActive |-> TRUE, headId |-> Null], {"text"}),
         ensureDefaultProgram(mode, unit)>>)
  \o ForEach(CAREERS, LAMBDA career :
       <<Save(mode, <<"career", career.key>>,
              [text |-> "seed", id |-> career.key, unitId |-> career.unitKey], {"text", "unitId"})>>)

(***************************************************************************)
(* classrooms.seed.ts                                                      *)
(***************************************************************************)
CLASSROOMS == <<[key |-> "a-1", amenities |-> {"Proyector"}, availability |-> <<"mon 7-12", "mon 13-17">>]>>

RoomStatements(classroom) ==
  LET key == classroom.key
  IN  <<Refresh(<<"classroom", key>>, [text |-> "seed", isActive |-> TRUE]),
        DeleteMany("amenity", key, Null),
        CreateMany({<<"amenity", key, a>> : a \in classroom.amenities}, Text)>>
      \o ForEach(classroom.availability, LAMBDA slot : <<Refresh(<<"window", key, slot>>, Text)>>)

\* Mutation: a classroom that exists is written over.
seedClassrooms_Always(mode) == ForEach(CLASSROOMS, RoomStatements)

\* To "ensure" a classroom that exists is to leave all of it alone.
seedClassrooms(mode) ==
  ForEach(CLASSROOMS, LAMBDA classroom :
    (IF mode = "ensure"
     THEN <<SkipIfFound(<<"classroom", classroom.key>>, Len(RoomStatements(classroom)))>>
     ELSE <<>>) \o RoomStatements(classroom))

(***************************************************************************)
(* base.seed.ts: the first administrator has a fixed identifier; the user  *)
(* and the account that holds the password are two statements.             *)
(***************************************************************************)
User(id, role) == [text |-> "seed", id |-> id, globalRole |-> role, isActive |-> TRUE]

ensureInitialAdmin(email) ==
  IF email = Null THEN <<RequireAdmin>>
  ELSE <<SkipIfFound(<<"user", email>>, 2),
         Upsert(<<"user", email>>, User("seed_user_admin", "ADMIN"), <<>>),
         Upsert(<<"account", email>>, Text, <<>>)>>

seedBaseDatabase(email) ==
  seedOrganizations("ensure") \o seedClassrooms("ensure") \o ensureInitialAdmin(email)

(***************************************************************************)
(* users.seed.ts: users are found by e-mail, accounts by their user.       *)
(***************************************************************************)
USERS == <<[key |-> "admin", email |-> "admin@utp", globalRole |-> "ADMIN"],
           [key |-> "org-fic", email |-> "org-fic@utp", globalRole |-> "USER"]>>
HEADS == <<[unitKey |-> "fic", userKey |-> "org-fic"]>>

seedUsers ==
  ForEach(USERS, LAMBDA user :
    <<Upsert(<<"user", user.email>>, User("seed_user_" \o user.key, user.globalRole),
             Restrict(User(Null, user.globalRole), {"text", "globalRole", "isActive"})),
      Refresh(<<"account", user.email>>, Text)>>)
  \o ForEach(HEADS, LAMBDA head :
       <<Upsert(<<"unit", head.unitKey>>, Text, [headId |-> head.userKey])>>)

(***************************************************************************)
(* speakers.seed.ts: found by their user, their e-mail or their identifier *)
(***************************************************************************)
SPEAKERS == <<"speaker-ana", "speaker-externo-luisa", "speaker-externo-marco">>
seedSpeakers == ForEach(SPEAKERS, LAMBDA speaker : <<Refresh(<<"speaker", speaker>>, Text)>>)

(***************************************************************************)
(* programs.seed.ts: a program is active while its activities are written  *)
(* and gets the status of the catalogue afterwards.                        *)
(***************************************************************************)
ADDITIONAL_PROGRAMS ==
  <<[key |-> "semana-ic",    start |-> -33,  end |-> -29,  finalStatus |-> "COMPLETED"],
    [key |-> "congreso-cit", start |-> 16,   end |-> 20,   finalStatus |-> "ACTIVE"],
    [key |-> "foro-ipe",     start |-> -320, end |-> -316, finalStatus |-> "ARCHIVED"],
    [key |-> "feria-tec",    start |-> 45,   end |-> 47,   finalStatus |-> "DRAFT"]>>

seedAdditionalPrograms ==
  ForEach(ADDITIONAL_PROGRAMS, LAMBDA p :
    LET created == [text |-> "seed", id |-> p.key, isDefault |-> FALSE, start |-> p.start,
                    end |-> p.end, status |-> IF p.finalStatus = "DRAFT" THEN "DRAFT" ELSE "ACTIVE"]
    IN  <<Save("sync", <<"program", p.key>>, created,
               {"text", "start", "end"} \cup (IF p.finalStatus = "DRAFT" THEN {"status"} ELSE {}))>>)

finalizeAdditionalPrograms ==
  ForEach(ADDITIONAL_PROGRAMS, LAMBDA p : <<Finalize(<<"program", p.key>>, p.finalStatus)>>)

(***************************************************************************)
(* activities.seed.ts                                                      *)
(***************************************************************************)
ACTIVITIES ==
  <<[key |-> "fic-taller-drones",  program |-> DefaultProgram("fic"),        date |-> 14,   status |-> "SCHEDULED"],
    [key |-> "semana-ic-taller",   program |-> <<"program", "semana-ic">>,   date |-> -33,  status |-> "COMPLETED"],
    [key |-> "cit-conferencia-ia", program |-> <<"program", "congreso-cit">>, date |-> 16,  status |-> "SCHEDULED"],
    [key |-> "foro-ipe-conferencia", program |-> <<"program", "foro-ipe">>,  date |-> -320, status |-> "COMPLETED"]>>

seedActivities ==
  ForEach(ACTIVITIES, LAMBDA activity :
    LET key == activity.key
    IN  <<Refresh(<<"activity", key>>,
                  [text |-> "seed", program |-> activity.program, date |-> activity.date,
                   status |-> activity.status]),
          DeleteMany("equipment", key, Null),
          CreateMany({<<"equipment", key, "Proyector">>}, Text),
          DeleteMany("activitySpeaker", key, Null),
          CreateMany({<<"activitySpeaker", key, "speaker-ana">>}, Text)>>)

(***************************************************************************)
(* collaborations.seed.ts: the defaults of the role are written anew, then *)
(* the overrides with their windows.                                       *)
(***************************************************************************)
PROGRAM_COLLABORATIONS == <<[scope |-> "congreso-cit", userKey |-> "org-fic", role |-> "ORGANIZER"]>>
ROLE_DEFAULTS == [ORGANIZER |-> {"activity:create"}]
OVERRIDE_GRANTS == <<[scope |-> "congreso-cit", permission |-> "permission:grant", from |-> 0]>>

Grant(source, from) == [source |-> source, from |-> from]

seedCollaborations ==
  ForEach(PROGRAM_COLLABORATIONS, LAMBDA c :
    <<Refresh(<<"collaboration", c.scope>>, [role |-> c.role]),
      DeleteMany("grant", c.scope, "ROLE_DEFAULT"),
      CreateMany({<<"grant", c.scope, p>> : p \in ROLE_DEFAULTS[c.role]},
                 Grant("ROLE_DEFAULT", Null))>>)
  \o ForEach(OVERRIDE_GRANTS, LAMBDA g :
       <<Refresh(<<"grant", g.scope, g.permission>>, Grant("OVERRIDE", g.from))>>)

(***************************************************************************)
(* attendance.seed.ts, proposals.seed.ts and alerts.seed.ts                *)
(***************************************************************************)
ATTENDANCE_GROUPS == <<[activityKey |-> "semana-ic-taller", checkedIn |-> TRUE],
                       [activityKey |-> "cit-conferencia-ia", checkedIn |-> FALSE]>>
PROPOSALS == <<"ciberseguridad-defensiva">>
PROGRAM_ALERTS == <<"activity-updated-cit", "program-archived-ipe">>

seedAttendance ==
  ForEach(ATTENDANCE_GROUPS, LAMBDA group :
    <<Refresh(<<"attendance", group.activityKey>>, Text)>>
    \o IF group.checkedIn
       THEN <<Refresh(<<"certificate", group.activityKey>>, Text),
              Refresh(<<"alert", "cert", group.activityKey>>, Text)>>
       ELSE <<>>)

\* A version is never written again: a trigger forbids it.
seedProposals ==
  ForEach(PROPOSALS, LAMBDA p :
    <<Refresh(<<"proposal", p>>, Text),
      CreateMany({<<"version", p, 1>>}, Text),
      Refresh(<<"feedback", p>>, Text),
      Refresh(<<"alert", "proposal_received", p>>, Text),
      Refresh(<<"alert", "proposal_responded", p>>, Text)>>)

seedProgramAlerts ==
  ForEach(PROGRAM_ALERTS, LAMBDA alert : <<Refresh(<<"alert", "program", alert>>, Text)>>)

seedDatabase ==
  seedOrganizations("sync") \o seedUsers \o seedSpeakers \o seedClassrooms("sync")
  \o seedAdditionalPrograms \o seedActivities \o seedCollaborations
  \o finalizeAdditionalPrograms \o seedAttendance \o seedProposals \o seedProgramAlerts

BaseSeeds == [email \in AdminEmails |-> seedBaseDatabase(email)]
DemoSeed == seedDatabase
StatementsOf(run) == IF run.mode = "ensure" THEN BaseSeeds[run.email] ELSE DemoSeed

-----------------------------------------------------------------------------
(***************************************************************************)
(* What a statement does to the rows, on a day.                            *)
(***************************************************************************)
dateOffset(columns, day) ==
  [c \in DOMAIN columns |->
     IF c \in {"start", "end", "date", "from"} /\ columns[c] # Null
     THEN columns[c] + day ELSE columns[c]]

Affected(rows, st) ==
  {k \in DOMAIN rows : /\ k[1] = st.table /\ k[2] = st.parent
                       /\ st.source # Null => rows[k].source = st.source}

After(rows, st, day) ==
  CASE st.op = "upsert" ->
         (st.key :> IF st.key \in DOMAIN rows
                    THEN dateOffset(st.update, day) @@ rows[st.key]
                    ELSE dateOffset(st.create, day)) @@ rows
    [] st.op = "deleteMany" -> Restrict(rows, DOMAIN rows \ Affected(rows, st))
    [] st.op = "createMany" -> rows @@ [k \in st.keys |-> st.create]
    [] st.op = "finalize" -> [rows EXCEPT ![st.key].status = st.status]
    [] OTHER -> rows

IsUser(k) == k[1] = "user"
IsActivity(k) == k[1] = "activity"

ActivitiesOf(rows, program) ==
  {k \in DOMAIN rows : IsActivity(k) /\ rows[k].program = program}

\* "event program dates cannot exclude existing activities"
DatesExclude(before, after, p) ==
  /\ <<before[p].start, before[p].end>> # <<after[p].start, after[p].end>>
  /\ \E a \in ActivitiesOf(before, p) : before[a].date \notin after[p].start..after[p].end

\* "activities can only be created or scheduled in an active event program",
\* "activity date must be within the event program date range"
ActivityRefused(before, after, a) ==
  LET program == after[after[a].program]
      created == a \notin DOMAIN before
      scheduled == /\ ~created /\ after[a].status # before[a].status
                   /\ after[a].status = "SCHEDULED"
      moved == ~created /\ <<after[a].program, after[a].date>> # <<before[a].program, before[a].date>>
  IN  \/ (created \/ moved \/ scheduled) /\ program.status # "ACTIVE"
      \/ ~program.isDefault /\ after[a].date \notin program.start..program.end

\* "an event program with scheduled or ongoing activities cannot be archived"
ArchiveRefused(before, after, p) ==
  /\ after[p].status = "ARCHIVED" /\ before[p].status # "ARCHIVED"
  /\ \E a \in ActivitiesOf(before, p) :
       before[a].status \in {"SCHEDULED", "COMPLETED"} /\ before[a].date >= today

\* A statement that throws: a unique column, a trigger, or the seed itself.
Throws(st) ==
  LET after == After(row, st, seedRun.day)
  IN  \/ /\ st.op = "upsert" /\ st.key \notin DOMAIN row /\ "id" \in DOMAIN st.create
         /\ \E k \in DOMAIN row :
              k[1] = st.key[1] /\ "id" \in DOMAIN row[k] /\ row[k].id = st.create.id
      \/ /\ st.op = "upsert" /\ IsActivity(st.key)
         /\ ActivityRefused(row, after, st.key)
      \/ /\ st.op \in {"upsert", "finalize"}
         /\ st.key \in DOMAIN row /\ st.key[1] = "program"
         /\ \/ ~row[st.key].isDefault /\ DatesExclude(row, after, st.key)
            \/ ArchiveRefused(row, after, st.key)
      \/ /\ st.op = "require"
         /\ \A k \in DOMAIN row : IsUser(k) => row[k].globalRole # "ADMIN"

-----------------------------------------------------------------------------
SeedInit ==
  /\ row = <<>> /\ seedRun = Null /\ lastRun = Null /\ removed = {}
  /\ today = 0 /\ stops = 0 /\ edits = 0

BeginSeed(mode, email) ==
  /\ seedRun = Null
  /\ seedRun' = [mode |-> mode, email |-> email, day |-> today, next |-> 1]
  /\ lastRun' = Null
  /\ UNCHANGED <<row, removed, today, stops, edits>>

EndSeed(outcome) ==
  /\ seedRun' = Null
  /\ lastRun' = [mode |-> seedRun.mode, email |-> seedRun.email, day |-> seedRun.day,
                 outcome |-> outcome]

\* One statement, found and written.  Nobody else writes while a seed runs.
ExecuteStatement ==
  /\ seedRun # Null /\ seedRun.next \in DOMAIN StatementsOf(seedRun)
  /\ LET st == StatementsOf(seedRun)[seedRun.next]
     IN  IF Throws(st)
         THEN EndSeed("failed") /\ UNCHANGED row
         ELSE /\ row' = After(row, st, seedRun.day)
              /\ seedRun' = [seedRun EXCEPT
                   !.next = @ + IF st.op = "skip" /\ st.key \in DOMAIN row THEN st.count + 1 ELSE 1]
              /\ UNCHANGED lastRun
  /\ UNCHANGED <<removed, today, stops, edits>>

FinishSeed ==
  /\ seedRun # Null /\ seedRun.next \notin DOMAIN StatementsOf(seedRun)
  /\ EndSeed("finished")
  /\ UNCHANGED <<row, removed, today, stops, edits>>

StopSeed ==
  /\ seedRun # Null /\ stops < MaxStops
  /\ EndSeed("stopped")
  /\ stops' = stops + 1
  /\ UNCHANGED <<row, removed, today, edits>>

NextDay ==
  /\ seedRun = Null /\ today < MaxDay
  /\ today' = today + 1
  /\ UNCHANGED <<row, seedRun, lastRun, removed, stops, edits>>

(***************************************************************************)
(* What the application does to seeded rows between two runs.              *)
(***************************************************************************)
Edit(k) ==
  /\ k[1] \in {"unit", "program", "career", "classroom", "user", "activity", "permission"}
  /\ row' = [row EXCEPT ![k].text = "edited"]
  /\ UNCHANGED removed

\* A career gets another code, or a program another name: a seed finds it no more.
ChangeKey(k) ==
  LET renamed == <<k[1], "renamed">>
  IN  /\ \/ k[1] = "career" /\ k[2] # "OTROS"
         \/ k[1] = "program" /\ ~row[k].isDefault /\ row[k].status # "ARCHIVED"
      /\ row' = [r \in (DOMAIN row \ {k}) \cup {renamed} |->
                   IF r = renamed THEN row[k]
                   ELSE IF IsActivity(r) /\ row[r].program = k
                   THEN [row[r] EXCEPT !.program = renamed]
                   ELSE row[r]]
      /\ UNCHANGED removed

DeactivateRoom(k) ==
  /\ k[1] = "classroom"
  /\ row' = [row EXCEPT ![k].isActive = FALSE]
  /\ UNCHANGED removed

DeactivateUnit(k) ==
  LET p == DefaultProgram(k[2])
  IN  /\ k[1] = "unit" /\ p \in DOMAIN row
      /\ \A a \in ActivitiesOf(row, p) : row[a].date < today
      /\ row' = [row EXCEPT ![k].isActive = FALSE, ![p].status = "ARCHIVED"]
      /\ UNCHANGED removed

RemoveChild(k) ==
  /\ k[1] \in {"amenity", "window"}
  /\ row' = Restrict(row, DOMAIN row \ {k})
  /\ removed' = removed \cup {k}

AddAmenity(k) ==
  /\ k[1] = "classroom"
  /\ row' = (<<"amenity", k[2], "Pizarra">> :> [text |-> "edited"]) @@ row
  /\ UNCHANGED removed

CancelActivity(k) ==
  /\ IsActivity(k) /\ row[k].status = "SCHEDULED"
  /\ row' = [row EXCEPT ![k].status = "CANCELLED"]
  /\ UNCHANGED removed

Delegate(k) ==
  /\ k[1] = "grant"
  /\ row' = [row EXCEPT ![k] = Grant("OVERRIDE", Null)]
  /\ UNCHANGED removed

SignUp(email) ==
  /\ <<"user", email>> \notin DOMAIN row
  /\ row' = (<<"user", email>> :> [User("user_of_sign_up", "USER") EXCEPT !.text = "edited"])
            @@ (<<"account", email>> :> [text |-> "edited"]) @@ row
  /\ UNCHANGED removed

ApplicationWrites ==
  /\ seedRun = Null /\ edits < MaxEdits
  /\ \/ \E k \in DOMAIN row :
          \/ Edit(k) \/ ChangeKey(k) \/ DeactivateRoom(k) \/ DeactivateUnit(k) \/ RemoveChild(k)
          \/ AddAmenity(k) \/ CancelActivity(k) \/ Delegate(k)
     \/ SignUp("org-fic@utp")
  /\ edits' = edits + 1
  /\ lastRun' = Null
  /\ UNCHANGED <<seedRun, today, stops>>

SeedNext ==
  \/ \E email \in AdminEmails : BeginSeed("ensure", email)
  \/ BeginSeed("sync", Null)
  \/ ExecuteStatement \/ FinishSeed \/ StopSeed
  \/ NextDay \/ ApplicationWrites

-----------------------------------------------------------------------------
\* The rows that statements leave of an empty database, on a day.
FreshRows(statements, day) ==
  FoldLeft(LAMBDA rows, st : After(rows, st, day), <<>>, statements)
FreshDemo == [day \in 0..MaxDay |-> FreshRows(DemoSeed, day)]
FreshBase == [email \in AdminEmails |-> FreshRows(BaseSeeds[email], 0)]

InCatalogue(k) ==
  \E g \in ToSet(OVERRIDE_GRANTS) : k = <<"grant", g.scope, g.permission>>

\* What a demo run does not refresh in a row it finds: of permissions, those
\* the application delegated, which are overrides that no catalogue names.
Kept(k) ==
  CASE k[1] = "unit" -> {"isActive"}
    [] k[1] = "program" /\ row[k].isDefault -> {"status"}
    [] k[1] = "user" -> {"id"}
    [] k[1] = "grant" /\ row[k].source = "OVERRIDE" /\ ~InCatalogue(k) -> {"source", "from"}
    [] OTHER -> {}

(***************************************************************************)
(* "idempotente" (README.md:837): whatever was stopped or changed before,  *)
(* a demo run that finishes leaves the rows that one over an empty         *)
(* database leaves, the few columns aside that it does not refresh.        *)
(***************************************************************************)
DemoConverges ==
  lastRun # Null /\ lastRun.mode = "sync" /\ lastRun.outcome = "finished" =>
    LET fresh == FreshDemo[lastRun.day]
    IN  \A k \in DOMAIN fresh :
          /\ k \in DOMAIN row
          /\ \A c \in DOMAIN fresh[k] \ Kept(k) : row[k][c] = fresh[k][c]

(***************************************************************************)
(* "puedes re-ejecutarlo" (README.md:94): a base run that finishes leaves  *)
(* every row of its catalogue, what the application removed aside, if no   *)
(* run was stopped between two statements that belong together.            *)
(***************************************************************************)
BaseCompletes ==
  lastRun # Null /\ lastRun.mode = "ensure" /\ lastRun.outcome = "finished" /\ stops = 0 =>
    DOMAIN FreshBase[lastRun.email] \subseteq DOMAIN row \cup removed

(***************************************************************************)
(* "no sobrescribe datos existentes" (README.md:94): a base run leaves     *)
(* every row it finds as it was, the texts of permissions aside.           *)
(***************************************************************************)
BaseOverwritesNothing ==
  [][seedRun # Null /\ seedRun.mode = "ensure" =>
       \A k \in DOMAIN row :
         k \in DOMAIN row' /\ (row'[k] = row[k] \/ k[1] = "permission")]_seedVars

SeedsConverge == [](DemoConverges /\ BaseCompletes) /\ BaseOverwritesNothing

(***************************************************************************)
(* "Re-ejecutarlo es seguro: usa upserts con IDs determinados `seed_*` y   *)
(* respeta los triggers de la base de datos" (README.md:866).              *)
(***************************************************************************)
SeedsCanRunAgain ==
  lastRun # Null /\ lastRun.mode = "sync" => lastRun.outcome # "failed"
=============================================================================
