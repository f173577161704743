# SIPEG-UTP backend in TLA+

A specification of the SIPEG-UTP backend (Express, Prisma, PostgreSQL): the TLA+ modules,
the TLC configurations that check them on small instances, and the theorems about them that
the TLA+ proof system checks for every instance. Paths below are relative to the repository,
whose code is under `src/` and whose migrations are under `prisma/`.

The short version of what it says. What the *database* checks inside a transaction
(exclusion constraint, triggers, foreign keys, unique indexes, check constraints) holds under
every interleaving, and that part is proved. What a service decides *before* its
transaction holds when requests come one at a time, and mostly does not when two interleave:
section 4 lists where. The sessions keep one live token each whatever interleaves or is lost;
the server ends once it was told to; the seeds converge however they are stopped, but the
demo seed cannot be run again on a later day.

## 1. Inventory

### How the system works

Every endpoint is a service function. It reads rows with ordinary queries, decides with the
values read (404, 409, 422, 403), and then runs one `prisma.$transaction` that writes rows by
id together with the audit events of the change. Requests share nothing but the database.
PostgreSQL runs at READ COMMITTED; constraints and triggers check again, inside the
transaction, part of what the service checked outside. Time enters through `new Date()` in
the services and `now()` in the triggers, read in the zone America/Panama.

### Components

| Component | State | Operations | Hard behaviour | What makes it correct |
|---|---|---|---|---|
| Institutional time, `utils/date.ts` | none | day, time of day and instant conversions | zone, boundaries of days, negative quotients | conversions agree with one another |
| Activity status, `activities.status.ts`, ADR-0010 | none: derived on reading | status of a row, two `where` filters, the SQL form in a trigger | one cut written three times | the three forms agree at every instant; status only advances |
| Activities, `activities.service.ts`, `activities.schedule.ts` | `activities` | create, update/publish, cancel, delete | read-then-write, two bookings at once, archival at the same time | no room promised twice; dates within the program; cancelled and archived rows stay |
| Event programs, `event-programs.service.ts` | `event_programs` | create, update/publish, archive, reactivate | activities published while archival counts them; stale updates | archived programs stay archived, keep their dates and hold no pending activity |
| Organizational units | `organizational_units` and the default program of each | create, update, deactivate, reactivate | two rows and a trigger in one transaction | unit and default program live and rest together |
| Classrooms | `classrooms`, availability windows | create, update, deactivate, add/remove window | bookings in flight while the room changes | a room out of use is not booked; windows do not overlap |
| Database constraints, `prisma/migrations` | the tables | checks, exclusion constraint, triggers | what they do *not* look at | what they guarantee holds for every interleaving |
| Speakers and equipment, in `activities.service.ts` | `speakers`, `activity_speakers`, `activity_equipment` | lists replaced whole; a speaker is found by address or created | a catalogue shared by activities; an event decided by comparing with what was stored | an address is catalogued once; no activity changes by a request about another |
| Public listings, in three services | none: queries | global and program listing, detail, counts, units | one set of activities filtered by queries written apart | they show the same set |
| Delegation and authorization | collaborators, grants, roles | add/remove collaborator, change role, grant, revoke; permission lookup and listings | windows that begin and end; two removals each counting the other | a scope keeps a delegator; nobody grants more than they hold; listings agree with guards |
| Sessions and authentication | sessions, accounts, tokens, the cookie of a browser | register, login, refresh, change/reset password, verify, logout | a refresh racing a rotation, a password change or a deactivation; answers that are lost | one live token per session; no session of an inactive user survives |
| Users | users | profile, create, update (role, active, organization) | two administrators demoted at once; assignment derived from what is left out | an active administrator remains; the log tells the roles |
| Careers | careers | create, update, delete | a career changing unit under its users | career and unit of a user agree |
| Audit | `audit_events` | written with each change; listing by cursor; purge with archive | a walk over a log that grows and shrinks; a purge that stops half way | pages neither skip nor repeat; what is erased is archived and counted |
| Alerts | `alerts` | create, list, mark as read | an activity deleted while an alert is created for it | alerts refer to rows that exist |
| Seeds | rows of every table | base seed, demo seed | no transaction around them; run again over what is half done or was edited | a run that finishes leaves its catalogue |
| Maintenance scripts | audit log, development activities | purge, cleanup | deleting beside a running API | nothing retained is deleted |
| Server life cycle, `server.ts` | process | start, drain, close, force exit | shutdown racing its deadline, a second signal, a request that hangs | it always ends; exit code 0 cut nobody off |
| Certificates, rate limiting, configuration, observability, deployment, OpenAPI | section 6 | - | - | - |

Activities read programs, units, classrooms and alerts; archival of a program, deactivation
of a unit and of a room read activities back. Delegation reads programs and users. Users read
careers and units, and careers users; deactivating a user ends its sessions. The scripts meet
the API in the tables. The life cycle of one row is guarded by reads of another, which is
where the hazards are. `PROJECT.json` lists them at their lines.

## 2. The modules

| Module | Models | Code |
|---|---|---|
| `InstitutionalTime` | dates, times, instants, zone | `src/utils/date.ts` |
| `ActivityStatus` | derived status and its three forms | `src/modules/activities/activities.status.ts`, archive trigger |
| `StatusOverTime` | one stored row read while the clock runs | ADR-0010 |
| `Database` | rows, constraints, triggers, requests in flight | `prisma/schema.prisma`, `prisma/migrations` |
| `Activities`, `EventPrograms`, `OrganizationalUnits`, `Classrooms` | the operations of each service | `src/modules/*/*.service.ts` |
| `Backend` | the composition: all requests, the clock, rollbacks; the properties | the process |
| `Listings` | what the public endpoints show of a state of `Backend` | three services |
| `RoomCalendar` | abstract: a calendar in which no two slots of a room overlap | what booking promises |
| `Booking` | the refinement mapping from `Backend` to `RoomCalendar` | exclusion constraint |
| `Rooms` | windows, capacity, amenities, the search for rooms, bookings in them | `classrooms.service.ts`, `activities.schedule.ts` |
| `Speakers` | speakers and equipment of activities, beside `Rooms` | `activities.service.ts` |
| `PermissionCatalog`, `Authorization` | permissions, envelopes, provenance, listings: operators | `permissions.ts`, `authorization.service.ts` |
| `Delegation` | the five operations that write collaborators and grants | `delegation.service.ts` |
| `Registry` | the tables behind accounts | `prisma/schema.prisma` |
| `Careers`, `Users` | the operations of each service | `careers.service.ts`, `users.service.ts` |
| `Accounts` | both over the same tables | |
| `Sessions` | `modules/auth` over `Users`, step by step, with the cookie | `auth.service.ts`, `auth.cookie.ts`, `auth.audit.ts`, `lib/auth.ts` |
| `RefreshTokens` | abstract: lines of tokens of which one works | SEG-06, SEG-07, SEG-09 |
| `AuditEvents` | the log written, walked page by page and purged | `audit.service.ts`, `purge-audit-events.ts` |
| `DevCleanup` | the cleanup beside the API | `cleanup-dev-activities.ts` |
| `Seeds` | both seeds, statement by statement | `prisma/seed/*.ts` |
| `ServerLifecycle` | start, drain, deadline, fatal errors, exit | `server.ts` |
| `Operations` | `StatusOverTime` and the last four, one at work at a time | |
| `Absent` | the constant they share | |
| `MC*` | constants of the bounded checks | |
| `*_proofs` | the proofs | |

There are three compositions, each over the tables its parts share: `Backend` (units, programs,
activities, rooms), `Accounts` and `Sessions` (users, careers, sessions), `Delegation`
(collaborators, with users and programs reduced to what it reads of them). `Rooms` looks at a
booking again, with what `Backend` leaves out of a room; `Operations` puts side by side
processes that share no rows.

Definitions carry the names of the source. Those whose name ends in `_InUtc`, `_AsUniqueIndex`
and the like, each marked *Mutation*, are plausible mistakes in the definition below them;
no specification uses them. Replacing the definition by the mutation makes a property
fail, which shows that the property depends on that code.

### State of the core

`unit`, `program`, `activity` and `classroom` are the tables, as functions from ids to rows or
`Null`. `retained` is the set of activities that an alert or an attendance row refers to.
`activityAudit` and `programAudit` hold the last life-cycle event of each row. `now` is the
clock in ticks. `tx[w]` is the transaction that request `w` has decided on and not yet run.

### One request, two steps

Each operation is a pair of actions. `BeginX` is the read phase: its conjuncts are the guards
and early returns of the service, and it leaves in `tx[w]` what the transaction will write.
`CommitX` is the transaction: every write, the audit event, and every constraint and trigger
that PostgreSQL evaluates for those writes. It uses the database *as it is then* and the
decision *as it was made*. `Rollback` covers a refused constraint, a lost connection and a
crash: since nothing but the database survives a request, all are the same step. Requests
answered without writing (errors, and idempotent answers such as cancelling twice) change
nothing and are not actions.

Why these two steps are enough:

- The transaction is atomic. The triggers on activities and on programs lock the program row
  (`FOR UPDATE`) before they look at it; the exclusion constraint waits for a conflicting
  insert; foreign keys lock what they refer to; and each statement after a lock was granted
  sees what the other transaction committed. A transaction of this core that decides on a
  row decides on a locked one or on one of its own, except where the code takes no lock, and
  there the model takes what is committed, as the statement does.
- The read phase is one step although it is several queries. Splitting it would add
  behaviours in which a guard uses reads of different ages. The properties
  that hold under interleaving (section 3) rest on what the transaction checks, not on the
  reads; those that fail already fail with the stronger reads.
- `now()` in a trigger is the start of the transaction. The commit step uses the clock at the
  commit; a transaction that takes no time makes the two equal.

### Handlers of more than two steps

`Sessions` has no transaction around most of what it does: each call to Better Auth and each
query is a step of its own, with the next one kept in `tx[w].op`. A request may be lost after any step
(a crash, a closed connection), and so may its answer, with the cookie it carries. `Seeds` is
one step per statement, because the seeds run outside a transaction; a run may be stopped
after each and started again, on the same day or the next. The purge archives, then erases
batch by batch, the cleanup plans and then deletes, the server closes one thing after another: each
of these is a step, and the others may act between them.

`Accounts`, `Delegation`, `Rooms` and `Sessions` answer several questions with one instance each.
A variable that never changes picks at the start one scenario of `Clients`: which requests clients send,
how many are in flight (`inFlight`), and how far the clock goes. A property that the services
promise for one request at a time says so with `Alone =>`. `Operations` likewise picks with
`part` which process is at work.

### What is abstracted

Texts, the type and banner of an activity and the head of a unit are left out: no modelled
guard reads them. `Backend` has no capacities, windows, speakers or permissions: those only give a
request further reasons to be refused, so leaving them out adds behaviours. `Rooms`,
`Speakers` and `Delegation` have them, and keep of an activity what they read: a slot and a
status in `Rooms`, a line-up in `Speakers`, its place under a program in `Delegation`. Better Auth, jose, the
connection pool, sockets and the logger are outside the repository and appear as what the code
relies on. A catalogue of the seeds keeps one entry of each kind. The clock counts ticks, in a zone one
tick behind UTC, so that the institutional day and the UTC day differ as they do in Panama.
`Owner` and `DefaultProgram` are constants because no operation rewrites them. Rows with a
stored status ONGOING or COMPLETED are typed, and the definitions of status treat them, but
only seeds create them and `Init` has none.

## 3. The checks

| Run | Instance | States | Shows |
|---|---|---|---|
| `sequential` | 1 request at a time; 1 activity, default and additional program, 1 room, 2 days | 196 760 | what the guards of the services are worth alone: `ClosedIsQuiet`, `CancellationIsFinal`, `ArchivalFreezes`; `PublicViewsAgree`, the public queries show one set of activities |
| `booking` | 2 requests, 2 activities, 1 room, 1 day | 409 342 | `NoDoubleBooking`; `Backend` implements `RoomCalendar` |
| `lifecycle` | 2 requests, 1 activity, default and additional program, 2 days | 479 497 | types and the six relations that the database protects |
| `delegation` | a program, its activity, 3 users, windows, clock to 2; and 2 requests over the program | 162 916 | tables; envelopes are unions of windows; listings agree with guards; removals keep a delegator; delegated time is held time |
| `accounts` | 3 users, 2 careers, 2 faculties; assignments and roles one at a time, tables with 2 requests | 223 219 | tables; an administrator remains; the log tells the roles; users stay placed |
| `sessions` | 2 sessions, 3 tokens, 1 browser, 2 requests that may be lost | 878 774 | sessions implement `RefreshTokens`; a reset ends all sessions; the audit names the right subject; no cookie of an inactive user; logout revokes; a change keeps its session |
| `sessions_collide` | two tabs of a browser, no loss | 33 440 | `CollisionsHeal` under weak fairness: the shared cookie works again |
| `rooms` | 1 room, a Sunday and a Monday, 3 windows, 2 activities, 4 speakers; 1 and 2 requests | 266 271 | what the search offers is what a booking accepts; the log replays to the tables; a change of speakers or equipment is told and touches one activity |
| `operations` | every stored row over 3 days of 4 ticks, 21 instants; 3 events with pages and batches of 1, 2 purgers; 3 development activities; 1 stop, 1 edit, 2 days of the seeds; 2 requests per server, 2 signals | 658 523 | the derived status, its filters and the trigger agree (`TemporalCutsAgree`); a status only advances; pages neither skip nor repeat; what is erased is archived and counted; seeds converge; shutdown ends and is graceful |
| `role_override` | the real catalogue, one request at a time | stops at a counterexample | finding below |
| `envelope_gaps` | a user with the permission until 1 in the program and from 2 in the activity | stops at a counterexample | finding below |
| `seed_again` | the demo seed on two days | stops at a counterexample | finding below |

`booking`, `lifecycle`, the relations between tables (`DelegationTables`, `AccountTables`,
`SessionTables`, `RoomLogReplays`) and `SessionsAreLines` ask what holds *whatever interleaves*.
`sequential`, and what is said with `Alone =>`, asks what the guards of the services are worth
on their own.

### Bounds

A race in this code is between the reads of one request and the commit of another, so two
requests in flight suffice to show it; that no third request breaks what the database
guarantees in the core is proved (section 5).

- *Core.* Two days of three ticks give an activity a day before, its own day with a tick before,
  in and after it, and a day after. `MaxNow` lets the clock run past the end of the last activity (6 with two
  days; 2 in `booking`, where the constraint does not look at the clock). `Reasons` has one text, so
  that the reason and its absence differ. The bodies of requests are named sets in
  `MCBackend`: a publication and its opposite, a longer end, another date, a room given or
  taken away; for programs a publication, a later start, an earlier end. An activity id is
  used once, which bounds creations.
- *Delegation.* A window without ends, one that ends at 1 and one that begins at 2: at instant 1 none, at 0
  and 2 one of the bounded ones applies. Two removals need two delegators besides the administrator; two collaborations suffice
  for that and for a delegation from one to the other.
- *Accounts.* Three users, each of whom may become an administrator; a career of a faculty and
  the global one. An assignment refers to one faculty, another, none, or leaves the field out.
- *Sessions.* Two sessions, of one user or of two: one that acts and one that is ended; a lifetime of one tick,
  so that a session is alive, at its end, or over. Tokens are never reused: three allow two
  rotations of one session.
- *Rooms and speakers.* Windows that overlap, touch and hold one another, on two weekdays; two capacities; an amenity in two
  cases of letters; an address with two names and speakers without address who share one.
- *Operations.* An activity of one day or two, at every pair of times, seen from the day before it
  to the day after. Pages and batches of one event, so that every event is at a boundary; three events are
  enough for one before, one at and one after a cursor.

Workers and interchangeable rows are declared symmetric where only safety is checked;
`sessions_collide` and `operations`, which check liveness, declare no symmetry.

Deadlock is not checked: when the clock has reached its bound and every id is used, the model
may stop, as a server without requests does.

### Fairness

- `sessions_collide`: weak fairness of `Serves(w)`, the next step of a request that began. Nothing
  in a handler waits for a client, so each step the process may take it takes. Nothing is
  assumed of clients; that no answer is lost is a choice of this scenario.
- `operations`: weak fairness of the timer that forces the exit and of the flush before it
  (`server.ts` sets both, and neither waits for anything else). Nothing is assumed of requests, sockets or
  the pool: `ShutdownIsGraceful` says that the process ends although they may hang.
- Everywhere else a client need not retry and a lost request need not return: only safety is checked.

## 4. What the checks found

Three runs end in a counterexample against a sentence of the repository:

| Run | The promise | How it breaks |
|---|---|---|
| `role_override` | ADR-0001:34, changing the role replaces the defaults and preserves the overrides | the new role brings a permission that exists as an override: the insert meets the primary key, the request fails (`delegation.service.ts:447`) |
| `envelope_gaps` | ADR-0001:55 (NEG-003), one who holds disjoint windows may delegate over the gap between them | grants that are not active now are dropped before the windows are merged (`authorization.service.ts:169`), so the envelope never spans a gap and the window is refused |
| `seed_again` | `README.md:866`, running the demo seed again is safe | its dates are relative to the day it runs; on a later day it moves a program before its activities and the trigger refuses (`programs.seed.ts:147`) |

In `envelope_gaps` the code is stricter than the text. NEG-003 describes an envelope that keeps only
its two ends; the one in the code is a union of windows that all hold now, which has no gap.
`EnvelopesAreUnions` and `DelegatedTimeIsHeldTime` (run `delegation`) are what holds of the code
instead, and would fail of the code that NEG-003 describes.

The following disagreements were met while modelling. They are not runs of their own.
To see one of the first group, give `MCSequential.cfg` two workers; elsewhere
set `inFlight` of the scenario to 2 and take `Alone =>` out of the property.

| Promise | How two requests break it | Code |
|---|---|---|
| a cancelled activity cannot be modified | an update that read the draft commits after the cancellation and publishes it | `activities.service.ts:873` |
| cancelling again does not overwrite the reason | two cancellations read a live activity; both write | `activities.service.ts:930` |
| archiving freezes the activities | update and cancel commit after it; the trigger looks only at moves and publications | `activities.service.ts:873` |
| an archived program cannot be modified | an edition that read it before moves its dates | `event-programs.service.ts:370` |
| activity writes are serialised against archival | a change of times fires no trigger: a finished activity becomes pending in an archived program | `20260919053739_initialize_event_program_schema/migration.sql:778` |
| no unit is deactivated with pending activities | one is published between the count and the transaction | `organizational-units.service.ts:320` |
| no room is deactivated with bookings | a booking that saw it active commits afterwards | `classrooms.service.ts:287` |
| programs are created in active units only | the unit is deactivated between the read and the insert | `event-programs.service.ts:255` |
| windows of a room do not overlap | two that overlap are added at once; the index refuses equal ones only | `classrooms.service.ts:411` |
| a scope keeps a delegator | two removals, or a removal and a withdrawal of the right to delegate, count each other | `delegation.service.ts:491`, `:571` |
| nobody delegates more than they hold | the actor's grant is revoked before the delegation is written | `delegation.service.ts:628` |
| an active administrator remains | two are demoted at once; a promotion uses a row that was deactivated since | `users.service.ts:551`, `:573` |
| the log tells roles and assignments | two updates of a user compare with the same earlier row | `users.service.ts:452`, `:486` |
| career and unit of a user agree | the career moves after it was read; a deletion of it leaves users without one | `users.service.ts:127`, `careers.service.ts:212`, `:268` |
| logout revokes the session | a refresh in flight replaced the token | `auth.service.ts:371` |
| a change of password keeps its session | a rotation in flight replaced the token it is known by | `auth.service.ts:337` |
| an event tells what the row was before | two updates of an activity both tell the first row | `activities.service.ts:847` |

And these, which need no second request or lie between processes:

- A window is removed, or the capacity of a room reduced, under an activity that was booked with it
  (`classrooms.service.ts:462`): no guard looks at bookings there.
- The guards on the last delegator are on removal and revocation; replacing the permission of that
  delegator by one with a window leaves the scope with none as well (`delegation.service.ts:644`).
- A role is given by comparing names, so a delegator whose permission ends hands it on without an
  end (`delegation.service.ts:55`).
- An event names `speakers` as changed although a speaker found by address keeps the stored name:
  `connectOrCreate` ignores the one sent. A speaker without address gets a new row each time the list is replaced.
- A purge run twice with one `--archive` path writes over the earlier archive. A crash between two batches
  leaves erased events without their `audit.purged` event.
- An event whose transaction commits late may be older than the cursor of a running listing,
  which then misses it. `PagesAreComplete` speaks of what was there when the listing began.
- The cleanup does not see a rename between its plan and its deletion.
- The base seed stopped between the user and the account of the administrator
  (`base.seed.ts:38-61`) leaves one without credentials that no later run repairs; stopped between
  a classroom and its windows it leaves the room without them (`README.md:94` says it can be run
  again). The part of `SeedsConverge` about the base seed therefore speaks of runs that were not
  stopped; the part about the demo seed speaks of all.
- Changing `SEED_ADMIN_EMAIL`, or running base and then demo with different addresses, meets the fixed id of
  the administrator. The demo seed deletes amenities the application added, and is refused after a unit was
  deactivated or a program archived with cancelled activities.
- The application can rename what a seed finds a row by: the code of a career
  (`organizations.seed.ts:355`), the name of an additional program (`programs.seed.ts:143`). The next
  run does not find the row, creates it under the same fixed id and stops at the primary key.
- When the metrics server cannot start, the process waits for API requests without the deadline
  a signal would set.

## 5. The proofs

TLAPS checks these for every set of units, programs, activities, rooms, users, sessions, requests
and workers, every day length and zone, and every set of request bodies. The assumptions are the
ASSUMEs of the modules. Dates are integers and times of day lie below the length of the day
(`SchemaAssumption`); each default program belongs to its unit; request bodies are typed
(`InputAssumption`, `RegistryAssumption`, what the zod schemas ensure); ids of users and of careers are disjoint,
as the random ids of two tables are; `Null` and `Undefined` are unlike any value
(`QueryAssumption` says it of the filters of the listings, `RoomsAssumption` of capacities and activities,
`AuditAssumption` of cursors and runs of the purge, `ServerLifecycleAssumption` of exit codes and phases).
The runs of the purge are finitely many, because a sum over them is taken.

An invariant here is seldom inductive. The same argument carries every component: a request is
two steps, so what the first one decided must be kept in the invariant as a statement about
the transaction in flight (`Requests`, `Held`), and it must say only what the steps of others leave
true. Each of these strengthenings was first checked by TLC on the run of its component.

- **The temporal cut** (`ActivityStatus_proofs`, `StatusOverTime_proofs`, `Operations_proofs`): the derived status,
  the two filters and the trigger agree for every row and instant. The argument is one fact of
  arithmetic, `DateThenTime`: ordering by date and then time is ordering by ticks. It needs
  times below `DayLength`, and that is all it needs.
- **Types, and units with their default program** (`Backend_proofs`). Types alone are not
  inductive: a commit updates a row found earlier, which must still be there. The invariant
  `IInv` adds `Requests`, what stays true of a transaction in flight: programs and units are
  never deleted, a new activity is a draft, and a default program is never published or
  moved. The last needs the bond itself (a default program is never DRAFT), so both are proved
  together.
- **Bookings** (`Backend_proofs`). The backend implements the calendar
  (`BackendImplementsCalendar`); the calendar never collides (`CalendarNeverCollides`); and
  only DRAFT, SCHEDULED and CANCELLED are ever stored, so what is shown as scheduled or
  ongoing holds the slot of its row. Together: `NoDoubleBookingAlways`.
- **Listings** (`Backend_proofs`). `PublicViewsAgreeAlways`: the queries written apart in three
  services show one set of activities. It follows from the temporal cut, from the bond of unit and
  default program, and from the archive constraint, in every state and for every query.
- **Activities, programs, alerts and audit** (`Backend_proofs`). One invariant `LInv`: the
  four relations and `Archival`, that an additional program is archived exactly when
  `archived_at` is set. `Archival` is the point of `OnlyReactivationRevives`: a stale
  publication writes a status and not `archived_at`, and the constraint refuses the pair.
  Every step has one of three shapes, each with its lemma.
- **One request at a time** (`Backend_proofs`). What the services check before the transaction
  is worth something only when nobody writes in between, so these theorems say
  `ASSUME OneWorker`: there is at most one worker, as in the run `sequential`.
  `SeqInv` adds to `LInv` that the decision of the one request in flight still fits the tables;
  from it: a unit at rest and an archived program have nothing pending (`ClosedIsQuietAlone`), a
  cancellation is final (`CancellationIsFinalAlone`), archival freezes (`ArchivalFreezesAlone`).
  The hypothesis cannot be dropped: section 4 has the interleavings that break each.
- **Delegation** (`Delegation_proofs`). The tables under every interleaving (the indexes, the cascade and the
  two sources of a permission); envelopes are the unions of the windows that compose them;
  listings agree with guards; and, for one request at a time, removals keep a delegator and delegated
  time is held time (so nobody delegates over a gap, whatever NEG-003 says). The envelopes
  are folds over finite sets. Induction over an operator is out of the
  provers' reach, so what a fold returns is proved by a least counterexample: the smallest subset
  for which the claim fails differs from a smaller one by a member.
- **Sessions** (`Sessions_proofs`). `SessionsRefineLines`: with any number of users, browsers and requests, lost
  at any step, the sessions implement `RefreshTokens`. The invariant says that a token belongs to one
  row and what each request remembers of the row it read; every step is then a rotation, an
  opening, an end or a stutter. From the same invariant: the tables, the subject of each event
  and that a reset leaves no session. Alone, with `AloneInv`: logout revokes, a change of password keeps its
  session, an inactive user holds no cookie.
- **Accounts** (`Accounts_proofs`). `Inv` is the tables and what each transaction in flight holds of
  them. `AloneInv` adds that what a request decided (that another administrator is active, that the
  career is in the unit, what the row was) is so until it commits. `ResolutionPlaces` is the
  heart of the latter: every path through the resolution of an assignment gives a career and
  a unit that agree. From it: an administrator remains, the log tells the roles, users stay placed.
- **Rooms and speakers** (`Rooms_proofs`). `Inv` is the tables, the log, that the id of a window is given
  once, and what each transaction in flight was decided with. That the search agrees with the guard of a
  booking (`OfferedIsBookableAlways`) needs it for one fact: what overlaps a slot that has not begun has
  not finished, so the search, which looks only at what is unfinished, loses nothing. `AloneInv` adds that windows and
  amenities are distinct, which no constraint ensures. A line-up is told
  (`LineupChangesAreToldAlways`) because the comparison that decides the event is exact: as many keys
  as rows and addresses that are unique make places and rows a bijection, although the upsert may
  rename a speaker of the catalogue.
- **The audit log and the scripts** (`Operations_proofs`). `AInv` is what pages and purges rest on: ids are given
  once, so a row erased never returns; what a run planned and still finds was archived by it before
  it erases; the cursor stands at the last row shown. `Ordered` gives each row the place of its rank, so
  that a page is a prefix of what is left and the next page lies below. What is
  counted is what was erased because the sum over runs is the size of the set of all units
  counted (`SumCountsUnits`). Of the cleanup the types suffice: the foreign keys
  refuse the whole transaction when one of its rows is referred to.
- **The server** (`Operations_proofs`): exit code 0 cuts nobody off, for every number of
  requests and signals. The code is decided when the signal comes and flushed much later, so the
  invariant `SInv` carries the promise along: a shutdown that promises 0 found every server
  listening, goes on only when they have closed, and a closed server serves nobody; whatever
  fails in between flushes code 1, which does not touch the promise.

The theorems about the clock, the log, the cleanup and the server are about `Spec` of `Operations`,
the specification that the run checks; a step of one part leaves the others as they are.

Only model-checked: what is liveness and so out of the prover's reach, `CollisionsHeal` and the
end of the process in `ShutdownIsGraceful` (its other half, `CleanExit`, is proved);
`SeedsConverge`, which speaks of one catalogue, written as data, that the run has whole; and the
three runs that stop at a counterexample.

## 6. Not modelled, and the plan

Not modelled, because no state of the program is in it:

- certificates, which read rows and render them;
- rate limiting: the code chooses keys, the counters are those of `express-rate-limit`;
- configuration, the Prisma singleton, metrics, deployment and OpenAPI documents;
- the listings of users, units, rooms and careers, and the search by text.

Left out of modelled components: `updateOrganizationalUnit` writes texts and the head, which no
guard reads; an alert is marked as read by one conditional update of one row; the cache of
verification keys belongs to jose and the initialisation of keys only logs; proposals and
attendance have tables, triggers and no operations.

What is left, in this order:

1. The four hazards that no property covers yet (`PROJECT.json` says why of each): the part `before` of an
   update event, a room reduced under a booking, a delegator replaced by a narrower grant, and roles
   compared by names. All four happen (section 4); the repository does not write down the promise they
   would be checked against.
2. The safety half of `SeedsConverge`: that a run which is stopped never leaves a row that makes
   the next one fail for good, for every catalogue rather than for the one written in `Seeds`.
