----------------------------- MODULE Listings -----------------------------
(***************************************************************************)
(* The public reading endpoints: activities and programs are filtered by   *)
(* queries written apart from one another, in three services, and a page   *)
(* of the frontend shows several of them side by side.  Order, pages and   *)
(* the filters that compare one more column are left out.                  *)
(***************************************************************************)
EXTENDS Backend, FiniteSets

\* A query that filters nothing; the field "when" counts as "upcoming" if left out.
NoFilter == [status |-> Undefined, when |-> "all", eventProgram |-> Undefined,
             organizationalUnit |-> Undefined, dateFrom |-> Undefined, dateTo |-> Undefined]

\* A field that is left out is none of the values a query may give it.
ASSUME QueryAssumption ==
  Undefined \notin {"all", "past", "ALL"} \cup Units \cup Programs

InRange(date, query) ==
  /\ query.dateFrom # Undefined => date >= query.dateFrom
  /\ query.dateTo # Undefined => date <= query.dateTo

\* Mutation: what takes place today is past, too.
Timeframe_TodayTwice(when, date) ==
  /\ Given(when, "upcoming") = "upcoming" => date >= startOfInstitutionalDay(now)
  /\ when = "past" => date <= startOfInstitutionalDay(now)

Timeframe(when, date) ==
  /\ Given(when, "upcoming") = "upcoming" => date >= startOfInstitutionalDay(now)
  /\ when = "past" => date <= startOfInstitutionalDay(now) - 1

\* A status only counts if an administrator, or a reader, asks for it.
StatusFilter(requested, row) ==
  CASE requested = Undefined -> row.status \in PUBLISHED_ACTIVITY_STATUSES
    [] requested = "ALL" -> TRUE
    [] OTHER -> buildEffectiveStatusWhere(requested, row, now)

listActivities(query, isAdmin) ==
  {a \in Activities :
     /\ Exists(a)
     /\ LET row == activity[a]
            p   == row.eventProgram
        IN  /\ program[p].status = "ACTIVE"
            /\ query.organizationalUnit # Undefined => Owner[p] = query.organizationalUnit
            /\ query.eventProgram # Undefined => p = query.eventProgram
            /\ Timeframe(query.when, row.date)
            /\ InRange(row.date, query)
            /\ StatusFilter(IF isAdmin THEN query.status ELSE Undefined, row)}

\* 404 otherwise.
FindsProgram(p, canRead) == program[p] # Null /\ (canRead \/ program[p].status = "ACTIVE")

listEventProgramActivities(p, query, canRead) ==
  {a \in activitiesOf(p) :
     /\ InRange(activity[a].date, query)
     /\ StatusFilter(IF canRead THEN Given(query.status, "ALL") ELSE Undefined, activity[a])}

getActivityById(a, canRead) ==
  /\ Exists(a)
  /\ ~canRead => /\ activity[a].status # "DRAFT"
                 /\ program[activity[a].eventProgram].status = "ACTIVE"

byStatus(p) ==
  [s \in ActivityStatuses |-> Cardinality({a \in activitiesOf(p) : Effective(a) = s})]

\* countEventProgramActivities, without the breakdown.
visible(p) ==
  LET count == byStatus(p) IN count["SCHEDULED"] + count["ONGOING"] + count["COMPLETED"]

getEventProgramById(p) == program[p] # Null /\ program[p].status = "ACTIVE"

listEventPrograms(requested, isAdmin) ==
  LET status == Given(IF isAdmin THEN requested ELSE Undefined, "ACTIVE")
  IN  {p \in Programs : program[p] # Null /\ (status = "ALL" \/ program[p].status = status)}

listOrganizationalUnits(isActive) ==
  {u \in Units : unit[u] = IF Given(isActive, TRUE) THEN "ACTIVE" ELSE "INACTIVE"}

-----------------------------------------------------------------------------
(***************************************************************************)
(* What the public pages show of a program is one set of activities,       *)
(* however it is asked for: the listing of the program, the global listing *)
(* filtered by it, the upcoming and the past ones together, each in one of *)
(* the two, and the number on the card of the program; every activity in   *)
(* it can be opened.  For administrators the numbers by status are those   *)
(* of the filtered listings.  A program that is not found shows nothing.   *)
(***************************************************************************)
ProgramViewsAgree ==
  \A p \in Programs :
    LET of(when) == listActivities([NoFilter EXCEPT !.when = when, !.eventProgram = p], FALSE)
        listed   == listEventProgramActivities(p, NoFilter, FALSE)
        with(s)  == [NoFilter EXCEPT !.status = s, !.eventProgram = p]
    IN  /\ getEventProgramById(p) <=> p \in listEventPrograms(Undefined, FALSE)
        /\ getEventProgramById(p) <=> FindsProgram(p, FALSE)
        /\ getEventProgramById(p) =>
             /\ of("all") = listed
             /\ of(Undefined) \cup of("past") = listed
             /\ of(Undefined) \cap of("past") = {}
             /\ visible(p) = Cardinality(listed)
             /\ \A a \in listed : getActivityById(a, FALSE)
             /\ \A s \in ActivityStatuses :
                  /\ byStatus(p)[s] = Cardinality(listActivities(with(s), TRUE))
                  /\ listActivities(with(s), TRUE) = listEventProgramActivities(p, with(s), TRUE)
             /\ \A d \in Dates :
                  listActivities([with(Undefined) EXCEPT !.dateFrom = d, !.dateTo = d], FALSE)
                    = {a \in listed : activity[a].date = d}
        /\ ~getEventProgramById(p) =>
             /\ of("all") = {}
             /\ \A a \in activitiesOf(p) : ~getActivityById(a, FALSE)

(***************************************************************************)
(* A unit in the public listing names a default program that is found, and *)
(* the activities of its programs are those of the unit.                   *)
(***************************************************************************)
UnitViewsAgree ==
  \A u \in Units :
    /\ u \in listOrganizationalUnits(Undefined) <=> getEventProgramById(DefaultProgram[u])
    /\ listActivities([NoFilter EXCEPT !.organizationalUnit = u], FALSE)
         = UNION {listEventProgramActivities(p, NoFilter, FALSE) :
                    p \in {q \in listEventPrograms(Undefined, FALSE) : Owner[q] = u}}

PublicViewsAgree == ProgramViewsAgree /\ UnitViewsAgree
=============================================================================
