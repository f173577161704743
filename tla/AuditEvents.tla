---------------------------- MODULE AuditEvents ----------------------------
(***************************************************************************)
(* The audit log as it is read and purged: requests append events in their *)
(* transactions (modules/audit/audit.service.ts, writeAuditEvent), an      *)
(* administrator walks its pages (listAuditEvents) and operators erase     *)
(* what is older than the retention (prisma/scripts/purge-audit-events.ts).*)
(* Payloads, and the filters that compare one more column, are left out.   *)
(***************************************************************************)
EXTENDS Absent, Integers, Sequences, FiniteSets, FiniteSetsExt, SequencesExt

CONSTANTS
  EventIds,        (* identifiers, compared as the text they are           *)
  Purgers,         (* runs of the purge script                             *)
  Retention,       (* --retention-days                                     *)
  BatchSize,       (* --batch-size                                         *)
  PageSize,        (* limit of a listing                                   *)
  MaxTime,         (* bound: the clock                                     *)
  MaxPages         (* bound: pages an administrator asks for               *)

Event == [id : EventIds, occurredAt : 0..MaxTime, action : {"user.updated", "audit.purged"}]

ASSUME AuditAssumption ==
  /\ EventIds \subseteq Nat
  /\ Retention \in Nat \ {0} /\ BatchSize \in Nat \ {0} /\ PageSize \in Nat \ {0}
  /\ MaxTime \in Nat /\ MaxPages \in Nat
  /\ IsFiniteSet(Purgers)
  /\ Null \notin [t : 0..MaxTime, i : EventIds]
  /\ Null \notin [step : {"archiving", "deleting"}, rows : Seq(Event), purged : Nat]

VARIABLES
  events,      (* the table audit_events                                   *)
  writing,     (* events of transactions that have not committed           *)
  listing,     (* the walk of an administrator: query, pages, next cursor  *)
               (* and the events there were when it began                  *)
  purge,       (* what each run of the purge is at                         *)
  archived,    (* rows in the archives, each run writing a file of its own *)
  erased,      (* rows deleted                                             *)
  told,        (* rows that audit.purged events say were deleted           *)
  untold,      (* rows deleted by runs that stopped before saying so       *)
  clock

auditVars == <<events, writing, listing, purge, archived, erased, told, untold, clock>>

Query ==
  {[action |-> action, from |-> range.from, to |-> range.to] :
     action \in {Null, "user.updated"},
     range \in {[from |-> Null, to |-> Null], [from |-> 1, to |-> MaxTime - 1]}}

AuditInit ==
  /\ events = {} /\ writing = {} /\ archived = {} /\ erased = {}
  /\ listing = Null
  /\ purge = [p \in Purgers |-> Null]
  /\ told = 0 /\ untold = 0
  /\ clock = 0

Fresh(id) == \A e \in events \cup writing \cup erased : e.id # id

-----------------------------------------------------------------------------
(***************************************************************************)
(* writeAuditEvent.  The instant is that of the insert; the row is seen    *)
(* when the transaction around it commits, perhaps after later events.     *)
(* Nothing updates a row, and only the purge can delete one.               *)
(***************************************************************************)
writeAuditEvent(id) ==
  /\ Fresh(id)
  /\ writing' = writing \cup {[id |-> id, occurredAt |-> clock, action |-> "user.updated"]}
  /\ UNCHANGED <<events, listing, purge, archived, erased, told, untold, clock>>

EndWrite(e, committed) ==
  /\ writing' = writing \ {e}
  /\ events' = IF committed THEN events \cup {e} ELSE events
  /\ UNCHANGED <<listing, purge, archived, erased, told, untold, clock>>

-----------------------------------------------------------------------------
(***************************************************************************)
(* listAuditEvents                                                         *)
(***************************************************************************)
\* A bound that is left out; Null compares with no number.
Matches(query, e) ==
  /\ query.action # Null => e.action = query.action
  /\ query.from # Null => e.occurredAt >= query.from
  /\ query.to # Null => e.occurredAt <= query.to

\* A cursor keeps the milliseconds that the column has: none is lost.
encodeAuditCursor(e) == [t |-> e.occurredAt, i |-> e.id]

\* Mutation: events of the instant of the cursor are skipped.
AfterCursor_ByTime(cursor, e) == cursor # Null => e.occurredAt < cursor.t

AfterCursor(cursor, e) ==
  cursor # Null => \/ e.occurredAt < cursor.t
                   \/ e.occurredAt = cursor.t /\ e.id < cursor.i

toAuditEventFilters(query, cursor) ==
  {e \in events : Matches(query, e) /\ AfterCursor(cursor, e)}

Newer(e, f) ==
  \/ e.occurredAt > f.occurredAt
  \/ e.occurredAt = f.occurredAt /\ e.id > f.id

\* ORDER BY: k - 1 rows come before the k-th.
Ordered(rows, Before(_, _)) ==
  [k \in 1..Cardinality(rows) |->
     CHOOSE e \in rows : Cardinality({f \in rows : Before(f, e)}) = k - 1]

NewestFirst(rows) == Ordered(rows, Newer)

\* The page after a cursor, read with one row more than it shows.
Page(query, cursor) ==
  LET rows == NewestFirst(toAuditEventFilters(query, cursor))
      hasMore == Len(rows) > PageSize
      items == IF hasMore THEN SubSeq(rows, 1, PageSize) ELSE rows
  IN  [items |-> items,
       nextCursor |-> IF hasMore THEN encodeAuditCursor(Last(items)) ELSE Null]

FirstPage(query) ==
  LET page == Page(query, Null)
  IN  /\ listing = Null
      /\ listing' = [query |-> query, stored |-> events, items |-> page.items,
                     nextCursor |-> page.nextCursor, pages |-> 1]
      /\ UNCHANGED <<events, writing, purge, archived, erased, told, untold, clock>>

NextPage ==
  LET page == Page(listing.query, listing.nextCursor)
  IN  /\ listing # Null /\ listing.nextCursor # Null /\ listing.pages < MaxPages
      /\ listing' = [listing EXCEPT !.items = @ \o page.items,
                                    !.nextCursor = page.nextCursor,
                                    !.pages = @ + 1]
      /\ UNCHANGED <<events, writing, purge, archived, erased, told, untold, clock>>

-----------------------------------------------------------------------------
(***************************************************************************)
(* purge-audit-events.ts with --apply.  It decides once what to erase,     *)
(* archives it, and erases it in batches that commit one by one; only      *)
(* then it says how much it erased.                                        *)
(***************************************************************************)
\* The query orders by instant alone; of rows of one instant any may go first, here the lower id.
Older(e, f) == Newer(f, e)
OldestFirst(rows) == Ordered(rows, Older)

planAuditPurge(cutoff) == OldestFirst({e \in events : e.occurredAt < cutoff})

PlanPurge(p) ==
  LET plan == planAuditPurge(clock - Retention)
  IN  /\ purge[p] = Null /\ plan # <<>>
      /\ purge' = [purge EXCEPT ![p] = [step |-> "archiving", rows |-> plan, purged |-> 0]]
      /\ UNCHANGED <<events, writing, listing, archived, erased, told, untold, clock>>

\* The rows are read again: another run may have erased some.
writeArchive(p) ==
  /\ purge[p] # Null /\ purge[p].step = "archiving"
  /\ archived' = archived \cup (ToSet(purge[p].rows) \cap events)
  /\ purge' = [purge EXCEPT ![p].step = "deleting"]
  /\ UNCHANGED <<events, writing, listing, erased, told, untold, clock>>

\* Mutation: rows another run erased are counted again.
deleteBatch_CountsBatch(p) ==
  LET size == IF Len(purge[p].rows) < BatchSize THEN Len(purge[p].rows) ELSE BatchSize
      batch == ToSet(SubSeq(purge[p].rows, 1, size))
  IN  /\ purge[p] # Null /\ purge[p].step = "deleting" /\ purge[p].rows # <<>>
      /\ events' = events \ batch
      /\ erased' = erased \cup (batch \cap events)
      /\ purge' = [purge EXCEPT ![p].rows = SubSeq(@, size + 1, Len(@)),
                                ![p].purged = @ + size]
      /\ UNCHANGED <<writing, listing, archived, told, untold, clock>>

\* The triggers that forbid it are disabled inside the transaction of a batch.
deleteBatch(p) ==
  LET size == IF Len(purge[p].rows) < BatchSize THEN Len(purge[p].rows) ELSE BatchSize
      batch == ToSet(SubSeq(purge[p].rows, 1, size)) \cap events
  IN  /\ purge[p] # Null /\ purge[p].step = "deleting" /\ purge[p].rows # <<>>
      /\ events' = events \ batch
      /\ erased' = erased \cup batch
      /\ purge' = [purge EXCEPT ![p].rows = SubSeq(@, size + 1, Len(@)),
                                ![p].purged = @ + Cardinality(batch)]
      /\ UNCHANGED <<writing, listing, archived, told, untold, clock>>

RecordPurge(p, id) ==
  /\ purge[p] # Null /\ purge[p].step = "deleting" /\ purge[p].rows = <<>>
  /\ Fresh(id)
  /\ events' = events \cup {[id |-> id, occurredAt |-> clock, action |-> "audit.purged"]}
  /\ told' = told + purge[p].purged
  /\ purge' = [purge EXCEPT ![p] = Null]
  /\ UNCHANGED <<writing, listing, archived, erased, untold, clock>>

\* The process ends, or a statement of the run fails: batches stay erased.
StopPurge(p) ==
  /\ purge[p] # Null
  /\ untold' = untold + purge[p].purged
  /\ purge' = [purge EXCEPT ![p] = Null]
  /\ UNCHANGED <<events, writing, listing, archived, erased, told, clock>>

Elapse ==
  /\ clock < MaxTime
  /\ clock' = clock + 1
  /\ UNCHANGED <<events, writing, listing, purge, archived, erased, told, untold>>

AuditNext ==
  \/ \E id \in EventIds : writeAuditEvent(id)
  \/ \E e \in writing, committed \in BOOLEAN : EndWrite(e, committed)
  \/ \E query \in Query : FirstPage(query)
  \/ NextPage
  \/ \E p \in Purgers :
       PlanPurge(p) \/ writeArchive(p) \/ deleteBatch(p) \/ StopPurge(p)
  \/ \E p \in Purgers, id \in EventIds : RecordPurge(p, id)
  \/ Elapse

-----------------------------------------------------------------------------
AuditTypeOK ==
  /\ events \subseteq Event /\ writing \subseteq Event
  /\ archived \subseteq Event /\ erased \subseteq Event
  /\ \A p \in Purgers : purge[p] # Null =>
       /\ purge[p].step \in {"archiving", "deleting"}
       /\ purge[p].rows \in Seq(Event) /\ purge[p].purged \in Nat
  /\ listing # Null =>
       /\ listing.query \in Query /\ listing.items \in Seq(Event)
       /\ listing.nextCursor \in {Null} \cup [t : 0..MaxTime, i : EventIds]
  /\ told \in Nat /\ untold \in Nat /\ clock \in 0..MaxTime

(***************************************************************************)
(* The pages of a listing are one descending list, whatever is written and *)
(* purged between them: no event twice, and none left out that was there   *)
(* when it began and still is (audit.schemas.ts: "ordered by occurredAt    *)
(* and id descending").                                                    *)
(***************************************************************************)
PagesAreComplete ==
  listing # Null =>
    /\ \A i, j \in DOMAIN listing.items : i < j => Newer(listing.items[i], listing.items[j])
    /\ \A e \in listing.stored \cap events :
         Matches(listing.query, e) =>
           \/ e \in ToSet(listing.items)
           \/ listing.nextCursor # Null /\ AfterCursor(listing.nextCursor, e)

\* What a run erased and has not said yet.
PurgedBy(p) == IF purge[p] = Null THEN 0 ELSE purge[p].purged

(***************************************************************************)
(* What left the audit log is in an archive, was older than the retention, *)
(* and is counted once: by the audit.purged event of the run that erased   *)
(* it, or by a run that has not got to it (ADR-0008).                      *)
(***************************************************************************)
AuditErasuresAreAccounted ==
  /\ erased \subseteq archived
  /\ \A e \in erased : e.occurredAt < clock - Retention
  /\ told + untold + MapThenSumSet(PurgedBy, Purgers) = Cardinality(erased)
=============================================================================
