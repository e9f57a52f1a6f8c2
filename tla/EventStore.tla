----------------------------- MODULE EventStore -----------------------------
(***************************************************************************)
(* The SQLite store: the table of current events, the change journal       *)
(* written in the same transaction as every meaningful event transition,   *)
(* and one delivery cursor per enabled output                              *)
(* (internal/storage/sqlite/sqlite.go).                                    *)
(*                                                                         *)
(* Two goroutines write events: the single ingest worker and the           *)
(* maintenance loop (internal/plugin/manager.go).  Each of them reads the  *)
(* clock BEFORE it waits for the one database connection, so its           *)
(* transaction may commit later than the time it works with: an operation  *)
(* is a Begin step, which reads the clock, and a step that runs the whole  *)
(* transaction.  MaxWait bounds how far the clock advances in between.     *)
(***************************************************************************)
EXTENDS Integers, FiniteSets

CONSTANTS
  Keys,             \* event keys (source:source_id)
  Contents,         \* provider content, without expiry and lifecycle status
  Expiries,         \* possible expires_at values; 0 stands for "no expiry"
  Outputs,          \* configured output ids
  OutputTypes,      \* plugin types an output id may be configured with
  ChangeRetention,  \* journal retention; 0 disables the cleanup
  EventRetention,   \* retention of ended events; 0 disables the cleanup
  MaxTime,          \* bound: the last clock value
  MaxChanges,       \* bound: no ingest starts once this many changes exist
  MaxWait,          \* bound: clock ticks an operation may wait for its turn
  None              \* an absent row, cursor or operation

ASSUME StoreConstants ==
  /\ IsFiniteSet(Keys)
  /\ Expiries \subseteq Nat
  /\ ChangeRetention \in Nat
  /\ EventRetention \in Nat
  /\ MaxTime \in Nat
  /\ MaxChanges \in Nat
  /\ MaxWait \in Nat

VARIABLES
  now,       \* the wall clock
  events,    \* the events table: the current row of each key, or None
  changes,   \* the journal rows that are still retained
  lastId,    \* sqlite_sequence of the journal: the last id ever issued
  cursors,   \* the output_cursors table
  ingest,    \* the ingest worker's operation in progress, or None
  maint,     \* the next step of the maintenance pass
  maintNow   \* the time read when the maintenance ticker fired; 0 between passes

eventVars == <<events, changes, lastId>>
storeVars == <<now, events, changes, lastId, cursors, ingest, maint, maintNow>>

Statuses == {"active", "cancelled", "expired"}
ChangeTypes == {"new", "updated", "cancelled", "expired"}

\* What a source may hand over after Normalize and Validate: never "expired".
Report == [status : {"active", "cancelled"}, content : Contents, expires : Expiries]

Row == [status : Statuses, content : Contents, expires : Expiries,
        lastSeen : Nat, updated : Nat]

Change == [id : Nat, type : ChangeTypes, key : Keys, status : Statuses,
           content : Contents, expires : Expiries, created : Nat]

Cursor == [type : OutputTypes, acked : Nat]

IngestOp == [key : Keys, report : Report, at : Nat]

MaintSteps == {"idle", "expire", "changes", "events"}

\* The one sentinel is not a value of any table.
ASSUME NoneIsNoValue ==
  None \notin Row /\ None \notin Cursor /\ None \notin IngestOp

StoreTypeOK ==
  /\ now \in Nat
  /\ events \in [Keys -> Row \cup {None}]
  /\ changes \subseteq Change
  /\ lastId \in Nat
  /\ cursors \in [Outputs -> Cursor \cup {None}]
  /\ ingest \in IngestOp \cup {None}
  /\ maint \in MaintSteps
  /\ maintNow \in Nat

-----------------------------------------------------------------------------
(* Classification of one report against the stored row.                    *)

\* The content hash covers the provider's content and the expiry, not the
\* lifecycle status.
Fingerprint(e) == <<e.content, e.expires>>

\* The provider removed the expiry or it lies in the future.
ExpiryLive(r, t) == r.expires = 0 \/ r.expires > t

\* Mutant: an expired event is never a duplicate.
IsDuplicateUnlessExpired(r, row, t) ==
  row # None /\ Fingerprint(r) = Fingerprint(row) /\ r.status = row.status

\* Nothing to journal: only last_seen_at is refreshed.
IsDuplicate(r, row, t) ==
  /\ row # None
  /\ Fingerprint(r) = Fingerprint(row)
  /\ \/ r.status = "cancelled" /\ row.status = "cancelled"
     \/ r.status = "active" /\ row.status = "active"
     \/ r.status = "active" /\ row.status = "expired" /\ ~ExpiryLive(r, t)

\* Mutant: a cancellation of an expired event leaves it expired.
StatusAfterIgnoringCancel(r, row, t) ==
  IF row # None /\ row.status = "expired" /\ ~ExpiryLive(r, t)
  THEN "expired" ELSE r.status

\* New content under a lapsed expiry does not revive an expired event.
StatusAfter(r, row, t) ==
  IF r.status = "active" /\ row # None /\ row.status = "expired" /\ ~ExpiryLive(r, t)
  THEN "expired" ELSE r.status

\* A first-seen cancellation is a cancellation, never "new".
ChangeTypeOf(r, row) ==
  IF r.status = "cancelled" THEN "cancelled"
  ELSE IF row = None THEN "new" ELSE "updated"

\* One journal row: the change and the immutable snapshot of the event.
JournalRow(id, type, key, row, t) ==
  [id |-> id, type |-> type, key |-> key, status |-> row.status,
   content |-> row.content, expires |-> row.expires, created |-> t]

\* The corruption check PollChanges applies to each row it reads.
ValidateJournalChange(c) ==
  /\ c.type \in ChangeTypes
  /\ c.status \in Statuses
  /\ c.type = "cancelled" => c.status = "cancelled"
  /\ c.type = "expired" => c.status = "expired"

-----------------------------------------------------------------------------
(* The ingest worker.                                                      *)

\* Ingest reads the clock, then waits for the database connection.
IngestBegin(k, r) ==
  /\ ingest = None
  /\ lastId < MaxChanges
  /\ ingest' = [key |-> k, report |-> r, at |-> now]
  /\ UNCHANGED <<now, events, changes, lastId, cursors, maint, maintNow>>

\* The transaction: classify, write the row and its journal record together.
IngestCommit ==
  /\ ingest # None
  /\ ingest' = None
  /\ LET k   == ingest.key
         r   == ingest.report
         t   == ingest.at
         row == events[k]
         new == [status |-> StatusAfter(r, row, t), content |-> r.content,
                 expires |-> r.expires, lastSeen |-> t, updated |-> t]
     IN \/ /\ IsDuplicate(r, row, t)
           /\ events' = [events EXCEPT ![k] = [row EXCEPT !.lastSeen = t]]
           /\ UNCHANGED <<changes, lastId>>
        \/ /\ ~IsDuplicate(r, row, t)
           /\ events' = [events EXCEPT ![k] = new]
           /\ changes' = changes \cup
                {JournalRow(lastId + 1, ChangeTypeOf(r, row), k, new, t)}
           /\ lastId' = lastId + 1
  /\ UNCHANGED <<now, cursors, maint, maintNow>>

\* A database error or a cancelled context rolls the transaction back.
IngestAbort ==
  /\ ingest # None
  /\ ingest' = None
  /\ UNCHANGED <<now, events, changes, lastId, cursors, maint, maintNow>>

-----------------------------------------------------------------------------
(* The maintenance loop: Expire, CleanupChanges, CleanupEvents, each its   *)
(* own transaction, all with the time read when the ticker fired.          *)

MaintBegin ==
  /\ maint = "idle"
  /\ maint' = "expire"
  /\ maintNow' = now
  /\ UNCHANGED <<now, events, changes, lastId, cursors, ingest>>

\* Mutant: an event that expires just now is left for later.
LapsedTooLate ==
  {k \in Keys : /\ events[k] # None
                /\ events[k].status = "active"
                /\ events[k].expires # 0
                /\ events[k].expires < maintNow}

Lapsed ==
  {k \in Keys : /\ events[k] # None
                /\ events[k].status = "active"
                /\ events[k].expires # 0
                /\ events[k].expires <= maintNow}

ExpiredRow(row) == [row EXCEPT !.status = "expired", !.updated = maintNow]

\* The order in which SELECT returns the lapsed keys is not specified.
Enumerations(S) ==
  {f \in [S -> 1 .. Cardinality(S)] : \A a, b \in S : f[a] = f[b] => a = b}

\* Mutant: all lapsed events are marked, one of them is journalled.
ExpireJournalsOne ==
  /\ maint = "expire"
  /\ maint' = "changes"
  /\ events' = [k \in Keys |-> IF k \in Lapsed THEN ExpiredRow(events[k]) ELSE events[k]]
  /\ \/ Lapsed = {} /\ UNCHANGED <<changes, lastId>>
     \/ \E k \in Lapsed :
          /\ changes' = changes \cup {JournalRow(lastId + 1, "expired", k, ExpiredRow(events[k]), maintNow)}
          /\ lastId' = lastId + 1
  /\ UNCHANGED <<now, cursors, ingest, maintNow>>

Expire ==
  /\ maint = "expire"
  /\ maint' = "changes"
  /\ events' = [k \in Keys |-> IF k \in Lapsed THEN ExpiredRow(events[k]) ELSE events[k]]
  /\ \E nth \in Enumerations(Lapsed) :
       changes' = changes \cup
         {JournalRow(lastId + nth[k], "expired", k, ExpiredRow(events[k]), maintNow) : k \in Lapsed}
  /\ lastId' = lastId + Cardinality(Lapsed)
  /\ UNCHANGED <<now, cursors, ingest, maintNow>>

Registered == {o \in Outputs : cursors[o] # None}

\* Mutant: one acknowledgment is enough.
AckedByAny(id) == \E o \in Registered : id <= cursors[o].acked

\* Mutant: retention alone decides.
AckedNotAsked(id) == TRUE

\* id <= COALESCE(MIN(last_acked_id), MAX(id), 0): with no cursor at all
\* every row counts as acknowledged.
AckedByAll(id) == \A o \in Registered : id <= cursors[o].acked

RetentionOver(t, retention) == t < maintNow - retention

CleanupChanges ==
  /\ maint = "changes"
  /\ maint' = "events"
  /\ changes' = IF ChangeRetention = 0 THEN changes
                ELSE {c \in changes : ~(RetentionOver(c.created, ChangeRetention) /\ AckedByAll(c.id))}
  /\ UNCHANGED <<now, events, lastId, cursors, ingest, maintNow>>

\* Ended events the provider no longer reports; active ones are kept.
CleanupEvents ==
  /\ maint = "events"
  /\ maint' = "idle"
  /\ events' = [k \in Keys |->
       IF /\ EventRetention # 0
          /\ events[k] # None
          /\ events[k].status \in {"cancelled", "expired"}
          /\ RetentionOver(events[k].lastSeen, EventRetention)
       THEN None ELSE events[k]]
  /\ maintNow' = 0
  /\ UNCHANGED <<now, changes, lastId, cursors, ingest>>

\* A failed step is logged and the pass goes on with the next one.
MaintStepFails ==
  /\ maint # "idle"
  /\ maint' = CASE maint = "expire"  -> "changes"
                [] maint = "changes" -> "events"
                [] maint = "events"  -> "idle"
  /\ maintNow' = IF maint = "events" THEN 0 ELSE maintNow
  /\ UNCHANGED <<now, events, changes, lastId, cursors, ingest>>

-----------------------------------------------------------------------------
(* The operations of the output workers and of startup.                    *)

\* Mutant: the cursor's own row is fetched again.
PendingInclusive(o) == {c \in changes : c.id >= cursors[o].acked}

\* Unacknowledged rows of an output in id order, at most limit of them.
Pending(o) == {c \in changes : c.id > cursors[o].acked}

PollChanges(o, limit) ==
  {c \in Pending(o) : Cardinality({d \in Pending(o) : d.id <= c.id}) <= limit}

\* Rejects ids that are not positive or lie beyond the journal.
AckAccepted(id) == id > 0 /\ \E c \in changes : id <= c.id

Larger(a, b) == IF a >= b THEN a ELSE b

\* The new output_cursors table after o acknowledged id.
AckChanges(o, id) == [cursors EXCEPT ![o].acked = Larger(@, id)]

\* Mutant: a new output starts behind the journal.
SyncOutputsAtEnd(enabled, typeOf) ==
  [o \in Outputs |->
     IF o \notin enabled THEN None
     ELSE IF cursors[o] = None THEN [type |-> typeOf[o], acked |-> lastId]
     ELSE [cursors[o] EXCEPT !.type = typeOf[o]]]

\* The output_cursors table made to match the enabled outputs: a new output
\* and an output whose type changed start at 0, a disabled one is removed.
SyncOutputs(enabled, typeOf) ==
  [o \in Outputs |->
     IF o \notin enabled THEN None
     ELSE IF cursors[o] = None THEN [type |-> typeOf[o], acked |-> 0]
     ELSE IF cursors[o].type # typeOf[o] THEN [type |-> typeOf[o], acked |-> 0]
     ELSE cursors[o]]

-----------------------------------------------------------------------------
(* The store on its own: any caller acknowledges any existing row, and the *)
(* process may restart with another configuration at any time.             *)

\* The clock; an operation in progress waits at most MaxWait ticks.
Tick ==
  /\ now < MaxTime
  /\ ingest # None => now - ingest.at < MaxWait
  /\ maint # "idle" => now - maintNow < MaxWait
  /\ now' = now + 1
  /\ UNCHANGED <<events, changes, lastId, cursors, ingest, maint, maintNow>>

Ack(o, id) ==
  /\ cursors[o] # None
  /\ AckAccepted(id)
  /\ cursors' = AckChanges(o, id)
  /\ UNCHANGED <<now, events, changes, lastId, ingest, maint, maintNow>>

\* A crash or stop loses what was in progress; startup syncs the cursors.
Restart(enabled, typeOf) ==
  /\ cursors' = SyncOutputs(enabled, typeOf)
  /\ ingest' = None
  /\ maint' = "idle"
  /\ maintNow' = 0
  /\ UNCHANGED <<now, events, changes, lastId>>

StoreInit ==
  /\ now = 0
  /\ events = [k \in Keys |-> None]
  /\ changes = {}
  /\ lastId = 0
  /\ cursors = [o \in Outputs |-> None]
  /\ ingest = None
  /\ maint = "idle"
  /\ maintNow = 0

\* The steps of the ingest worker and of the maintenance loop.
WriterNext ==
  \/ \E k \in Keys, r \in Report : IngestBegin(k, r)
  \/ IngestCommit
  \/ IngestAbort
  \/ MaintBegin
  \/ Expire
  \/ CleanupChanges
  \/ CleanupEvents
  \/ MaintStepFails

StoreNext ==
  \/ WriterNext
  \/ Tick
  \/ \E o \in Outputs, c \in changes : Ack(o, c.id)
  \/ \E enabled \in SUBSET Outputs, typeOf \in [Outputs -> OutputTypes] : Restart(enabled, typeOf)

\* The worker and the maintenance ticker keep running; a failing database is
\* not assumed to recover, but a step that can succeed again and again does.
StoreFairness ==
  /\ WF_storeVars(IngestCommit \/ IngestAbort)
  /\ WF_storeVars(MaintBegin)
  /\ SF_storeVars(Expire)
  /\ WF_storeVars(CleanupChanges \/ (maint = "changes" /\ MaintStepFails))
  /\ WF_storeVars(CleanupEvents \/ (maint = "events" /\ MaintStepFails))

StoreSpec == StoreInit /\ [][StoreNext]_storeVars

FairStoreSpec == StoreSpec /\ StoreFairness

-----------------------------------------------------------------------------
(* Properties.                                                             *)

\* The journal never holds a row PollChanges refuses: such a row would be a
\* poison pill, because PollChanges fails as a whole and the cursor stays.
JournalReadable ==
  \A c \in changes : ValidateJournalChange(c)

Newest(c) == \A d \in changes : d.key = c.key => d.id <= c.id

SameState(a, b) ==
  a.status = b.status /\ a.content = b.content /\ a.expires = b.expires

\* Replaying the retained journal ends, for every key it mentions, in the
\* current state of the event: the newest row agrees with the events table,
\* and an event that is gone from the table was not active.
ReplayAgrees ==
  \A c \in changes : Newest(c) =>
    \/ events[c.key] # None /\ SameState(c, events[c.key])
    \/ events[c.key] = None /\ c.status # "active"

\* c and d are consecutive retained rows of one key.
Consecutive(c, d) ==
  /\ c.key = d.key
  /\ c.id < d.id
  /\ ~\E e \in changes : e.key = c.key /\ c.id < e.id /\ e.id < d.id

\* Every journal row is a real transition from the row before it: only an
\* active event expires, only an ended (and forgotten) event is new again,
\* and an update changes something.
JournalGrammar ==
  \A c, d \in changes : Consecutive(c, d) =>
    /\ d.type = "expired" => c.status = "active"
    /\ d.type = "new" => c.status # "active"
    /\ d.type = "updated" => ~SameState(c, d)

\* The journal is a history of real transitions that ends in the table.
JournalFaithful == ReplayAgrees /\ JournalGrammar

\* The transaction ends for a report that repeats what the row of k holds.
Repeats(k) ==
  /\ ingest # None /\ ingest.key = k /\ ingest' = None
  /\ events[k] # None
  /\ Fingerprint(ingest.report) = Fingerprint(events[k])
  /\ ingest.report.status = "cancelled" <=> events[k].status = "cancelled"

\* What Ingest's comment promises (sqlite.go:633-635): a provider that repeats
\* itself cannot make updated/expired flapping, whether or not the maintenance
\* loop expired the event meanwhile.
RepeatIsQuiet ==
  [][\A k \in Keys : Repeats(k) => lastId' = lastId]_storeVars

\* What the code keeps of it, however long Ingest waits for the connection: a
\* repetition writes a journal row only if a maintenance pass that read the
\* clock later than Ingest did has expired the event before the transaction.
OnlyOvertakenRepeatWrites ==
  [][\A k \in Keys : Repeats(k) /\ lastId' # lastId
        => events[k].status = "expired" /\ ingest.at < events[k].updated]_storeVars

\* The rule storage.EventStore documents for CleanupEvents: a record goes
\* only when its updated_at is older than the retention.
CleanupByUpdatedAt ==
  [][ \A k \in Keys :
        events[k] # None /\ events'[k] = None
          => events[k].updated < maintNow - EventRetention ]_storeVars

Overdue(k) ==
  /\ events[k] # None
  /\ events[k].status = "active"
  /\ events[k].expires # 0
  /\ events[k].expires <= now

\* An active event does not stay active past its expiry for ever: the
\* maintenance loop expires it, or the provider reports something else.
OverdueEventEnds == \A k \in Keys : Overdue(k) ~> ~Overdue(k)

=============================================================================
