--------------------------- MODULE DeliveryProofs ----------------------------
(***************************************************************************)
(* The event store and the output workers above it, for every value of the *)
(* constants.  The store keeps a readable journal that is a history of     *)
(* real transitions; the workers deliver every owed change at least once   *)
(* and in order, whatever the number of outputs, keys, changes, restarts   *)
(* and reconfigurations, the batch size and threshold, and the delay       *)
(* between reading the clock and committing.                               *)
(***************************************************************************)
EXTENDS Delivery, FiniteSetTheorems, WellFoundedInduction, TLAPS

-----------------------------------------------------------------------------
(***************************************************************************)
(* The store's transactions and their journal (EventStore).                *)
(***************************************************************************)

(* Lemmas on the operators the transactions are built from.                *)

\* Expire handles finitely many keys, so the ids it issues are numbers.
LEMMA LapsedFinite == Cardinality(Lapsed) \in Nat
<1>1. Lapsed \subseteq Keys
  BY DEF Lapsed
<1>2. IsFiniteSet(Lapsed)
  BY <1>1, FS_Subset, StoreConstants
<1> QED
  BY <1>2, FS_CardinalityType

\* A journal row built from a typed event row is typed.
LEMMA JournalRowType ==
  ASSUME NEW id \in Nat, NEW type \in ChangeTypes, NEW key \in Keys,
         NEW row \in Row, NEW t \in Nat
  PROVE  /\ JournalRow(id, type, key, row, t) \in Change
         /\ JournalRow(id, type, key, row, t).id = id
         /\ JournalRow(id, type, key, row, t).type = type
         /\ JournalRow(id, type, key, row, t).status = row.status
BY DEF JournalRow, Change, Row

\* Classification of a report yields a stored status and a change type.
LEMMA ClassificationType ==
  ASSUME NEW r \in Report, NEW row, NEW t
  PROVE  /\ StatusAfter(r, row, t) \in Statuses
         /\ ChangeTypeOf(r, row) \in ChangeTypes
BY DEF StatusAfter, ChangeTypeOf, Report, Statuses, ChangeTypes

\* The row Ingest writes.
IngestedRow(r, row, t) ==
  [status |-> StatusAfter(r, row, t), content |-> r.content,
   expires |-> r.expires, lastSeen |-> t, updated |-> t]

LEMMA IngestedRowType ==
  ASSUME NEW r \in Report, NEW row, NEW t \in Nat
  PROVE  /\ IngestedRow(r, row, t) \in Row
         /\ IngestedRow(r, row, t).status = StatusAfter(r, row, t)
BY ClassificationType DEF IngestedRow, Row, Report

LEMMA ExpiredRowType ==
  ASSUME StoreTypeOK, NEW row \in Row
  PROVE  ExpiredRow(row) \in Row /\ ExpiredRow(row).status = "expired"
BY DEF ExpiredRow, Row, Statuses, StoreTypeOK

-----------------------------------------------------------------------------
(* What a step of the ingest worker or of the maintenance loop does to the *)
(* journal: it appends typed, readable rows with fresh ids, or it removes  *)
(* rows every registered output has acknowledged.                          *)

Appends ==
  /\ changes \subseteq changes'
  /\ \A c \in changes' \ changes :
       c \in Change /\ lastId < c.id /\ c.id <= lastId' /\ ValidateJournalChange(c)
  /\ IsFiniteSet(changes) => IsFiniteSet(changes')
  /\ lastId' \in Nat
  /\ lastId' >= lastId

Removes ==
  /\ changes' \subseteq changes
  /\ \A c \in changes \ changes' : AckedByAll(c.id)
  /\ lastId' = lastId

LEMMA IngestCommitAppends ==
  ASSUME StoreTypeOK, IngestCommit
  PROVE  Appends /\ events' \in [Keys -> Row \cup {None}]
<1> DEFINE k == ingest.key
           r == ingest.report
           t == ingest.at
           row == events[k]
           new == IngestedRow(r, row, t)
           c == JournalRow(lastId + 1, ChangeTypeOf(r, row), k, new, t)
<1>1. ingest \in IngestOp
  BY DEF StoreTypeOK, IngestCommit
<1>2. k \in Keys /\ r \in Report /\ t \in Nat /\ row \in Row \cup {None}
  BY <1>1 DEF IngestOp, StoreTypeOK
<1>3. new \in Row /\ new.status = StatusAfter(r, row, t)
  BY <1>2, IngestedRowType
<1>4. ChangeTypeOf(r, row) \in ChangeTypes
  BY <1>2, ClassificationType
<1>5. lastId + 1 \in Nat /\ lastId \in Nat
  BY DEF StoreTypeOK
<1> HIDE DEF k, r, t, row, new, c
<1>6. /\ c \in Change /\ c.id = lastId + 1 /\ c.type = ChangeTypeOf(r, row)
      /\ c.status = new.status
  BY <1>2, <1>3, <1>4, <1>5, JournalRowType DEF c
<1>7. ValidateJournalChange(c)
  <2>1. c.type = "cancelled" => c.status = "cancelled"
    BY <1>2, <1>3, <1>6 DEF ChangeTypeOf, StatusAfter, Report
  <2>2. c.type # "expired"
    BY <1>6 DEF ChangeTypeOf
  <2>3. c.type \in ChangeTypes /\ c.status \in Statuses
    BY <1>6 DEF Change
  <2> QED
    BY <2>1, <2>2, <2>3 DEF ValidateJournalChange
<1>8. CASE IsDuplicate(r, row, t)
  <2>1. /\ events' = [events EXCEPT ![k] = [row EXCEPT !.lastSeen = t]]
        /\ changes' = changes /\ lastId' = lastId
    BY <1>8 DEF IngestCommit, k, r, t, row
  <2>2. row \in Row
    BY <1>2, <1>8 DEF IsDuplicate
  <2>3. [row EXCEPT !.lastSeen = t] \in Row
    BY <2>2, <1>2 DEF Row
  <2>4. events' \in [Keys -> Row \cup {None}]
    BY <2>1, <2>3 DEF StoreTypeOK
  <2>5. Appends
    BY <2>1, <1>5 DEF Appends
  <2> QED
    BY <2>4, <2>5
<1>9. CASE ~IsDuplicate(r, row, t)
  <2>1. /\ events' = [events EXCEPT ![k] = new]
        /\ changes' = changes \cup {c}
        /\ lastId' = lastId + 1
    BY <1>9 DEF IngestCommit, k, r, t, row, new, c, IngestedRow
  <2>2. events' \in [Keys -> Row \cup {None}]
    BY <2>1, <1>3 DEF StoreTypeOK
  <2>3. Appends
    BY <2>1, <1>5, <1>6, <1>7, FS_AddElement DEF Appends
  <2> QED
    BY <2>2, <2>3
<1> QED
  BY <1>8, <1>9

LEMMA ExpireAppends ==
  ASSUME StoreTypeOK, Expire
  PROVE  Appends /\ events' \in [Keys -> Row \cup {None}]
<1> DEFINE n == Cardinality(Lapsed)
<1>1. n \in Nat
  BY LapsedFinite
<1>2. lastId \in Nat /\ maintNow \in Nat
  BY DEF StoreTypeOK
<1>3. \A k \in Lapsed : k \in Keys /\ events[k] \in Row
  BY DEF Lapsed, StoreTypeOK
<1>4. \A k \in Lapsed : ExpiredRow(events[k]) \in Row /\ ExpiredRow(events[k]).status = "expired"
  BY <1>3, ExpiredRowType
<1>5. events' \in [Keys -> Row \cup {None}]
  BY <1>4 DEF Expire, StoreTypeOK
<1>6. PICK nth \in Enumerations(Lapsed) :
        changes' = changes \cup
          {JournalRow(lastId + nth[k], "expired", k, ExpiredRow(events[k]), maintNow) : k \in Lapsed}
  BY DEF Expire
<1>7. \A k \in Lapsed : nth[k] \in 1 .. n
  BY <1>6 DEF Enumerations
<1>8. lastId' = lastId + n
  BY DEF Expire
<1> HIDE DEF n
<1>9. ASSUME NEW k \in Lapsed
      PROVE  LET c == JournalRow(lastId + nth[k], "expired", k, ExpiredRow(events[k]), maintNow)
             IN c \in Change /\ lastId < c.id /\ c.id <= lastId' /\ ValidateJournalChange(c)
  <2> DEFINE c == JournalRow(lastId + nth[k], "expired", k, ExpiredRow(events[k]), maintNow)
  <2>1. lastId + nth[k] \in Nat /\ lastId < lastId + nth[k] /\ lastId + nth[k] <= lastId'
    BY <1>1, <1>2, <1>7, <1>8
  <2>2. "expired" \in ChangeTypes
    BY DEF ChangeTypes
  <2>3. /\ c \in Change /\ c.id = lastId + nth[k] /\ c.type = "expired" /\ c.status = "expired"
    BY <2>1, <2>2, <1>2, <1>3, <1>4, JournalRowType
  <2> HIDE DEF c
  <2>4. ValidateJournalChange(c)
    BY <2>3 DEF ValidateJournalChange, ChangeTypes, Statuses
  <2> QED
    BY <2>1, <2>3, <2>4 DEF c
<1>10. IsFiniteSet(changes) => IsFiniteSet(changes')
  <2> DEFINE row(k) == JournalRow(lastId + nth[k], "expired", k, ExpiredRow(events[k]), maintNow)
             new == {row(k) : k \in Lapsed}
             f == [k \in Lapsed |-> row(k)]
  <2>1. IsFiniteSet(Lapsed)
    BY FS_Subset, StoreConstants DEF Lapsed
  <2>2. f \in Surjection(Lapsed, new)
    BY DEF Surjection
  <2>3. IsFiniteSet(new)
    BY <2>1, <2>2, FS_Surjection
  <2> QED
    BY <1>6, <2>3, FS_Union
<1>11. Appends
  BY <1>1, <1>2, <1>6, <1>8, <1>9, <1>10 DEF Appends
<1> QED
  BY <1>5, <1>11

LEMMA WriterEffect ==
  ASSUME StoreTypeOK, WriterNext
  PROVE  StoreTypeOK' /\ cursors' = cursors /\ now' = now /\ (Appends \/ Removes)
<1>1. ASSUME NEW k \in Keys, NEW r \in Report, IngestBegin(k, r)
      PROVE  StoreTypeOK' /\ cursors' = cursors /\ now' = now /\ Appends
  BY <1>1 DEF IngestBegin, StoreTypeOK, IngestOp, Appends
<1>2. CASE IngestCommit
  BY <1>2, IngestCommitAppends DEF IngestCommit, StoreTypeOK, Appends
<1>3. CASE IngestAbort
  BY <1>3 DEF IngestAbort, StoreTypeOK, Appends
<1>4. CASE MaintBegin
  BY <1>4 DEF MaintBegin, StoreTypeOK, Appends, MaintSteps
<1>5. CASE Expire
  BY <1>5, ExpireAppends DEF Expire, StoreTypeOK, Appends, MaintSteps
<1>6. CASE CleanupChanges
  BY <1>6 DEF CleanupChanges, StoreTypeOK, Removes, MaintSteps
<1>7. CASE CleanupEvents
  BY <1>7 DEF CleanupEvents, StoreTypeOK, Appends, MaintSteps
<1>8. CASE MaintStepFails
  BY <1>8 DEF MaintStepFails, StoreTypeOK, Appends, MaintSteps
<1> QED
  BY <1>1, <1>2, <1>3, <1>4, <1>5, <1>6, <1>7, <1>8 DEF WriterNext

-----------------------------------------------------------------------------
(* The cursor table.                                                       *)

LEMMA AckType ==
  ASSUME StoreTypeOK, NEW o \in Outputs, NEW id \in Nat, cursors[o] # None
  PROVE  /\ AckChanges(o, id) \in [Outputs -> Cursor \cup {None}]
         /\ \A p \in Outputs : (AckChanges(o, id)[p] = None) <=> (cursors[p] = None)
         /\ \A p \in Outputs \ {o} : AckChanges(o, id)[p] = cursors[p]
         /\ AckChanges(o, id)[o] \in Cursor
         /\ AckChanges(o, id)[o].acked = Larger(cursors[o].acked, id)
<1>1. cursors[o] \in Cursor /\ cursors[o].acked \in Nat
  BY DEF StoreTypeOK, Cursor
<1>2. Larger(cursors[o].acked, id) \in Nat
  BY <1>1 DEF Larger
<1> DEFINE new == [cursors[o] EXCEPT !.acked = Larger(cursors[o].acked, id)]
<1>3. new \in Cursor /\ new.acked = Larger(cursors[o].acked, id) /\ new # None
  BY <1>1, <1>2, NoneIsNoValue DEF Cursor
<1>4. AckChanges(o, id) = [cursors EXCEPT ![o] = new]
  BY DEF AckChanges
<1> HIDE DEF new
<1> QED
  BY <1>3, <1>4 DEF StoreTypeOK

LEMMA SyncType ==
  ASSUME StoreTypeOK, NEW enabled \in SUBSET Outputs, NEW typeOf \in [Outputs -> OutputTypes]
  PROVE  SyncOutputs(enabled, typeOf) \in [Outputs -> Cursor \cup {None}]
BY DEF SyncOutputs, StoreTypeOK, Cursor

-----------------------------------------------------------------------------
(* The theorems.                                                           *)

LEMMA StoreStep ==
  ASSUME StoreTypeOK, JournalReadable, [StoreNext]_storeVars
  PROVE  StoreTypeOK' /\ JournalReadable'
<1>1. CASE WriterNext
  <2>1. StoreTypeOK' /\ (Appends \/ Removes)
    BY <1>1, WriterEffect
  <2> QED
    BY <2>1 DEF Appends, Removes, JournalReadable
<1>2. CASE Tick
  BY <1>2 DEF Tick, StoreTypeOK, JournalReadable
<1>3. ASSUME NEW o \in Outputs, NEW c \in changes, Ack(o, c.id)
      PROVE  StoreTypeOK' /\ JournalReadable'
  <2>1. c.id \in Nat
    BY DEF StoreTypeOK, Change
  <2>2. AckChanges(o, c.id) \in [Outputs -> Cursor \cup {None}]
    BY <1>3, <2>1, AckType DEF Ack
  <2> QED
    BY <1>3, <2>2 DEF Ack, StoreTypeOK, JournalReadable
<1>4. ASSUME NEW enabled \in SUBSET Outputs, NEW typeOf \in [Outputs -> OutputTypes],
             Restart(enabled, typeOf)
      PROVE  StoreTypeOK' /\ JournalReadable'
  BY <1>4, SyncType DEF Restart, StoreTypeOK, JournalReadable, MaintSteps
<1>5. CASE UNCHANGED storeVars
  BY <1>5 DEF storeVars, StoreTypeOK, JournalReadable
<1> QED
  BY <1>1, <1>2, <1>3, <1>4, <1>5 DEF StoreNext

\* Every table keeps its type, and PollChanges can decode every journal row
\* that Ingest and Expire ever write: no output is stopped by a poison row.
THEOREM StoreCorrect == StoreSpec => [](StoreTypeOK /\ JournalReadable)
<1>1. StoreInit => StoreTypeOK /\ JournalReadable
  BY DEF StoreInit, StoreTypeOK, JournalReadable, MaintSteps
<1>2. StoreTypeOK /\ JournalReadable /\ [StoreNext]_storeVars => (StoreTypeOK /\ JournalReadable)'
  BY StoreStep
<1> QED
  BY <1>1, <1>2, PTL DEF StoreSpec

-----------------------------------------------------------------------------
(* The journal as a history.  A step of the store appends rows that are    *)
(* transitions from the events table as it was to the table as it is, or   *)
(* it removes the oldest rows.                                             *)

\* The snapshot a journal row carries.
LEMMA JournalRowSnapshot ==
  ASSUME NEW id, NEW type, NEW key, NEW row, NEW t
  PROVE  LET c == JournalRow(id, type, key, row, t)
         IN c.id = id /\ c.type = type /\ c.key = key /\ c.created = t /\ SameState(c, row)
BY DEF JournalRow, SameState

\* The row of a key on which a step writes no journal record: it stays, up to
\* its timestamps, or an ended one is forgotten.
StateKept(k) ==
  \/ events[k] # None /\ events'[k] # None /\ SameState(events'[k], events[k])
  \/ events'[k] = None /\ (events[k] = None \/ events[k].status # "active")

\* A new record c leads from the old row of its key to the new one.
RealTransition(c) ==
  /\ events'[c.key] # None /\ SameState(c, events'[c.key])
  /\ c.type = "expired" => events[c.key] # None /\ events[c.key].status = "active"
  /\ c.type = "new" => events[c.key] = None
  /\ c.type = "updated" => events[c.key] # None /\ ~SameState(events[c.key], c)

Journals ==
  /\ changes \subseteq changes'
  /\ \A c \in changes' \ changes :
       /\ c.key \in Keys
       /\ c.id > lastId /\ c.id <= lastId'
       /\ MaxWait = 0 => c.created = now
       /\ RealTransition(c)
  /\ \A c, d \in changes' \ changes : c.id = d.id \/ c.key = d.key => c = d
  /\ \A k \in Keys : (\A c \in changes' \ changes : c.key # k) => StateKept(k)
  /\ lastId' \in Nat /\ lastId' >= lastId

ForgetsOldest ==
  /\ changes' \subseteq changes
  /\ \A c \in changes \ changes', d \in changes' : c.id < d.id
  /\ UNCHANGED <<events, lastId>>

\* With no wait for the connection every operation works with the present.
ClocksAgree ==
  MaxWait = 0 =>
    /\ ingest # None => ingest.at = now
    /\ maint # "idle" => maintNow = now

\* Ids are unique and issued in order; with no wait, so are creation times.
RowsOrdered ==
  /\ \A c \in changes : c.id <= lastId
  /\ \A c, d \in changes : c.id = d.id => c = d
  /\ MaxWait = 0 =>
       /\ \A c \in changes : c.created <= now
       /\ \A c, d \in changes : c.id < d.id => c.created <= d.created

\* An event is only ever marked expired at or after its expiry.
ExpiredIsPast ==
  \A k \in Keys : events[k] # None /\ events[k].status = "expired" =>
    events[k].expires # 0 /\ events[k].expires <= now

\* No operation works with a time that is still to come.
NoFutureClock ==
  /\ ingest # None => ingest.at <= now
  /\ maintNow <= now

HistoryInv ==
  /\ StoreTypeOK
  /\ JournalReadable
  /\ ClocksAgree
  /\ NoFutureClock
  /\ RowsOrdered
  /\ ExpiredIsPast
  /\ ReplayAgrees
  /\ JournalGrammar

LEMMA IngestJournals ==
  ASSUME HistoryInv, IngestCommit
  PROVE  Journals /\ ExpiredIsPast'
<1> DEFINE k == ingest.key
           r == ingest.report
           t == ingest.at
           row == events[k]
           new == IngestedRow(r, row, t)
           c == JournalRow(lastId + 1, ChangeTypeOf(r, row), k, new, t)
<1>1. StoreTypeOK /\ ingest \in IngestOp
  BY DEF HistoryInv, StoreTypeOK, IngestCommit
<1>2. k \in Keys /\ r \in Report /\ t \in Nat /\ row \in Row \cup {None} /\ t <= now /\ now \in Nat
  BY <1>1, NoneIsNoValue DEF IngestOp, StoreTypeOK, HistoryInv, NoFutureClock
<1>3. new \in Row /\ new # None /\ SameState(c, new)
  BY <1>2, IngestedRowType, NoneIsNoValue, JournalRowSnapshot
<1>4. c.id = lastId + 1 /\ c.type = ChangeTypeOf(r, row) /\ c.key = k /\ c.created = t
  BY JournalRowSnapshot
<1>5. lastId \in Nat
  BY <1>1 DEF StoreTypeOK
<1>6. MaxWait = 0 => t = now
  BY <1>1, NoneIsNoValue DEF HistoryInv, ClocksAgree
<1>7. new.status = StatusAfter(r, row, t) /\ new.content = r.content /\ new.expires = r.expires
  BY DEF IngestedRow
<1>8. now' = now /\ events \in [Keys -> Row \cup {None}]
  BY <1>1 DEF IngestCommit, StoreTypeOK
<1>9. IsDuplicate(r, row, t) =>
        /\ events' = [events EXCEPT ![k] = [row EXCEPT !.lastSeen = t]]
        /\ changes' = changes /\ lastId' = lastId
  BY DEF IngestCommit
<1>10. ~IsDuplicate(r, row, t) =>
        /\ events' = [events EXCEPT ![k] = new]
        /\ changes' = changes \cup {c}
        /\ lastId' = lastId + 1
  BY DEF IngestCommit, IngestedRow
<1> HIDE DEF k, r, t, new, c
<1>11. CASE IsDuplicate(r, row, t)
  <2>1. row \in Row
    BY <1>2, <1>11 DEF IsDuplicate
  <2>2. [row EXCEPT !.lastSeen = t] \in Row /\ SameState([row EXCEPT !.lastSeen = t], row)
    BY <2>1, <1>2 DEF Row, SameState
  <2>3. /\ events'[k] = [row EXCEPT !.lastSeen = t] /\ events'[k] # None /\ row # None
        /\ \A j \in Keys \ {k} : events'[j] = events[j]
    BY <2>1, <2>2, <1>2, <1>8, <1>9, <1>11, NoneIsNoValue
  <2>4. \A j \in Keys : StateKept(j)
    BY <2>2, <2>3 DEF StateKept, SameState
  <2>5. Journals
    BY <2>4, <1>5, <1>9, <1>11 DEF Journals
  <2>6. ExpiredIsPast'
    BY <2>2, <2>3, <1>8 DEF HistoryInv, ExpiredIsPast, SameState
  <2> QED
    BY <2>5, <2>6
<1>12. CASE ~IsDuplicate(r, row, t)
  <2>1. events'[k] = new /\ \A j \in Keys \ {k} : events'[j] = events[j]
    BY <1>2, <1>8, <1>10, <1>12
  <2>2. changes' = changes \cup {c} /\ lastId' = lastId + 1
    BY <1>10, <1>12
  <2>3. \A j \in Keys \ {k} : StateKept(j)
    BY <2>1 DEF StateKept, SameState
  <2>4. RealTransition(c)
    <3>1. c.type = "new" => row = None
      BY <1>4 DEF ChangeTypeOf
    <3>2. c.type # "expired"
      BY <1>4 DEF ChangeTypeOf
    <3>3. ASSUME c.type = "updated"
          PROVE  row # None /\ ~SameState(row, c)
      <4>1. r.status = "active" /\ row # None
        BY <3>3, <1>2, <1>4 DEF ChangeTypeOf, Report
      <4>2. ~SameState(row, new)
        BY <4>1, <1>2, <1>7, <1>12 DEF IsDuplicate, StatusAfter, Fingerprint, SameState, Row, Statuses
      <4> QED
        BY <4>1, <4>2, <1>3 DEF SameState
    <3> QED
      BY <3>1, <3>2, <3>3, <2>1, <1>3, <1>4 DEF RealTransition
  <2>5. Journals
    <3>1. c \notin changes
      BY <1>4, <1>5 DEF HistoryInv, RowsOrdered
    <3>2. changes' \ changes = {c}
      BY <3>1, <2>2
    <3> QED
      BY <3>2, <2>2, <2>3, <2>4, <1>2, <1>4, <1>5, <1>6 DEF Journals
  <2>6. new.status = "expired" => new.expires # 0 /\ new.expires <= now
    <3>1. new.status = "expired" => ~ExpiryLive(r, t)
      BY <1>2, <1>7 DEF StatusAfter, Report
    <3>2. new.expires \in Nat
      BY <1>3, StoreConstants DEF Row
    <3> QED
      BY <3>1, <3>2, <1>2, <1>7 DEF ExpiryLive
  <2>7. ExpiredIsPast'
    BY <2>1, <2>6, <1>8 DEF HistoryInv, ExpiredIsPast
  <2> QED
    BY <2>5, <2>7
<1> QED
  BY <1>11, <1>12

\* Expire journals exactly the events it marks, one record for each.
LEMMA ExpireJournals ==
  ASSUME HistoryInv, Expire
  PROVE  Journals /\ ExpiredIsPast'
<1> DEFINE n == Cardinality(Lapsed)
<1>1. /\ n \in Nat /\ lastId \in Nat /\ maintNow \in Nat /\ now \in Nat /\ maintNow <= now
      /\ events \in [Keys -> Row \cup {None}] /\ StoreTypeOK
  BY LapsedFinite DEF HistoryInv, StoreTypeOK, NoFutureClock
<1>2. /\ \A k \in Lapsed : events'[k] = ExpiredRow(events[k])
      /\ \A k \in Keys \ Lapsed : events'[k] = events[k]
      /\ lastId' = lastId + n /\ now' = now /\ Lapsed \subseteq Keys
  BY DEF Expire, Lapsed
<1>3. PICK nth \in Enumerations(Lapsed) :
        changes' = changes \cup
          {JournalRow(lastId + nth[k], "expired", k, ExpiredRow(events[k]), maintNow) : k \in Lapsed}
  BY DEF Expire
<1>4. /\ \A k \in Lapsed : nth[k] \in 1 .. n
      /\ \A a, b \in Lapsed : nth[a] = nth[b] => a = b
  BY <1>3 DEF Enumerations
<1>5. MaxWait = 0 => maintNow = now
  BY DEF Expire, HistoryInv, ClocksAgree
<1> DEFINE rec(k) == JournalRow(lastId + nth[k], "expired", k, ExpiredRow(events[k]), maintNow)
<1>6. \A k \in Lapsed :
        /\ rec(k).id = lastId + nth[k] /\ rec(k).type = "expired" /\ rec(k).key = k
        /\ rec(k).created = maintNow /\ SameState(rec(k), ExpiredRow(events[k]))
  BY JournalRowSnapshot
<1>7. \A k \in Lapsed : /\ events[k] \in Row /\ events[k] # None /\ events[k].status = "active"
                        /\ events[k].expires # 0 /\ events[k].expires <= maintNow
  BY <1>1 DEF Lapsed
<1>8. \A k \in Lapsed : /\ ExpiredRow(events[k]) \in Row /\ ExpiredRow(events[k]) # None
                        /\ ExpiredRow(events[k]).expires = events[k].expires
  BY <1>1, <1>7, ExpiredRowType, NoneIsNoValue DEF ExpiredRow, Row
<1> HIDE DEF rec, n
<1>9. changes' = changes \cup {rec(k) : k \in Lapsed}
  BY <1>3 DEF rec
<1>10. \A k \in Lapsed : rec(k).id > lastId /\ rec(k).id <= lastId' /\ rec(k) \notin changes
  BY <1>1, <1>2, <1>4, <1>6 DEF HistoryInv, RowsOrdered
<1>11. changes' \ changes = {rec(k) : k \in Lapsed}
  BY <1>9, <1>10
<1>12. \A k \in Lapsed : RealTransition(rec(k))
  BY <1>2, <1>6, <1>7, <1>8 DEF RealTransition
<1>13. \A a, b \in Lapsed : rec(a).id = rec(b).id \/ rec(a).key = rec(b).key => a = b
  BY <1>1, <1>4, <1>6
<1>14. \A k \in Keys \ Lapsed : StateKept(k)
  BY <1>2 DEF StateKept, SameState
<1>15. \A k \in Keys : (\A c \in changes' \ changes : c.key # k) => StateKept(k)
  BY <1>6, <1>11, <1>14
<1>16. \A c \in changes' \ changes :
         /\ c.key \in Keys
         /\ c.id > lastId /\ c.id <= lastId'
         /\ MaxWait = 0 => c.created = now
         /\ RealTransition(c)
  BY <1>2, <1>5, <1>6, <1>10, <1>11, <1>12
<1>17. \A c, d \in changes' \ changes : c.id = d.id \/ c.key = d.key => c = d
  BY <1>11, <1>13
<1>18. lastId' \in Nat /\ lastId' >= lastId
  BY <1>1, <1>2
<1>19. Journals
  BY <1>9, <1>15, <1>16, <1>17, <1>18 DEF Journals
<1>20. ExpiredIsPast'
  <2> SUFFICES ASSUME NEW k \in Keys, events'[k] # None, events'[k].status = "expired"
               PROVE  events'[k].expires # 0 /\ events'[k].expires <= now
    BY <1>2 DEF ExpiredIsPast
  <2>1. CASE k \in Lapsed
    <3>1. events[k].expires \in Nat
      BY <2>1, <1>7, StoreConstants DEF Row
    <3> QED
      BY <2>1, <3>1, <1>1, <1>2, <1>7, <1>8
  <2>2. CASE k \notin Lapsed
    BY <2>2, <1>2 DEF HistoryInv, ExpiredIsPast
  <2> QED
    BY <2>1, <2>2
<1> QED
  BY <1>19, <1>20

\* The other steps of the writers leave the journal alone or cut its tail off.
LEMMA OtherJournals ==
  ASSUME HistoryInv, ChangeRetention = 0 \/ MaxWait = 0,
         WriterNext, ~IngestCommit, ~Expire
  PROVE  (Journals \/ ForgetsOldest) /\ ExpiredIsPast'
<1>1. CASE CleanupChanges
  <2>1. UNCHANGED <<now, events, lastId>>
    BY <1>1 DEF CleanupChanges
  <2>2. ForgetsOldest
    <3>1. CASE ChangeRetention = 0
      BY <1>1, <3>1, <2>1 DEF CleanupChanges, ForgetsOldest
    <3>2. CASE ChangeRetention # 0
      <4>1. changes' = {c \in changes : ~(RetentionOver(c.created, ChangeRetention) /\ AckedByAll(c.id))}
        BY <1>1, <3>2 DEF CleanupChanges
      <4>2. MaxWait = 0
        BY <3>2
      <4>3. ASSUME NEW c \in changes \ changes', NEW d \in changes', ~(c.id < d.id)
            PROVE  FALSE
        <5>1. c \in Change /\ d \in Change /\ c \in changes /\ d \in changes
          BY <4>1 DEF HistoryInv, StoreTypeOK
        <5>2. c.id \in Nat /\ d.id \in Nat /\ c.created \in Nat /\ d.created \in Nat
          BY <5>1 DEF Change
        <5>3. maintNow \in Nat /\ ChangeRetention \in Nat
          BY StoreConstants DEF HistoryInv, StoreTypeOK
        <5>4. c # d /\ d.id <= c.id
          BY <4>3, <5>2
        <5>5. d.id < c.id
          BY <5>1, <5>2, <5>4 DEF HistoryInv, RowsOrdered
        <5>6. d.created <= c.created
          BY <5>1, <5>5, <4>2 DEF HistoryInv, RowsOrdered
        <5>7. RetentionOver(c.created, ChangeRetention) /\ AckedByAll(c.id)
          BY <4>1
        <5>8. RetentionOver(d.created, ChangeRetention)
          BY <5>2, <5>3, <5>6, <5>7 DEF RetentionOver
        <5>9. \A o \in Registered : cursors[o].acked \in Nat
          BY DEF Registered, HistoryInv, StoreTypeOK, Cursor
        <5>10. AckedByAll(d.id)
          BY <5>2, <5>5, <5>7, <5>9 DEF AckedByAll
        <5> QED
          BY <4>1, <5>8, <5>10
      <4> QED
        BY <4>1, <4>3, <2>1 DEF ForgetsOldest
    <3> QED
      BY <3>1, <3>2
  <2>3. ExpiredIsPast'
    BY <2>1 DEF HistoryInv, ExpiredIsPast
  <2> QED
    BY <2>2, <2>3
<1>2. CASE CleanupEvents
  <2>1. /\ UNCHANGED <<now, changes, lastId>>
        /\ \A k \in Keys : \/ events'[k] = events[k]
                           \/ events'[k] = None /\ events[k].status \in {"cancelled", "expired"}
    BY <1>2 DEF CleanupEvents
  <2>2. \A k \in Keys : StateKept(k)
    BY <2>1 DEF StateKept, SameState
  <2>3. Journals
    BY <2>1, <2>2 DEF Journals, HistoryInv, StoreTypeOK
  <2>4. ExpiredIsPast'
    BY <2>1 DEF HistoryInv, ExpiredIsPast
  <2> QED
    BY <2>3, <2>4
<1>3. CASE UNCHANGED <<now, events, changes, lastId>>
  <2>1. \A k \in Keys : StateKept(k)
    BY <1>3 DEF StateKept, SameState
  <2>2. Journals
    BY <1>3, <2>1 DEF Journals, HistoryInv, StoreTypeOK
  <2>3. ExpiredIsPast'
    BY <1>3 DEF HistoryInv, ExpiredIsPast
  <2> QED
    BY <2>2, <2>3
<1> QED
  BY <1>1, <1>2, <1>3 DEF WriterNext, IngestBegin, IngestAbort, MaintBegin, MaintStepFails

\* Appending real transitions keeps the journal a history of the table.
LEMMA AppendKeepsHistory ==
  ASSUME HistoryInv, StoreTypeOK', Journals, now' = now
  PROVE  (RowsOrdered /\ ReplayAgrees /\ JournalGrammar)'
<1> DEFINE New == changes' \ changes
<1>1. /\ \A c \in changes' : c.id \in Nat /\ c.created \in Nat /\ c.key \in Keys
      /\ now \in Nat /\ lastId \in Nat /\ lastId' \in Nat
  BY DEF HistoryInv, StoreTypeOK, Change
<1>2. \A c \in changes, d \in New : c.id < d.id
  BY <1>1 DEF Journals, HistoryInv, RowsOrdered
<1>3. \A c \in changes' : c \in changes \/ c \in New
  OBVIOUS
<1>4. RowsOrdered'
  <2>1. \A c \in changes' : c.id <= lastId'
    BY <1>1, <1>3 DEF Journals, HistoryInv, RowsOrdered
  <2>2. ASSUME NEW c \in changes', NEW d \in changes', c.id = d.id
        PROVE  c = d
    BY <1>1, <1>2, <1>3, <2>2 DEF Journals, HistoryInv, RowsOrdered
  <2>3. MaxWait = 0 => \A c \in changes' : c.created <= now
    BY <1>1, <1>3 DEF Journals, HistoryInv, RowsOrdered
  <2>4. ASSUME MaxWait = 0, NEW c \in changes', NEW d \in changes', c.id < d.id
        PROVE  c.created <= d.created
    <3>1. CASE d \in New
      BY <3>1, <2>3, <2>4 DEF Journals
    <3>2. CASE d \in changes
      <4>1. c \in changes
        BY <3>2, <2>4, <1>1, <1>2, <1>3
      <4> QED
        BY <4>1, <3>2, <2>4 DEF HistoryInv, RowsOrdered
    <3> QED
      BY <3>1, <3>2, <1>3
  <2> QED
    BY <2>1, <2>2, <2>3, <2>4 DEF RowsOrdered
<1>5. ReplayAgrees'
  <2> SUFFICES ASSUME NEW c \in changes', \A d \in changes' : d.key = c.key => d.id <= c.id
               PROVE  \/ events'[c.key] # None /\ SameState(c, events'[c.key])
                      \/ events'[c.key] = None /\ c.status # "active"
    BY DEF ReplayAgrees, Newest, SameState
  <2>1. CASE c \in New
    BY <2>1 DEF Journals, RealTransition
  <2>2. CASE c \in changes
    <3>1. \A d \in New : d.key # c.key
      BY <2>2, <1>1, <1>2
    <3>2. StateKept(c.key)
      BY <3>1, <1>1 DEF Journals
    <3>3. Newest(c)
      BY DEF Newest, Journals
    <3>4. \/ events[c.key] # None /\ SameState(c, events[c.key])
          \/ events[c.key] = None /\ c.status # "active"
      BY <2>2, <3>3 DEF HistoryInv, ReplayAgrees
    <3> QED
      BY <3>2, <3>4 DEF StateKept, SameState
  <2> QED
    BY <2>1, <2>2, <1>3
<1>6. JournalGrammar'
  <2> SUFFICES ASSUME NEW c \in changes', NEW d \in changes', c.key = d.key, c.id < d.id,
                      ~\E e \in changes' : e.key = c.key /\ c.id < e.id /\ e.id < d.id
               PROVE  /\ d.type = "expired" => c.status = "active"
                      /\ d.type = "new" => c.status # "active"
                      /\ d.type = "updated" => ~SameState(c, d)
    BY DEF JournalGrammar, Consecutive, SameState
  <2>1. CASE d \in changes
    <3>1. c \in changes
      BY <2>1, <1>1, <1>2, <1>3
    <3>2. Consecutive(c, d)
      BY DEF Consecutive, Journals
    <3> QED
      BY <2>1, <3>1, <3>2 DEF HistoryInv, JournalGrammar
  <2>2. CASE d \in New
    <3>1. c \in changes
      BY <2>2, <1>1, <1>3 DEF Journals
    <3>2. \A e \in changes : e \in changes' /\ e.id < d.id
      BY <2>2, <1>2 DEF Journals
    <3>3. Newest(c)
      BY <3>1, <3>2, <1>1 DEF Newest
    <3>4. \/ events[c.key] # None /\ SameState(c, events[c.key])
          \/ events[c.key] = None /\ c.status # "active"
      BY <3>1, <3>3 DEF HistoryInv, ReplayAgrees
    <3>5. RealTransition(d)
      BY <2>2 DEF Journals
    <3> QED
      BY <3>4, <3>5 DEF RealTransition, SameState
  <2> QED
    BY <2>1, <2>2, <1>3
<1> QED
  BY <1>4, <1>5, <1>6

\* So does forgetting its oldest rows.
LEMMA ForgetKeepsHistory ==
  ASSUME HistoryInv, ForgetsOldest, now' = now
  PROVE  (RowsOrdered /\ ReplayAgrees /\ JournalGrammar)'
<1>1. changes' \subseteq changes /\ events' = events /\ lastId' = lastId
  BY DEF ForgetsOldest
<1>2. \A c \in changes : c.id \in Nat
  BY DEF HistoryInv, StoreTypeOK, Change
<1>3. \A c \in changes', e \in changes : c.id <= e.id => e \in changes'
  BY <1>1, <1>2 DEF ForgetsOldest
<1>4. RowsOrdered'
  BY <1>1 DEF HistoryInv, RowsOrdered
<1>5. \A c \in changes' : Newest(c)' => Newest(c)
  BY <1>1, <1>2, <1>3 DEF Newest
<1>6. ReplayAgrees'
  BY <1>1, <1>5 DEF HistoryInv, ReplayAgrees, SameState
<1>7. \A c, d \in changes' : Consecutive(c, d)' => Consecutive(c, d)
  BY <1>1, <1>2, <1>3 DEF Consecutive
<1>8. JournalGrammar'
  BY <1>1, <1>7 DEF HistoryInv, JournalGrammar, SameState
<1> QED
  BY <1>4, <1>6, <1>8

\* With no wait for the connection the clock stands still while an operation
\* is in progress; in any case no operation looks into the future.
LEMMA ClockStep ==
  ASSUME HistoryInv, [StoreNext]_storeVars
  PROVE  ClocksAgree' /\ NoFutureClock'
<1>1. /\ now \in Nat /\ maintNow \in Nat /\ ingest \in IngestOp \cup {None}
      /\ ingest # None => ingest.at \in Nat
  BY NoneIsNoValue DEF HistoryInv, StoreTypeOK, IngestOp
<1>2. ASSUME NEW k \in Keys, NEW r \in Report, IngestBegin(k, r)
      PROVE  ClocksAgree' /\ NoFutureClock'
  BY <1>1, <1>2 DEF IngestBegin, HistoryInv, ClocksAgree, NoFutureClock
<1>3. CASE IngestCommit \/ IngestAbort
  BY <1>3, <1>1 DEF IngestCommit, IngestAbort, HistoryInv, ClocksAgree, NoFutureClock
<1>4. CASE MaintBegin
  BY <1>4, <1>1 DEF MaintBegin, HistoryInv, ClocksAgree, NoFutureClock
<1>5. CASE Expire \/ CleanupChanges
  BY <1>5, <1>1 DEF Expire, CleanupChanges, HistoryInv, ClocksAgree, NoFutureClock
<1>6. CASE CleanupEvents
  BY <1>6, <1>1 DEF CleanupEvents, HistoryInv, ClocksAgree, NoFutureClock
<1>7. CASE MaintStepFails
  <2>1. /\ maint # "idle" /\ UNCHANGED <<now, ingest>>
        /\ maintNow' = maintNow \/ (maintNow' = 0 /\ maint = "events")
        /\ maint = "events" => maint' = "idle"
    BY <1>7 DEF MaintStepFails
  <2> QED
    BY <2>1, <1>7, <1>1 DEF MaintStepFails, HistoryInv, ClocksAgree, NoFutureClock
<1>8. CASE Tick
  BY <1>8, <1>1 DEF Tick, HistoryInv, ClocksAgree, NoFutureClock
<1>9. ASSUME NEW o \in Outputs, NEW c \in changes, Ack(o, c.id)
      PROVE  ClocksAgree' /\ NoFutureClock'
  BY <1>9 DEF Ack, HistoryInv, ClocksAgree, NoFutureClock
<1>10. ASSUME NEW enabled \in SUBSET Outputs, NEW typeOf \in [Outputs -> OutputTypes],
              Restart(enabled, typeOf)
       PROVE  ClocksAgree' /\ NoFutureClock'
  BY <1>10, <1>1 DEF Restart, HistoryInv, ClocksAgree, NoFutureClock
<1>11. CASE UNCHANGED storeVars
  BY <1>11 DEF storeVars, HistoryInv, ClocksAgree, NoFutureClock
<1> QED
  BY <1>2, <1>3, <1>4, <1>5, <1>6, <1>7, <1>8, <1>9, <1>10, <1>11 DEF StoreNext, WriterNext

LEMMA HistoryStep ==
  ASSUME HistoryInv, ChangeRetention = 0 \/ MaxWait = 0, [StoreNext]_storeVars
  PROVE  HistoryInv'
<1>1. ClocksAgree' /\ NoFutureClock' /\ StoreTypeOK' /\ JournalReadable'
  BY ClockStep, StoreStep DEF HistoryInv
<1>2. CASE WriterNext
  <2>1. now' = now
    BY <1>2, WriterEffect DEF HistoryInv
  <2>2. (Journals \/ ForgetsOldest) /\ ExpiredIsPast'
    BY <1>2, IngestJournals, ExpireJournals, OtherJournals
  <2> QED
    BY <1>1, <2>1, <2>2, AppendKeepsHistory, ForgetKeepsHistory DEF HistoryInv
<1>3. CASE ~WriterNext
  <2>1. UNCHANGED <<events, changes, lastId>> /\ now' >= now
    BY <1>3 DEF StoreNext, Tick, Ack, Restart, storeVars, HistoryInv, StoreTypeOK
  <2>2. now \in Nat /\ now' \in Nat /\ \A c \in changes : c.created \in Nat
    BY <1>1 DEF HistoryInv, StoreTypeOK, Change
  <2>3. \A k \in Keys : events[k] # None => events[k].expires \in Nat
    BY StoreConstants DEF HistoryInv, StoreTypeOK, Row
  <2>4. RowsOrdered' /\ ExpiredIsPast'
    BY <2>1, <2>2, <2>3 DEF HistoryInv, RowsOrdered, ExpiredIsPast
  <2>5. ReplayAgrees' /\ JournalGrammar'
    BY <2>1 DEF HistoryInv, ReplayAgrees, JournalGrammar, Newest, Consecutive, SameState
  <2> QED
    BY <1>1, <2>4, <2>5 DEF HistoryInv
<1> QED
  BY <1>2, <1>3

LEMMA HistoryInit == StoreInit => HistoryInv
BY DEF StoreInit, HistoryInv, StoreTypeOK, JournalReadable, ClocksAgree, NoFutureClock, RowsOrdered,
   ExpiredIsPast, ReplayAgrees, JournalGrammar, MaintSteps

\* Replaying the retained journal ends in the events table, and every row is
\* a real transition from the row before it: for any wait for the connection
\* if nothing is cleaned up, and with cleanup if operations do not wait.
\* (With both, the newest row of an event can be removed before an older one.)
THEOREM JournalIsHistory ==
  ASSUME ChangeRetention = 0 \/ MaxWait = 0
  PROVE  StoreSpec => []JournalFaithful
<1>1. HistoryInv /\ [StoreNext]_storeVars => HistoryInv'
  BY HistoryStep
<1>2. HistoryInv => JournalFaithful
  BY DEF HistoryInv, JournalFaithful
<1> QED
  BY <1>1, <1>2, HistoryInit, PTL DEF StoreSpec

\* Whoever marks an event expired works with a time at or after its expiry.
ExpiredWhenLapsed ==
  \A k \in Keys : events[k] # None /\ events[k].status = "expired" =>
    events[k].expires # 0 /\ events[k].expires <= events[k].updated

LEMMA LapsedStep ==
  ASSUME StoreTypeOK, ExpiredWhenLapsed, [StoreNext]_storeVars
  PROVE  ExpiredWhenLapsed'
<1>0. /\ events \in [Keys -> Row \cup {None}] /\ maintNow \in Nat
      /\ \A k \in Keys : events[k] # None => events[k] \in Row
  BY DEF StoreTypeOK
<1>1. CASE IngestCommit
  <2> DEFINE k == ingest.key
             r == ingest.report
             t == ingest.at
             row == events[k]
             new == [status |-> StatusAfter(r, row, t), content |-> r.content,
                     expires |-> r.expires, lastSeen |-> t, updated |-> t]
             seen == [row EXCEPT !.lastSeen = t]
  <2>1. k \in Keys /\ r \in Report /\ t \in Nat /\ r.expires \in Nat
    <3>1. ingest \in IngestOp
      BY <1>1, NoneIsNoValue DEF IngestCommit, StoreTypeOK
    <3> QED BY <3>1, StoreConstants DEF IngestOp, Report
  <2>2. \/ row # None /\ events' = [events EXCEPT ![k] = seen]
        \/ events' = [events EXCEPT ![k] = new]
    BY <1>1 DEF IngestCommit, IsDuplicate
  <2>3. row # None => /\ seen.status = row.status /\ seen.expires = row.expires
                      /\ seen.updated = row.updated
    BY <1>0, <2>1 DEF Row
  <2>4. new.status = "expired" => new.expires # 0 /\ new.expires <= new.updated
    BY <2>1 DEF StatusAfter, ExpiryLive, Report
  <2> HIDE DEF k, r, t, row, new, seen
  <2>5. \A j \in Keys \ {k} : events'[j] = events[j]
    BY <1>0, <2>1, <2>2
  <2>6. (row # None /\ events'[k] = seen) \/ events'[k] = new
    BY <1>0, <2>1, <2>2
  <2>7. row = events[k]
    BY DEF row
  <2> QED BY <2>1, <2>3, <2>4, <2>5, <2>6, <2>7 DEF ExpiredWhenLapsed
<1>2. CASE Expire
  <2>1. \A k \in Keys : events'[k] = IF k \in Lapsed THEN ExpiredRow(events[k]) ELSE events[k]
    BY <1>2 DEF Expire
  <2>2. ASSUME NEW k \in Lapsed
        PROVE  ExpiredRow(events[k]).expires # 0
               /\ ExpiredRow(events[k]).expires <= ExpiredRow(events[k]).updated
    BY <1>0 DEF Lapsed, ExpiredRow, Row
  <2> QED BY <2>1, <2>2 DEF ExpiredWhenLapsed
<1>3. CASE CleanupEvents
  BY <1>3 DEF CleanupEvents, ExpiredWhenLapsed
<1>4. CASE UNCHANGED events
  BY <1>4 DEF ExpiredWhenLapsed
<1> QED
  BY <1>1, <1>2, <1>3, <1>4 DEF StoreNext, WriterNext, IngestBegin, IngestAbort, MaintBegin,
     CleanupChanges, MaintStepFails, Tick, Ack, Restart, storeVars

\* Ingest recognises a repeated report, also when Expire has marked the event
\* since, however long it waits for the connection: it writes a record only
\* when the pass that expired the event read the clock after it.
THEOREM RepetitionIsQuiet == StoreSpec => OnlyOvertakenRepeatWrites
<1> DEFINE Overtaken(k) ==
      Repeats(k) /\ lastId' # lastId
        => events[k].status = "expired" /\ ingest.at < events[k].updated
           Inv == StoreTypeOK /\ JournalReadable /\ ExpiredWhenLapsed
<1>1. StoreInit => Inv
  BY DEF StoreInit, StoreTypeOK, JournalReadable, MaintSteps, ExpiredWhenLapsed
<1>2. Inv /\ [StoreNext]_storeVars => Inv'
  BY StoreStep, LapsedStep
<1>3. ASSUME Inv, StoreNext, NEW k \in Keys, Repeats(k), lastId' # lastId
      PROVE  events[k].status = "expired" /\ ingest.at < events[k].updated
  <2>1. IngestCommit
    BY <1>3 DEF Repeats, StoreNext, WriterNext, IngestBegin, IngestAbort, MaintBegin, Expire,
       CleanupChanges, CleanupEvents, MaintStepFails, Tick, Ack, Restart
  <2>2. /\ ingest.report \in Report /\ events[k] \in Row /\ ingest.at \in Nat
        /\ events[k].expires \in Nat /\ events[k].updated \in Nat
    <3>1. ingest \in IngestOp /\ events[k] \in Row
      BY <1>3 DEF StoreTypeOK, Repeats
    <3> QED BY <3>1, StoreConstants DEF IngestOp, Row
  <2>3. ~ IsDuplicate(ingest.report, events[k], ingest.at)
    BY <1>3, <2>1 DEF IngestCommit, Repeats
  <2>4. ingest.report.expires = events[k].expires
    BY <1>3 DEF Repeats, Fingerprint
  <2>5. events[k].status = "expired" /\ ExpiryLive(ingest.report, ingest.at)
    BY <1>3, <2>2, <2>3 DEF IsDuplicate, Repeats, Report, Row, Statuses
  <2>6. events[k].expires # 0 /\ events[k].expires <= events[k].updated
    BY <1>3, <2>5 DEF ExpiredWhenLapsed, Repeats
  <2> QED BY <2>2, <2>4, <2>5, <2>6 DEF ExpiryLive
<1>4. Inv /\ [StoreNext]_storeVars => [\A k \in Keys : Overtaken(k)]_storeVars
  BY <1>3
<1> QED
  BY <1>1, <1>2, <1>4, PTL DEF StoreSpec, OnlyOvertakenRepeatWrites

-----------------------------------------------------------------------------
(***************************************************************************)
(* The output workers (Delivery).                                          *)
(***************************************************************************)

(* What a worker knows about the change it is at.                          *)

\* Everything owed before the current change was handled before.
LEMMA CurrentIsNext ==
  ASSUME IndInv, NEW o \in Outputs, NEW i \in batch[o], Current(o, i)
  PROVE  /\ cursors[o] # None
         /\ i \in owed[o]
         /\ i \in Nat
         /\ \A j \in owed[o] : j < i => j \in handled[o]
<1>1. cursors[o] # None /\ worker[o] # "off"
  BY DEF IndInv, BatchIsPrefix
<1>2. i \in Ids /\ i > cursors[o].acked
  BY DEF IndInv, BatchIsPrefix
<1>3. i \in owed[o]
  BY <1>1, <1>2 DEF IndInv, CursorSeparates
<1>4. owed[o] \subseteq Nat
  BY DEF IndInv, TypeOK
<1>5. cursors[o].acked \in Nat
  BY <1>1 DEF IndInv, TypeOK, StoreTypeOK, Cursor
<1>6. ASSUME NEW j \in owed[o], j < i
      PROVE  j \in handled[o]
  <2>1. CASE j <= cursors[o].acked
    BY <1>1, <2>1 DEF IndInv, CursorSeparates
  <2>2. CASE j > cursors[o].acked
    <3>1. j \in Ids
      BY <1>1, <2>2 DEF IndInv, CursorSeparates
    <3>2. j \notin batch[o]
      BY <1>3, <1>4, <1>6 DEF Current
    <3>3. i < j
      BY <2>2, <3>1, <3>2 DEF IndInv, BatchIsPrefix
    <3> QED
      BY <3>3, <1>3, <1>4, <1>6
  <2> QED
    BY <2>1, <2>2, <1>4, <1>5
<1> QED
  BY <1>1, <1>3, <1>4, <1>6

\* PollChanges returns a prefix of what is pending.
LEMMA PollIsPrefix ==
  ASSUME IndInv, NEW o \in Outputs, cursors[o] # None,
         NEW c \in PollChanges(o, PollBatch), NEW d \in Pending(o), d.id <= c.id
  PROVE  d \in PollChanges(o, PollBatch)
<1> DEFINE upTo(e) == {x \in Pending(o) : x.id <= e.id}
<1>1. c \in Pending(o) /\ Cardinality(upTo(c)) <= PollBatch
  BY DEF PollChanges
<1>2. \A x \in changes : x.id \in Nat
  BY DEF IndInv, TypeOK, StoreTypeOK, Change
<1>3. upTo(d) \subseteq upTo(c)
  BY <1>1, <1>2 DEF Pending
<1>4. IsFiniteSet(upTo(c))
  BY FS_Subset DEF Pending, IndInv, IdsIssued
<1>5. Cardinality(upTo(d)) <= Cardinality(upTo(c))
  BY <1>3, <1>4, FS_Subset
<1>6. Cardinality(upTo(d)) \in Nat /\ Cardinality(upTo(c)) \in Nat
  BY <1>3, <1>4, FS_Subset, FS_CardinalityType
<1> HIDE DEF upTo
<1>7. Cardinality(upTo(d)) <= PollBatch
  BY <1>1, <1>5, <1>6, WorkerConstants
<1> QED
  BY <1>7 DEF PollChanges, upTo
-----------------------------------------------------------------------------
(* Steps that leave the journal, the cursors and the history alone.        *)

\* What a step of worker o may do to the batches without touching the rest:
\* give the batch up, keep it, or (see PollStep) fetch a new one.
LEMMA QuietStep ==
  ASSUME IndInv, TypeOK',
         UNCHANGED <<changes, lastId, cursors, owed, handled>>,
         BatchIsPrefix'
  PROVE  IndInv'
<1>1. Ids' = Ids
  BY DEF Ids
<1>2. IdsIssued' /\ AckWithinJournal' /\ OnlyOwed' /\ CursorSeparates' /\ OrderedDelivery'
  BY <1>1 DEF IndInv, IdsIssued, AckWithinJournal, OnlyOwed, CursorSeparates, OrderedDelivery
<1> QED
  BY <1>2 DEF IndInv

LEMMA OnFailureType ==
  ASSUME TypeOK, NEW o \in Outputs, OnFailure(o)
  PROVE  failures' \in [Outputs -> Nat] /\ suspended' \in [Outputs -> BOOLEAN]
<1> DEFINE n == IF failures[o] < FailureThreshold THEN failures[o] + 1 ELSE failures[o]
<1>1. failures[o] \in Nat
  BY DEF TypeOK
<1>2. n \in Nat
  BY <1>1, WorkerConstants
<1>3. failures' = [failures EXCEPT ![o] = n]
  BY DEF OnFailure
<1>4. failures' \in [Outputs -> Nat]
  BY <1>2, <1>3 DEF TypeOK
<1>5. suspended' = [suspended EXCEPT ![o] = suspended[o] \/ ThresholdReached(n)]
  BY DEF OnFailure
<1>6. (suspended[o] \/ ThresholdReached(n)) \in BOOLEAN
  OBVIOUS
<1> HIDE DEF n
<1>7. suspended' \in [Outputs -> BOOLEAN]
  BY <1>5, <1>6, Zenon DEF TypeOK
<1> QED
  BY <1>4, <1>7

\* Giving up a batch keeps the batches prefixes of what is pending.
LEMMA GiveUpKeepsPrefix ==
  ASSUME IndInv, NEW o \in Outputs, worker[o] # "off", GiveUpBatch(o),
         UNCHANGED <<changes, cursors, up>>,
         \A p \in Outputs \ {o} : handled'[p] = handled[p]
  PROVE  BatchIsPrefix' /\ worker' \in [Outputs -> WorkerStates] /\ batch' \in [Outputs -> SUBSET Nat]
<1>1. Ids' = Ids
  BY DEF Ids
<1>2. worker' \in [Outputs -> WorkerStates] /\ batch' \in [Outputs -> SUBSET Nat]
  BY DEF IndInv, TypeOK, GiveUpBatch, WorkerStates
<1>3. worker'[o] = "idle" /\ batch'[o] = {}
  BY DEF GiveUpBatch, IndInv, TypeOK
<1>4. \A p \in Outputs \ {o} : worker'[p] = worker[p] /\ batch'[p] = batch[p]
  BY DEF GiveUpBatch, IndInv, TypeOK
<1>5. up /\ cursors[o] # None
  BY DEF IndInv, BatchIsPrefix
<1>6. BatchIsPrefix'
  BY <1>1, <1>3, <1>4, <1>5 DEF IndInv, BatchIsPrefix, Current
<1> QED
  BY <1>2, <1>6

LEMMA PollStep ==
  ASSUME IndInv, NEW o \in Outputs, Poll(o)
  PROVE  IndInv'
<1> DEFINE rows == PollChanges(o, PollBatch)
<1>1. Ids' = Ids /\ UNCHANGED <<changes, lastId, cursors, owed, handled, up>>
  BY DEF Poll, Ids, storeVars, processVars, history
<1>2. worker[o] = "idle" /\ cursors[o] # None /\ up
  BY DEF Poll, MayPoll, IndInv, BatchIsPrefix
<1>3. rows \subseteq changes /\ \A c \in rows : c.id > cursors[o].acked
  BY DEF PollChanges, Pending
<1>4. {c.id : c \in rows} \subseteq Nat
  BY <1>3 DEF IndInv, TypeOK, StoreTypeOK, Change
<1>5. batch' = [batch EXCEPT ![o] = {c.id : c \in rows}]
  BY DEF Poll
<1>6. worker' = [worker EXCEPT ![o] = IF rows = {} THEN "idle" ELSE "handle"]
  BY DEF Poll
<1>7. TypeOK'
  <2>1. StoreTypeOK'
    BY DEF Poll, IndInv, TypeOK, StoreTypeOK, storeVars
  <2>2. worker' \in [Outputs -> WorkerStates]
    BY <1>6 DEF IndInv, TypeOK, WorkerStates
  <2>3. batch' \in [Outputs -> SUBSET Nat]
    BY <1>4, <1>5 DEF IndInv, TypeOK
  <2>4. probe' \in [Outputs -> BOOLEAN]
    BY DEF Poll, UseProbe, IndInv, TypeOK
  <2> QED
    BY <2>1, <2>2, <2>3, <2>4 DEF Poll, IndInv, TypeOK, processVars, history
<1>8. BatchIsPrefix'
  <2>1. \A p \in Outputs \ {o} : worker'[p] = worker[p] /\ batch'[p] = batch[p]
    BY <1>5, <1>6 DEF IndInv, TypeOK
  <2>2. worker'[o] = IF rows = {} THEN "idle" ELSE "handle"
    BY <1>6 DEF IndInv, TypeOK
  <2>3. batch'[o] = {c.id : c \in rows}
    BY <1>5 DEF IndInv, TypeOK
  <2>4. ASSUME NEW i \in batch'[o], NEW j \in Ids \ batch'[o], j > cursors[o].acked
        PROVE  i < j
    <3>1. PICK c \in rows : c.id = i
      BY <2>3
    <3>2. PICK d \in changes : d.id = j
      BY DEF Ids
    <3>3. d \in Pending(o)
      BY <3>2, <2>4 DEF Pending
    <3>4. d \notin rows
      BY <3>2, <2>3, <2>4
    <3>5. ~(d.id <= c.id)
      BY <1>2, <3>1, <3>3, <3>4, PollIsPrefix
    <3>6. c.id \in Nat /\ d.id \in Nat
      BY <1>3 DEF IndInv, TypeOK, StoreTypeOK, Change
    <3> QED
      BY <3>1, <3>2, <3>5, <3>6
  <2>5. \A i \in batch'[o] : i \in Ids /\ i > cursors[o].acked
    BY <1>3, <2>3 DEF Ids
  <2>6. (rows = {}) <=> (batch'[o] = {})
    BY <2>3
  <2> HIDE DEF rows
  <2> QED
    BY <1>1, <1>2, <2>1, <2>2, <2>4, <2>5, <2>6 DEF IndInv, BatchIsPrefix, Current
<1> QED
  BY <1>1, <1>7, <1>8, QuietStep

\* The worker's failure paths: nothing durable and no history changes.
LEMMA FailureStep ==
  ASSUME IndInv, NEW o \in Outputs,
         PollFails(o) \/ HandleError(o) \/ HandleTimeout(o) \/ LateError(o)
           \/ AckFails(o) \/ ProbeTimer(o) \/ StopWorker(o)
  PROVE  IndInv'
<1>1. UNCHANGED <<storeVars, processVars, history>>
  BY DEF PollFails, HandleError, HandleTimeout, LateError, AckFails, ProbeTimer, StopWorker
<1>2. UNCHANGED <<changes, lastId, cursors, owed, handled, up>> /\ Ids' = Ids
  BY <1>1 DEF storeVars, processVars, history, Ids
<1>3. StoreTypeOK' /\ up' \in BOOLEAN /\ stopping' \in BOOLEAN /\ exits' \in Nat
      /\ owed' \in [Outputs -> SUBSET Nat] /\ handled' \in [Outputs -> SUBSET Nat]
  BY <1>1 DEF storeVars, processVars, history, IndInv, TypeOK, StoreTypeOK
<1>4. failures' \in [Outputs -> Nat] /\ suspended' \in [Outputs -> BOOLEAN]
  BY OnFailureType DEF PollFails, HandleError, HandleTimeout, LateError, AckFails, ProbeTimer,
     StopWorker, IndInv, TypeOK
<1>5. probe' \in [Outputs -> BOOLEAN]
  BY DEF PollFails, HandleError, HandleTimeout, LateError, AckFails, ProbeTimer,
     StopWorker, UseProbe, IndInv, TypeOK
<1>6. BatchIsPrefix' /\ worker' \in [Outputs -> WorkerStates] /\ batch' \in [Outputs -> SUBSET Nat]
  <2>1. CASE HandleError(o) \/ LateError(o) \/ AckFails(o)
    BY <2>1, <1>2, GiveUpKeepsPrefix DEF HandleError, LateError, AckFails
  <2>2. CASE PollFails(o) \/ ProbeTimer(o)
    BY <2>2, <1>2 DEF PollFails, ProbeTimer, IndInv, TypeOK, BatchIsPrefix, Current
  <2>3. ASSUME NEW w \in {"stuck", "off"}, worker' = [worker EXCEPT ![o] = w], batch' = batch,
               w = "stuck" => worker[o] = "handle", w = "off" => worker[o] = "idle"
        PROVE  BatchIsPrefix' /\ worker' \in [Outputs -> WorkerStates] /\ batch' \in [Outputs -> SUBSET Nat]
    <3>1. worker'[o] = w /\ \A p \in Outputs \ {o} : worker'[p] = worker[p]
      BY <2>3 DEF IndInv, TypeOK
    <3> QED
      BY <2>3, <3>1, <1>2 DEF IndInv, TypeOK, BatchIsPrefix, Current, WorkerStates
  <2>4. CASE HandleTimeout(o)
    BY <2>3, <2>4 DEF HandleTimeout
  <2>5. CASE StopWorker(o)
    BY <2>3, <2>5 DEF StopWorker
  <2> QED
    BY <2>1, <2>2, <2>4, <2>5
<1>7. TypeOK'
  BY <1>3, <1>4, <1>5, <1>6 DEF TypeOK
<1> QED
  BY <1>2, <1>6, <1>7, QuietStep

-----------------------------------------------------------------------------
(* Deliveries and acknowledgments.                                         *)

\* A success, timely or late, is recorded for the change that was next.
LEMMA HandledStep ==
  ASSUME IndInv, NEW o \in Outputs, NEW i \in batch[o], HandleOk(o, i) \/ LateSuccess(o, i)
  PROVE  IndInv'
<1>1. UNCHANGED <<storeVars, processVars, owed, failures, suspended, probe>>
      /\ handled' = [handled EXCEPT ![o] = @ \cup {i}]
      /\ Current(o, i)
  BY DEF HandleOk, LateSuccess
<1>2. UNCHANGED <<changes, lastId, cursors, owed, up>> /\ Ids' = Ids
  BY <1>1 DEF storeVars, processVars, Ids
<1>3. /\ cursors[o] # None
      /\ i \in owed[o]
      /\ i \in Nat
      /\ \A j \in owed[o] : j < i => j \in handled[o]
  BY <1>1, CurrentIsNext
<1>4. handled'[o] = handled[o] \cup {i} /\ \A p \in Outputs \ {o} : handled'[p] = handled[p]
  BY <1>1 DEF IndInv, TypeOK
<1>5. handled' \in [Outputs -> SUBSET Nat]
  BY <1>1, <1>3 DEF IndInv, TypeOK
<1>6. BatchIsPrefix' /\ worker' \in [Outputs -> WorkerStates] /\ batch' \in [Outputs -> SUBSET Nat]
  <2>1. CASE HandleOk(o, i)
    <3>1. batch' = batch /\ worker' = [worker EXCEPT ![o] = "ack"] /\ worker[o] = "handle"
      BY <2>1 DEF HandleOk
    <3>2. worker'[o] = "ack" /\ \A p \in Outputs \ {o} : worker'[p] = worker[p]
      BY <3>1 DEF IndInv, TypeOK
    <3>3. \A j \in batch[o] : Current(o, j) => j = i
      BY <1>1, <1>3 DEF Current, IndInv, TypeOK
    <3> QED
      BY <3>1, <3>2, <3>3, <1>2, <1>4 DEF IndInv, TypeOK, BatchIsPrefix, Current, WorkerStates
  <2>2. CASE LateSuccess(o, i)
    BY <2>2, <1>2, <1>4, GiveUpKeepsPrefix DEF LateSuccess
  <2> QED
    BY <2>1, <2>2
<1>7. TypeOK'
  BY <1>1, <1>5, <1>6 DEF TypeOK, IndInv, StoreTypeOK, storeVars, processVars
<1>8. OrderedDelivery'
  <2>1. \A a \in owed[o] : a \in Nat
    BY DEF IndInv, TypeOK
  <2> QED
    BY <1>2, <1>3, <1>4, <2>1 DEF IndInv, OrderedDelivery, OnlyOwed
<1>9. IdsIssued' /\ AckWithinJournal' /\ OnlyOwed' /\ CursorSeparates'
  BY <1>2, <1>3, <1>4 DEF IndInv, IdsIssued, AckWithinJournal, OnlyOwed, CursorSeparates
<1> QED
  BY <1>6, <1>7, <1>8, <1>9 DEF IndInv

\* The cursor moves over exactly one pending change, which was handled.
LEMMA AckStep ==
  ASSUME IndInv, NEW o \in Outputs, NEW i \in batch[o], AckOk(o, i)
  PROVE  IndInv'
<1>1. /\ worker[o] = "ack" /\ Current(o, i)
      /\ cursors' = AckChanges(o, i)
      /\ batch' = [batch EXCEPT ![o] = @ \ {i}]
      /\ worker' = [worker EXCEPT ![o] = IF batch[o] = {i} THEN "idle" ELSE "handle"]
      /\ UNCHANGED <<now, events, changes, lastId, ingest, maint, maintNow, processVars, history>>
  BY DEF AckOk
<1>2. UNCHANGED <<changes, lastId, owed, handled, up>> /\ Ids' = Ids
  BY <1>1 DEF processVars, history, Ids
<1>3. /\ cursors[o] # None /\ i \in Nat /\ i \in handled[o]
      /\ i > cursors[o].acked /\ cursors[o].acked \in Nat
  <2>1. cursors[o] # None /\ i \in Nat
    BY <1>1, CurrentIsNext
  <2>2. i \in handled[o] /\ i > cursors[o].acked
    BY <1>1 DEF IndInv, BatchIsPrefix
  <2> QED
    BY <2>1, <2>2 DEF IndInv, TypeOK, StoreTypeOK, Cursor
<1>4. /\ cursors' \in [Outputs -> Cursor \cup {None}]
      /\ \A p \in Outputs : (cursors'[p] = None) <=> (cursors[p] = None)
      /\ \A p \in Outputs \ {o} : cursors'[p] = cursors[p]
      /\ cursors'[o].acked = Larger(cursors[o].acked, i)
  BY <1>1, <1>3, AckType DEF IndInv, TypeOK
<1>5. cursors'[o].acked = i
  BY <1>3, <1>4 DEF Larger
<1>6. /\ batch'[o] = batch[o] \ {i}
      /\ worker'[o] = IF batch[o] = {i} THEN "idle" ELSE "handle"
      /\ \A p \in Outputs \ {o} : batch'[p] = batch[p] /\ worker'[p] = worker[p]
  BY <1>1 DEF IndInv, TypeOK
<1>7. TypeOK'
  <2>1. StoreTypeOK'
    BY <1>1, <1>4 DEF IndInv, TypeOK, StoreTypeOK
  <2>2. worker' \in [Outputs -> WorkerStates] /\ batch' \in [Outputs -> SUBSET Nat]
    BY <1>1 DEF IndInv, TypeOK, WorkerStates
  <2>3. failures' \in [Outputs -> Nat] /\ suspended' \in [Outputs -> BOOLEAN]
        /\ probe' \in [Outputs -> BOOLEAN]
    BY DEF AckOk, OnSuccess, IndInv, TypeOK
  <2> QED
    BY <2>1, <2>2, <2>3, <1>1 DEF IndInv, TypeOK, processVars, history
<1>8. \A j \in Ids : j > cursors[o].acked /\ j <= i => j = i
  <2> SUFFICES ASSUME NEW j \in Ids, j > cursors[o].acked, j <= i, j # i
               PROVE  FALSE
    OBVIOUS
  <2>1. j \in Nat
    BY DEF Ids, IndInv, TypeOK, StoreTypeOK, Change
  <2>2. CASE j \in batch[o]
    BY <2>1, <2>2, <1>1, <1>3 DEF Current
  <2>3. CASE j \notin batch[o]
    BY <2>1, <2>3, <1>3 DEF IndInv, BatchIsPrefix
  <2> QED
    BY <2>2, <2>3
<1>9. CursorSeparates'
  <2>1. \A j \in owed[o] : j \in Nat
    BY DEF IndInv, TypeOK
  <2>2. \A j \in Ids : j \in Nat
    BY DEF Ids, IndInv, TypeOK, StoreTypeOK, Change
  <2>3. \A j \in owed[o] : j <= i => j \in handled[o]
    BY <2>1, <1>3, <1>8 DEF IndInv, CursorSeparates
  <2>4. \A j \in owed[o] : j > i => j \in Ids
    BY <2>1, <1>3 DEF IndInv, CursorSeparates
  <2>5. \A j \in Ids : j > i => j \in owed[o]
    BY <2>2, <1>3 DEF IndInv, CursorSeparates
  <2> QED
    BY <2>3, <2>4, <2>5, <1>2, <1>4, <1>5 DEF IndInv, CursorSeparates
<1>10. BatchIsPrefix'
  <2>1. \A j \in batch[o] : j \in Nat
    BY DEF IndInv, TypeOK
  <2>2. \A j \in Ids : j \in Nat
    BY DEF Ids, IndInv, TypeOK, StoreTypeOK, Change
  <2>3. \A j \in batch'[o] : j > i
    BY <2>1, <1>1, <1>3, <1>6 DEF Current
  <2>4. \A a \in batch'[o] : \A j \in Ids \ batch'[o] : j > i => a < j
    BY <2>2, <1>3, <1>6 DEF IndInv, BatchIsPrefix
  <2>5. worker[o] # "off" /\ up
    BY <1>1 DEF IndInv, BatchIsPrefix
  <2>6. (batch'[o] = {}) <=> (batch[o] = {i})
    BY <1>6
  <2> QED
    BY <2>3, <2>4, <2>5, <2>6, <1>2, <1>3, <1>4, <1>5, <1>6 DEF IndInv, BatchIsPrefix, Current
<1>11. IdsIssued' /\ OnlyOwed' /\ OrderedDelivery'
  BY <1>2, <1>4 DEF IndInv, IdsIssued, OnlyOwed, OrderedDelivery
<1>12. AckWithinJournal'
  <2>1. i \in Ids
    BY DEF IndInv, BatchIsPrefix
  <2>2. i <= lastId
    BY <2>1 DEF IndInv, IdsIssued
  <2> QED
    BY <2>2, <1>2, <1>4, <1>5 DEF IndInv, AckWithinJournal
<1> QED
  BY <1>7, <1>9, <1>10, <1>11, <1>12 DEF IndInv

-----------------------------------------------------------------------------
(* The writers, the clock and the life of the process.                     *)

NewIds == {c.id : c \in changes' \ changes}

\* What a writer's step means for the set of ids.
LEMMA WriteIds ==
  ASSUME IndInv, Write
  PROVE  /\ StoreTypeOK' /\ cursors' = cursors
         /\ \/ Appends /\ Ids' = Ids \cup NewIds /\ \A i \in NewIds : i \in Nat /\ lastId < i /\ i <= lastId'
            \/ /\ Removes /\ NewIds = {} /\ Ids' \subseteq Ids
               /\ \A i \in Ids \ Ids' : AckedByAll(i)
<1>1. StoreTypeOK' /\ cursors' = cursors /\ (Appends \/ Removes)
  BY WriterEffect DEF Write, IndInv, TypeOK
<1>2. CASE Appends
  BY <1>1, <1>2 DEF Appends, Ids, NewIds, Change
<1>3. CASE Removes
  BY <1>1, <1>3 DEF Removes, Ids, NewIds
<1> QED
  BY <1>1, <1>2, <1>3

LEMMA WriteStep ==
  ASSUME IndInv, Write
  PROVE  IndInv'
<1>1. UNCHANGED <<up, worker, batch, handled>>
      /\ owed' = [o \in Outputs |-> IF cursors[o] # None THEN owed[o] \cup NewIds ELSE owed[o]]
  BY DEF Write, processVars, workerVars, NewIds
<1>2. StoreTypeOK' /\ cursors' = cursors
  BY WriteIds
<1>3. \A o \in Outputs : owed[o] \subseteq Nat /\ \A i \in owed[o] : i <= lastId
  BY DEF IndInv, TypeOK, IdsIssued
<1>4. \A i \in Ids : i \in Nat /\ 0 < i /\ i <= lastId
  BY DEF IndInv, TypeOK, StoreTypeOK, Change, IdsIssued, Ids
<1>5. lastId \in Nat /\ lastId' \in Nat
  BY <1>2 DEF IndInv, TypeOK, StoreTypeOK
<1>6. \A o \in Outputs : cursors[o] # None => cursors[o].acked \in Nat
  BY DEF IndInv, TypeOK, StoreTypeOK, Cursor
<1>7. NewIds \subseteq Nat
  BY WriteIds
<1>8. TypeOK'
  <2>1. owed' \in [Outputs -> SUBSET Nat]
    BY <1>1, <1>3, <1>7
  <2> QED
    BY <2>1, <1>2 DEF Write, IndInv, TypeOK, processVars, workerVars
<1>9. CASE Appends /\ Ids' = Ids \cup NewIds /\ \A i \in NewIds : i \in Nat /\ lastId < i /\ i <= lastId'
  <2>1. lastId' >= lastId /\ IsFiniteSet(changes')
    BY <1>9 DEF Appends, IndInv, IdsIssued
  <2>2. IdsIssued'
    BY <2>1, <1>1, <1>3, <1>4, <1>5, <1>9 DEF IdsIssued
  <2>3. OnlyOwed'
    BY <1>1, <1>2 DEF IndInv, OnlyOwed
  <2>4. \A o \in Outputs : \A i \in NewIds : i \notin handled[o] /\ i \notin owed[o]
    BY <1>3, <1>5, <1>9 DEF IndInv, OnlyOwed
  <2>5. OrderedDelivery'
    BY <2>4, <1>1, <1>3, <1>5, <1>9 DEF IndInv, OrderedDelivery, OnlyOwed
  <2>6. \A o \in Outputs : \A i \in batch[o] : i \in Ids
    BY DEF IndInv, BatchIsPrefix
  <2>7. BatchIsPrefix'
    BY <2>6, <1>1, <1>2, <1>4, <1>5, <1>9 DEF IndInv, BatchIsPrefix, Current
  <2>8. CursorSeparates'
    <3> SUFFICES ASSUME NEW o \in Outputs, cursors[o] # None
                 PROVE  /\ \A i \in owed'[o] : i <= cursors[o].acked => i \in handled[o]
                        /\ \A i \in owed'[o] : i > cursors[o].acked => i \in Ids'
                        /\ \A i \in Ids' : i > cursors[o].acked => i \in owed'[o]
      BY <1>1, <1>2 DEF CursorSeparates
    <3>1. owed'[o] = owed[o] \cup NewIds
      BY <1>1
    <3>2. \A i \in NewIds : i > cursors[o].acked
      BY <1>5, <1>6, <1>9 DEF IndInv, AckWithinJournal
    <3> QED
      BY <3>1, <3>2, <1>6, <1>9 DEF IndInv, CursorSeparates
  <2>9. AckWithinJournal'
    BY <2>1, <1>2, <1>5, <1>6 DEF IndInv, AckWithinJournal
  <2> QED
    BY <1>8, <2>2, <2>3, <2>5, <2>7, <2>8, <2>9 DEF IndInv
<1>10. CASE /\ Removes /\ NewIds = {} /\ Ids' \subseteq Ids
            /\ \A i \in Ids \ Ids' : AckedByAll(i)
  <2>1. owed' = owed
    BY <1>1, <1>10 DEF IndInv, TypeOK
  <2>2. \A o \in Outputs : cursors[o] # None => \A i \in Ids : i > cursors[o].acked => i \in Ids'
    BY <1>4, <1>6, <1>10 DEF AckedByAll, Registered
  <2>3. IsFiniteSet(changes') /\ lastId' = lastId
    BY <1>10, FS_Subset DEF Removes, IndInv, IdsIssued
  <2>4. IdsIssued' /\ OnlyOwed' /\ OrderedDelivery'
    BY <2>1, <2>3, <1>1, <1>2, <1>10 DEF IndInv, IdsIssued, OnlyOwed, OrderedDelivery
  <2>5. CursorSeparates'
    BY <2>1, <2>2, <1>1, <1>2, <1>10 DEF IndInv, CursorSeparates
  <2>6. BatchIsPrefix'
    BY <2>2, <1>1, <1>2, <1>10 DEF IndInv, BatchIsPrefix, Current
  <2>7. AckWithinJournal'
    BY <2>3, <1>2 DEF IndInv, AckWithinJournal
  <2> QED
    BY <1>8, <2>4, <2>5, <2>6, <2>7 DEF IndInv
<1> QED
  BY <1>9, <1>10, WriteIds

\* A new or replaced consumer starts with the journal as it is.
LEMMA StartStep ==
  ASSUME IndInv, NEW enabled \in SUBSET Outputs, NEW typeOf \in [Outputs -> OutputTypes],
         Start(enabled, typeOf)
  PROVE  IndInv'
<1>1. /\ ~up /\ up' = TRUE
      /\ cursors' = SyncOutputs(enabled, typeOf)
      /\ worker' = [o \in Outputs |-> IF o \in enabled THEN "idle" ELSE "off"]
      /\ owed' = [o \in Outputs |->
                    IF Keeps(o, enabled, typeOf) THEN owed[o]
                    ELSE IF o \in enabled THEN Ids ELSE {}]
      /\ handled' = [o \in Outputs |-> IF Keeps(o, enabled, typeOf) THEN handled[o] ELSE {}]
      /\ UNCHANGED <<now, events, changes, lastId, ingest, maint, maintNow,
                     stopping, exits, batch, failures, suspended, probe>>
  BY DEF Start, Ids
<1>2. Ids' = Ids /\ Ids \subseteq Nat
  BY <1>1 DEF Ids, IndInv, TypeOK, StoreTypeOK, Change
<1>3. \A o \in Outputs : batch[o] = {}
  BY <1>1 DEF IndInv, BatchIsPrefix, TypeOK, WorkerStates
<1>4. TypeOK'
  <2>1. StoreTypeOK'
    BY <1>1, SyncType DEF IndInv, TypeOK, StoreTypeOK
  <2>2. worker' \in [Outputs -> WorkerStates]
    BY <1>1 DEF WorkerStates
  <2>3. owed' \in [Outputs -> SUBSET Nat] /\ handled' \in [Outputs -> SUBSET Nat]
    BY <1>1, <1>2 DEF IndInv, TypeOK
  <2> QED
    BY <2>1, <2>2, <2>3, <1>1 DEF IndInv, TypeOK
<1>5. \A o \in Outputs :
        /\ Keeps(o, enabled, typeOf) =>
             cursors'[o] = cursors[o] /\ cursors[o] # None /\ owed'[o] = owed[o] /\ handled'[o] = handled[o]
        /\ o \in enabled /\ ~Keeps(o, enabled, typeOf) =>
             cursors'[o] = [type |-> typeOf[o], acked |-> 0] /\ owed'[o] = Ids /\ handled'[o] = {}
        /\ o \notin enabled => cursors'[o] = None /\ owed'[o] = {} /\ handled'[o] = {}
        /\ Keeps(o, enabled, typeOf) => o \in enabled
  BY <1>1 DEF SyncOutputs, Keeps
<1>6. \A o \in Outputs : [type |-> typeOf[o], acked |-> 0] # None
  BY NoneIsNoValue DEF Cursor
<1>7. IdsIssued'
  BY <1>1, <1>2, <1>5 DEF IndInv, IdsIssued
<1>8. OnlyOwed' /\ OrderedDelivery'
  BY <1>5, <1>6 DEF IndInv, OnlyOwed, OrderedDelivery
<1>9. CursorSeparates'
  <2> SUFFICES ASSUME NEW o \in Outputs, cursors'[o] # None
               PROVE  /\ \A i \in owed'[o] : i <= cursors'[o].acked => i \in handled'[o]
                      /\ \A i \in owed'[o] : i > cursors'[o].acked => i \in Ids'
                      /\ \A i \in Ids' : i > cursors'[o].acked => i \in owed'[o]
    BY DEF CursorSeparates
  <2>1. CASE Keeps(o, enabled, typeOf)
    BY <2>1, <1>2, <1>5 DEF IndInv, CursorSeparates
  <2>2. CASE o \in enabled /\ ~Keeps(o, enabled, typeOf)
    <3>1. cursors'[o] = [type |-> typeOf[o], acked |-> 0] /\ owed'[o] = Ids
      BY <2>2, <1>5
    <3>2. cursors'[o].acked = 0
      BY <3>1
    <3>3. \A i \in Ids : i \in Nat /\ i > 0
      BY <1>2 DEF IndInv, IdsIssued
    <3>4. \A i \in owed'[o] : ~(i <= cursors'[o].acked) /\ i \in Ids'
      <4> TAKE i \in owed'[o]
      <4>1. i \in Nat /\ i > 0
        BY <3>1, <3>3
      <4>2. ~(i <= 0)
        BY <4>1
      <4> QED
        BY <4>2, <3>1, <3>2, <1>2
    <3>5. \A i \in Ids' : i \in owed'[o]
      BY <3>1, <1>2
    <3> QED
      BY <3>4, <3>5
  <2> QED
    BY <2>1, <2>2, <1>5
<1>10. BatchIsPrefix'
  BY <1>1, <1>3, <1>5, <1>6 DEF BatchIsPrefix
<1>11. AckWithinJournal'
  BY <1>1, <1>4, <1>5 DEF IndInv, AckWithinJournal, TypeOK, StoreTypeOK
<1> QED
  BY <1>4, <1>7, <1>8, <1>9, <1>10, <1>11 DEF IndInv

LEMMA ProcessStep ==
  ASSUME IndInv, Clock \/ Stop \/ Exit \/ UNCHANGED vars
  PROVE  IndInv'
<1>1. UNCHANGED <<changes, lastId, cursors, owed, handled>>
  BY DEF Clock, Tick, Stop, Exit, vars, history, storeVars
<1>2. TypeOK' /\ BatchIsPrefix'
  <2>1. CASE Clock
    BY <2>1 DEF Clock, Tick, processVars, workerVars, history, IndInv, TypeOK, StoreTypeOK,
       BatchIsPrefix, Current, Ids
  <2>2. CASE Stop
    BY <2>2 DEF Stop, storeVars, workerVars, history, IndInv, TypeOK, StoreTypeOK,
       BatchIsPrefix, Current, Ids
  <2>3. CASE Exit
    <3>1. StoreTypeOK'
      BY <2>3 DEF Exit, IndInv, TypeOK, StoreTypeOK, MaintSteps
    <3>2. TypeOK'
      <4>1. exits' \in Nat
        BY <2>3 DEF Exit, IndInv, TypeOK
      <4>4. up' \in BOOLEAN /\ stopping' \in BOOLEAN
        BY <2>3 DEF Exit
      <4>2. /\ worker' \in [Outputs -> WorkerStates]
            /\ batch' \in [Outputs -> SUBSET Nat]
            /\ failures' \in [Outputs -> Nat]
        BY <2>3 DEF Exit, WorkersOff, WorkerStates
      <4>3. suspended' \in [Outputs -> BOOLEAN] /\ probe' \in [Outputs -> BOOLEAN]
        BY <2>3 DEF Exit, WorkersOff
      <4> QED
        BY <3>1, <4>1, <4>2, <4>3, <4>4, <1>1 DEF IndInv, TypeOK
    <3>3. \A o \in Outputs : worker'[o] = "off" /\ batch'[o] = {}
      BY <2>3 DEF Exit, WorkersOff
    <3>4. BatchIsPrefix'
      BY <3>3 DEF BatchIsPrefix
    <3> QED
      BY <3>2, <3>4
  <2>4. CASE UNCHANGED vars
    BY <2>4 DEF vars, storeVars, processVars, workerVars, history, IndInv, TypeOK, StoreTypeOK,
       BatchIsPrefix, Current, Ids
  <2> QED
    BY <2>1, <2>2, <2>3, <2>4
<1> QED
  BY <1>1, <1>2, QuietStep

LEMMA IndInvStep ==
  ASSUME IndInv, [Next]_vars
  PROVE  IndInv'
<1>1. ASSUME NEW o \in Outputs, WorkerNext(o)
      PROVE  IndInv'
  BY <1>1, PollStep, FailureStep, HandledStep, AckStep DEF WorkerNext
<1> QED
  BY <1>1, WriteStep, StartStep, ProcessStep DEF Next

LEMMA IndInvInit == Init => IndInv
<1> SUFFICES ASSUME Init PROVE IndInv
  OBVIOUS
<1>1. TypeOK
  BY DEF Init, StoreInit, TypeOK, StoreTypeOK, MaintSteps, WorkerStates
<1>2. Ids = {} /\ IsFiniteSet(changes)
  BY FS_EmptySet DEF Init, StoreInit, Ids
<1> QED
  BY <1>1, <1>2 DEF Init, StoreInit, IndInv, IdsIssued, OnlyOwed, CursorSeparates, OrderedDelivery,
     BatchIsPrefix, AckWithinJournal

LEMMA IndInvAlways == Spec => []IndInv
  BY IndInvInit, IndInvStep, PTL DEF Spec

-----------------------------------------------------------------------------
(* The theorems.                                                           *)

\* A change owed to an enabled output was handled successfully or is still in
\* the journal in front of its cursor: delivery is at least once, whatever
\* crashes, times out, fails or is cleaned up.
THEOREM AtLeastOnce == Spec => []NothingLost
<1>1. IndInv => NothingLost
  <2> SUFFICES ASSUME IndInv, NEW o \in Outputs, cursors[o] # None, NEW i \in owed[o]
               PROVE  i \in handled[o] \/ (i > cursors[o].acked /\ \E c \in changes : c.id = i)
    BY DEF NothingLost
  <2>1. i \in Nat /\ cursors[o].acked \in Nat
    BY DEF IndInv, TypeOK, StoreTypeOK, Cursor
  <2>2. /\ i <= cursors[o].acked => i \in handled[o]
        /\ i > cursors[o].acked => i \in Ids
    BY DEF IndInv, CursorSeparates
  <2>3. i \in Ids => \E c \in changes : c.id = i
    BY DEF Ids
  <2>4. CASE i <= cursors[o].acked
    <3>1. i \in handled[o]
      BY <2>2, <2>4
    <3> QED
      BY <3>1
  <2>5. CASE i > cursors[o].acked
    <3>1. i \in Ids
      BY <2>2, <2>5
    <3> QED
      BY <3>1, <2>3, <2>5
  <2> QED
    BY <2>1, <2>4, <2>5
<1> QED
  BY <1>1, IndInvAlways, PTL

\* Every output sees the changes it is owed succeed in journal order.
THEOREM InJournalOrder == Spec => []OrderedDelivery
<1>1. IndInv => OrderedDelivery
  BY DEF IndInv
<1> QED
  BY <1>1, IndInvAlways, PTL

\* An acknowledged change is never handed to the same consumer again.
THEOREM AckIsFinal == Spec => []NoRedeliveryAfterAck
<1>1. IndInv => NoRedeliveryAfterAck
  BY DEF IndInv, BatchIsPrefix, NoRedeliveryAfterAck
<1> QED
  BY <1>1, IndInvAlways, PTL

\* A batch that is not empty has a lowest id.
LEMMA LeastId ==
  ASSUME NEW S \in SUBSET Nat, S # {}
  PROVE  \E i \in S : \A j \in S : i <= j
<1> DEFINE R == {p \in Nat \X Nat : p[1] < p[2]}
<1>1. IsWellFoundedOn(R, Nat)
  BY NatLessThanWellFounded, Zenon DEF OpToRel
<1> HIDE DEF R
<1>2. \E i \in S : \A j \in S : ~(<<j, i>> \in R)
  BY <1>1, WFMin
<1>3. \A i, j \in S : ~(<<j, i>> \in R) => i <= j
  BY DEF R
<1> QED
  BY <1>2, <1>3

\* AckChanges accepts every acknowledgment a worker makes: cleanup, however
\* it interleaves with the delivery, leaves the delivered row in the journal.
THEOREM AckIsAccepted == Spec => []AckNeverRefused
<1>1. IndInv => AckNeverRefused
  <2> SUFFICES ASSUME IndInv, NEW o \in Outputs, worker[o] = "ack"
               PROVE  \E i \in batch[o] : Current(o, i) /\ AckAccepted(i)
    BY DEF AckNeverRefused
  <2>1. batch[o] \in SUBSET Nat /\ batch[o] # {}
    BY DEF IndInv, TypeOK, BatchIsPrefix
  <2>2. PICK i \in batch[o] : \A j \in batch[o] : i <= j
    BY <2>1, LeastId
  <2>3. i \in Nat /\ i \in Ids /\ 0 < i
    BY <2>1 DEF IndInv, BatchIsPrefix, IdsIssued
  <2>4. AckAccepted(i)
    BY <2>3 DEF AckAccepted, Ids
  <2> QED
    BY <2>2, <2>4 DEF Current
<1> QED
  BY <1>1, IndInvAlways, PTL

-----------------------------------------------------------------------------
(* The refinement of the abstract outbox.                                  *)

LEMMA WriteRefines ==
  ASSUME IndInv, Write
  PROVE  OutboxView!Append \/ OutboxView!Forget
<1>1. /\ handled' = handled
      /\ owed' = [o \in Outputs |-> IF cursors[o] # None THEN owed[o] \cup NewIds ELSE owed[o]]
  BY DEF Write, NewIds
<1>2. cursors' = cursors /\ Registered' = Registered
  BY WriteIds DEF Registered
<1>3. \A o \in Outputs : o \in Registered <=> cursors[o] # None
  BY DEF Registered
<1>4. \A i \in Ids : i \in Nat /\ i <= lastId
  BY DEF IndInv, TypeOK, StoreTypeOK, Change, IdsIssued, Ids
<1>5. lastId \in Nat
  BY DEF IndInv, TypeOK, StoreTypeOK
<1>6. CASE Appends /\ Ids' = Ids \cup NewIds /\ \A i \in NewIds : i \in Nat /\ lastId < i /\ i <= lastId'
  <2>1. Ids' \ Ids = NewIds
    BY <1>4, <1>5, <1>6
  <2>2. lastId' >= lastId
    BY <1>6 DEF Appends
  <2>3. owed' = [o \in Outputs |-> IF o \in Registered THEN owed[o] \cup (Ids' \ Ids) ELSE owed[o]]
    BY <1>1, <1>3, <2>1
  <2> QED
    BY <1>1, <1>2, <1>6, <2>1, <2>2, <2>3 DEF OutboxView!Append, Ids
<1>7. CASE /\ Removes /\ NewIds = {} /\ Ids' \subseteq Ids
           /\ \A i \in Ids \ Ids' : AckedByAll(i)
  <2>1. owed' = owed
    BY <1>1, <1>7 DEF IndInv, TypeOK
  <2>2. ASSUME NEW o \in Registered, NEW i \in owed[o], i \notin handled[o]
        PROVE  i \in Ids'
    <3>1. o \in Outputs /\ cursors[o] # None
      BY DEF Registered
    <3>2. i \in Nat /\ cursors[o].acked \in Nat
      BY <3>1 DEF IndInv, TypeOK, StoreTypeOK, Cursor
    <3>3. ~(i <= cursors[o].acked)
      BY <2>2, <3>1 DEF IndInv, CursorSeparates
    <3>4. i > cursors[o].acked
      BY <3>2, <3>3
    <3>5. i \in Ids
      BY <3>1, <3>4 DEF IndInv, CursorSeparates
    <3> QED
      BY <3>3, <3>5, <1>7 DEF AckedByAll
  <2>3. lastId' = lastId
    BY <1>7 DEF Removes
  <2> QED
    BY <1>1, <1>2, <1>7, <2>1, <2>2, <2>3 DEF OutboxView!Forget, Ids
<1> QED
  BY <1>6, <1>7, WriteIds

\* A success of the current change is the next delivery of the outbox.
LEMMA DeliverRefines ==
  ASSUME IndInv, NEW o \in Outputs, NEW i \in batch[o], HandleOk(o, i) \/ LateSuccess(o, i)
  PROVE  OutboxView!Deliver(o)
<1>1. /\ Current(o, i)
      /\ handled' = [handled EXCEPT ![o] = @ \cup {i}]
      /\ UNCHANGED <<changes, lastId, cursors, owed>>
  BY DEF HandleOk, LateSuccess, storeVars
<1>2. /\ cursors[o] # None
      /\ i \in owed[o]
      /\ \A j \in owed[o] : j < i => j \in handled[o]
  BY <1>1, CurrentIsNext
<1>3. o \in Registered /\ Registered' = Registered
  BY <1>1, <1>2 DEF Registered
<1> QED
  BY <1>1, <1>2, <1>3 DEF OutboxView!Deliver

LEMMA StartRefines ==
  ASSUME IndInv, NEW enabled \in SUBSET Outputs, NEW typeOf \in [Outputs -> OutputTypes],
         Start(enabled, typeOf)
  PROVE  OutboxView!Reconfigure
<1>1. /\ cursors' = SyncOutputs(enabled, typeOf)
      /\ owed' = [o \in Outputs |->
                    IF Keeps(o, enabled, typeOf) THEN owed[o]
                    ELSE IF o \in enabled THEN Ids ELSE {}]
      /\ handled' = [o \in Outputs |-> IF Keeps(o, enabled, typeOf) THEN handled[o] ELSE {}]
      /\ UNCHANGED <<changes, lastId>>
  BY DEF Start, Ids
<1>2. Registered' \subseteq Outputs
  BY DEF Registered
<1>3. \A o \in Outputs : [type |-> typeOf[o], acked |-> 0] \in Cursor
  BY DEF Cursor
<1>4. \A o \in Outputs : o \in Registered' <=> o \in enabled
  BY <1>1, <1>3, NoneIsNoValue DEF Registered, SyncOutputs
<1>5. \A o \in Outputs :
        /\ Keeps(o, enabled, typeOf) =>
             o \in Registered /\ o \in enabled /\ owed'[o] = owed[o] /\ handled'[o] = handled[o]
        /\ o \in enabled /\ ~Keeps(o, enabled, typeOf) => owed'[o] = Ids /\ handled'[o] = {}
        /\ o \notin enabled => owed'[o] = {} /\ handled'[o] = {}
  BY <1>1 DEF Keeps, Registered
<1>6. owed' = [o \in Outputs |-> owed'[o]] /\ handled' = [o \in Outputs |-> handled'[o]]
  BY <1>1
<1> QED
  BY <1>1, <1>2, <1>4, <1>5, <1>6 DEF OutboxView!Reconfigure, Ids

LEMMA StepRefines ==
  ASSUME IndInv, [Next]_vars
  PROVE  [OutboxView!Next]_(OutboxView!vars)
<1> DEFINE Quiet == UNCHANGED <<changes, lastId, owed, handled>> /\ Registered' = Registered
<1>1. Quiet => UNCHANGED OutboxView!vars
  BY DEF OutboxView!vars
<1>2. ASSUME NEW o \in Outputs, WorkerNext(o)
      PROVE  Quiet \/ OutboxView!Deliver(o)
  <2>1. CASE Poll(o) \/ PollFails(o) \/ HandleError(o) \/ HandleTimeout(o) \/ LateError(o)
             \/ AckFails(o) \/ ProbeTimer(o) \/ StopWorker(o)
    BY <2>1 DEF Poll, PollFails, HandleError, HandleTimeout, LateError, AckFails, ProbeTimer,
       StopWorker, storeVars, history, Registered
  <2>2. ASSUME NEW i \in batch[o], AckOk(o, i)
        PROVE  Quiet
    <3>1. UNCHANGED <<changes, lastId, owed, handled>> /\ cursors' = AckChanges(o, i)
      BY <2>2 DEF AckOk, history
    <3>2. cursors[o] # None /\ cursors[o] \in Cursor
      BY <2>2 DEF IndInv, BatchIsPrefix, TypeOK, StoreTypeOK
    <3>3. i \in Nat
      BY <2>2 DEF IndInv, TypeOK
    <3>4. cursors'[o] \in Cursor
      BY <3>1, <3>2, <3>3 DEF AckChanges, Larger, Cursor, IndInv, TypeOK, StoreTypeOK
    <3>5. \A p \in Outputs : p # o => cursors'[p] = cursors[p]
      BY <3>1 DEF AckChanges, IndInv, TypeOK, StoreTypeOK
    <3> QED
      BY <3>1, <3>2, <3>4, <3>5, NoneIsNoValue DEF Registered
  <2> QED
    BY <1>2, <2>1, <2>2, DeliverRefines DEF WorkerNext
<1>3. CASE Clock \/ Stop \/ Exit \/ UNCHANGED vars
  BY <1>1, <1>3 DEF Clock, Tick, Stop, Exit, vars, storeVars, history, Registered
<1> HIDE DEF Quiet
<1> QED
  BY <1>1, <1>2, <1>3, WriteRefines, StartRefines DEF Next, OutboxView!Next

\* The store, its cursors and its workers implement the abstract outbox:
\* in-order, at-least-once delivery to every member, and no entry leaves the
\* log while a member still waits for it.
THEOREM Refinement == Spec => ImplementsOutbox
<1>1. Init => OutboxView!Init
  BY DEF Init, StoreInit, OutboxView!Init, Registered
<1> QED
  BY <1>1, StepRefines, IndInvAlways, PTL DEF Spec, OutboxView!Spec, ImplementsOutbox
=============================================================================
