------------------------------ MODULE Delivery ------------------------------
(***************************************************************************)
(* The output workers on top of the store: each enabled output has one     *)
(* worker that polls the journal behind its cursor, hands the changes to   *)
(* its plugin one at a time and acknowledges each after a timely success   *)
(* (internal/plugin/output_worker.go).  The process may crash or be        *)
(* stopped at any step and starts again with a possibly different set of   *)
(* enabled outputs.  The timers that pace polling are left to fairness;    *)
(* the probe timer of a suspended worker is a flag.                        *)
(***************************************************************************)
EXTENDS EventStore

CONSTANTS
  PollBatch,         \* journal rows fetched per poll
  FailureThreshold,  \* consecutive failures that suspend a worker; 0: never
  MaxExits           \* bound: how often the process crashes or is stopped

ASSUME WorkerConstants ==
  /\ PollBatch \in Nat \ {0}
  /\ FailureThreshold \in Nat
  /\ MaxExits \in Nat

VARIABLES
  up,         \* the process is running
  stopping,   \* the workers' context has been cancelled
  exits,      \* how often the process has ended
  worker,     \* where each worker is
  batch,      \* ids of the fetched changes not yet acknowledged
  failures,   \* consecutive failures, counted up to the threshold
  suspended,  \* the worker only probes
  probe,      \* the probe timer of a suspended worker has fired
  owed,       \* history: ids each registered output is entitled to
  handled     \* history: ids whose Handle call returned success to o

workerVars == <<worker, batch, failures, suspended, probe>>
processVars == <<up, stopping, exits>>
history == <<owed, handled>>
vars == <<storeVars, processVars, workerVars, history>>

WorkerStates == {"off", "idle", "handle", "stuck", "ack"}

TypeOK ==
  /\ StoreTypeOK
  /\ up \in BOOLEAN
  /\ stopping \in BOOLEAN
  /\ exits \in Nat
  /\ worker \in [Outputs -> WorkerStates]
  /\ batch \in [Outputs -> SUBSET Nat]
  /\ failures \in [Outputs -> Nat]
  /\ suspended \in [Outputs -> BOOLEAN]
  /\ probe \in [Outputs -> BOOLEAN]
  /\ owed \in [Outputs -> SUBSET Nat]
  /\ handled \in [Outputs -> SUBSET Nat]

-----------------------------------------------------------------------------
(* Bookkeeping shared by the worker's steps.                               *)

\* Mutant: the batch is worked off from its end.
CurrentNewest(o, i) == i \in batch[o] /\ \A j \in batch[o] : i >= j

\* The change the worker is at: the lowest id of what is left of the batch.
Current(o, i) == i \in batch[o] /\ \A j \in batch[o] : i <= j

ThresholdReached(n) == FailureThreshold > 0 /\ n >= FailureThreshold

\* One failure of the output; reaching the threshold suspends the worker
\* until a delivery succeeds.
OnFailure(o) ==
  LET n == IF failures[o] < FailureThreshold THEN failures[o] + 1 ELSE failures[o]
  IN /\ failures' = [failures EXCEPT ![o] = n]
     /\ suspended' = [suspended EXCEPT ![o] = @ \/ ThresholdReached(n)]

OnSuccess(o) ==
  /\ failures' = [failures EXCEPT ![o] = 0]
  /\ suspended' = [suspended EXCEPT ![o] = FALSE]
  /\ probe' = [probe EXCEPT ![o] = FALSE]

\* The rest of the batch is dropped; it is fetched again by the next poll.
GiveUpBatch(o) ==
  /\ worker' = [worker EXCEPT ![o] = "idle"]
  /\ batch' = [batch EXCEPT ![o] = {}]

-----------------------------------------------------------------------------
(* pollDeliveries and deliver.                                             *)

\* Mutant: a suspended worker never polls.
MayPollUnlessSuspended(o) == worker[o] = "idle" /\ ~stopping /\ ~suspended[o]

\* A suspended worker polls only when its probe is due.
MayPoll(o) ==
  /\ worker[o] = "idle"
  /\ ~stopping
  /\ suspended[o] => probe[o]

\* probeDue schedules the next probe as it grants this one.
UseProbe(o) == probe' = [probe EXCEPT ![o] = FALSE]

\* The rows fetched are readable; Handle starts with the first of them.
Poll(o) ==
  LET rows == PollChanges(o, PollBatch)
  IN /\ MayPoll(o)
     /\ \A c \in rows : ValidateJournalChange(c)
     /\ rows # {} \/ suspended[o]
     /\ batch' = [batch EXCEPT ![o] = {c.id : c \in rows}]
     /\ worker' = [worker EXCEPT ![o] = IF rows = {} THEN "idle" ELSE "handle"]
     /\ UseProbe(o)
     /\ UNCHANGED <<storeVars, processVars, history, failures, suspended>>

\* The query fails, or one of the rows fetched is corrupt.
PollFails(o) ==
  /\ MayPoll(o)
  /\ OnFailure(o)
  /\ UseProbe(o)
  /\ UNCHANGED <<storeVars, processVars, history, worker, batch>>

\* Handle returns nil in time.
HandleOk(o, i) ==
  /\ worker[o] = "handle"
  /\ Current(o, i)
  /\ worker' = [worker EXCEPT ![o] = "ack"]
  /\ handled' = [handled EXCEPT ![o] = @ \cup {i}]
  /\ UNCHANGED <<storeVars, processVars, batch, failures, suspended, probe, owed>>

\* Handle returns an error or panics.
HandleError(o) ==
  /\ worker[o] = "handle"
  /\ OnFailure(o)
  /\ GiveUpBatch(o)
  /\ UNCHANGED <<probe, storeVars, processVars, history>>

\* The call outlives its context: one failure, and the worker waits for it.
HandleTimeout(o) ==
  /\ worker[o] = "handle"
  /\ OnFailure(o)
  /\ worker' = [worker EXCEPT ![o] = "stuck"]
  /\ UNCHANGED <<probe, storeVars, processVars, history, batch>>

\* The late result is absorbed: neither acknowledged nor counted again.
LateSuccess(o, i) ==
  /\ worker[o] = "stuck"
  /\ Current(o, i)
  /\ handled' = [handled EXCEPT ![o] = @ \cup {i}]
  /\ GiveUpBatch(o)
  /\ UNCHANGED <<storeVars, processVars, owed, failures, suspended, probe>>

\* A late error, or a shutdown that abandons the call.
LateError(o) ==
  /\ worker[o] = "stuck"
  /\ GiveUpBatch(o)
  /\ UNCHANGED <<storeVars, processVars, history, failures, suspended, probe>>

\* The cursor moves to the delivered change; the batch goes on.
AckOk(o, i) ==
  /\ worker[o] = "ack"
  /\ Current(o, i)
  /\ AckAccepted(i)
  /\ cursors' = AckChanges(o, i)
  /\ batch' = [batch EXCEPT ![o] = @ \ {i}]
  /\ worker' = [worker EXCEPT ![o] = IF batch[o] = {i} THEN "idle" ELSE "handle"]
  /\ OnSuccess(o)
  /\ UNCHANGED <<now, events, changes, lastId, ingest, maint, maintNow, processVars, history>>

\* The store refuses or fails: delivered, but not acknowledged.
AckFails(o) ==
  /\ worker[o] = "ack"
  /\ OnFailure(o)
  /\ GiveUpBatch(o)
  /\ UNCHANGED <<probe, storeVars, processVars, history>>

ProbeTimer(o) ==
  /\ worker[o] # "off"
  /\ suspended[o]
  /\ ~probe[o]
  /\ probe' = [probe EXCEPT ![o] = TRUE]
  /\ UNCHANGED <<storeVars, processVars, history, worker, batch, failures, suspended>>

-----------------------------------------------------------------------------
(* The life of the process.                                                *)

\* The volatile state of a process that does not run.
WorkersOff ==
  /\ worker' = [o \in Outputs |-> "off"]
  /\ batch' = [o \in Outputs |-> {}]
  /\ failures' = [o \in Outputs |-> 0]
  /\ suspended' = [o \in Outputs |-> FALSE]
  /\ probe' = [o \in Outputs |-> FALSE]

\* Same id and type: the consumer keeps its cursor.
Keeps(o, enabled, typeOf) ==
  o \in enabled /\ cursors[o] # None /\ cursors[o].type = typeOf[o]

\* Startup: SyncOutputs runs before the workers start.
Start(enabled, typeOf) ==
  /\ ~up
  /\ up' = TRUE
  /\ cursors' = SyncOutputs(enabled, typeOf)
  /\ worker' = [o \in Outputs |-> IF o \in enabled THEN "idle" ELSE "off"]
  /\ owed' = [o \in Outputs |->
                IF Keeps(o, enabled, typeOf) THEN owed[o]
                ELSE IF o \in enabled THEN {c.id : c \in changes} ELSE {}]
  /\ handled' = [o \in Outputs |-> IF Keeps(o, enabled, typeOf) THEN handled[o] ELSE {}]
  /\ UNCHANGED <<now, events, changes, lastId, ingest, maint, maintNow,
                 stopping, exits, batch, failures, suspended, probe>>

\* SIGTERM reaches the workers; each leaves its loop when it is idle.
Stop ==
  /\ up
  /\ ~stopping
  /\ exits < MaxExits
  /\ stopping' = TRUE
  /\ UNCHANGED <<storeVars, up, exits, workerVars, history>>

StopWorker(o) ==
  /\ stopping
  /\ worker[o] = "idle"
  /\ worker' = [worker EXCEPT ![o] = "off"]
  /\ UNCHANGED <<storeVars, processVars, batch, failures, suspended, probe, history>>

\* The process ends: after a stop, with the workers gone or given up on, or
\* by a crash at any step.  Transactions in progress roll back.
Exit ==
  /\ up
  /\ exits < MaxExits
  /\ up' = FALSE
  /\ stopping' = FALSE
  /\ exits' = exits + 1
  /\ WorkersOff
  /\ ingest' = None
  /\ maint' = "idle"
  /\ maintNow' = 0
  /\ UNCHANGED <<now, events, changes, lastId, cursors, history>>

\* A step of the ingest worker or of the maintenance loop.  A row it appends
\* is owed to every registered output.
Write ==
  /\ up
  /\ WriterNext
  /\ owed' = [o \in Outputs |->
                IF cursors[o] # None
                THEN owed[o] \cup {c.id : c \in changes' \ changes}
                ELSE owed[o]]
  /\ UNCHANGED <<processVars, workerVars, handled>>

Clock == Tick /\ UNCHANGED <<processVars, workerVars, history>>

Init ==
  /\ StoreInit
  /\ up = FALSE
  /\ stopping = FALSE
  /\ exits = 0
  /\ worker = [o \in Outputs |-> "off"]
  /\ batch = [o \in Outputs |-> {}]
  /\ failures = [o \in Outputs |-> 0]
  /\ suspended = [o \in Outputs |-> FALSE]
  /\ probe = [o \in Outputs |-> FALSE]
  /\ owed = [o \in Outputs |-> {}]
  /\ handled = [o \in Outputs |-> {}]

WorkerNext(o) ==
  \/ Poll(o)
  \/ PollFails(o)
  \/ \E i \in batch[o] : HandleOk(o, i) \/ LateSuccess(o, i) \/ AckOk(o, i)
  \/ HandleError(o)
  \/ HandleTimeout(o)
  \/ LateError(o)
  \/ AckFails(o)
  \/ ProbeTimer(o)
  \/ StopWorker(o)

Next ==
  \/ Write
  \/ Clock
  \/ \E o \in Outputs : WorkerNext(o)
  \/ \E enabled \in SUBSET Outputs, typeOf \in [Outputs -> OutputTypes] : Start(enabled, typeOf)
  \/ Stop
  \/ Exit

Spec == Init /\ [][Next]_vars

-----------------------------------------------------------------------------
(* Fairness: the process is started again, the workers' loops run, timers  *)
(* fire, a Handle call returns sooner or later, and an output or database  *)
(* that gets a chance again and again is not down every time.  Nothing is  *)
(* assumed about sources, maintenance, crashes or reconfiguration.         *)
Fairness ==
  /\ WF_vars(\E enabled \in SUBSET Outputs, typeOf \in [Outputs -> OutputTypes] : Start(enabled, typeOf))
  /\ WF_vars(stopping /\ Exit)
  /\ \A o \in Outputs :
       /\ SF_vars(Poll(o))
       /\ SF_vars(\E i \in batch[o] : HandleOk(o, i))
       /\ WF_vars(LateError(o) \/ \E i \in batch[o] : LateSuccess(o, i))
       /\ SF_vars(\E i \in batch[o] : AckOk(o, i))
       /\ WF_vars(ProbeTimer(o))

FairSpec == Spec /\ Fairness

-----------------------------------------------------------------------------
(* Properties.                                                             *)

\* At-least-once: a change owed to an enabled output was handled
\* successfully, or it is still in the journal in front of its cursor.
\* Crashes, timeouts, retention cleanup and the other outputs cannot lose it.
NothingLost ==
  \A o \in Outputs : cursors[o] # None =>
    \A i \in owed[o] :
      \/ i \in handled[o]
      \/ i > cursors[o].acked /\ \E c \in changes : c.id = i

\* Journal order: no output sees a change succeed before the ones it is owed
\* with lower ids, whatever failed, timed out or was redelivered.
OrderedDelivery ==
  \A o \in Outputs : \A i, j \in owed[o] :
    i < j /\ j \in handled[o] => i \in handled[o]

\* The range check of AckChanges never refuses a worker: the change it has
\* just delivered is still in the journal, whatever cleanup did meanwhile.
AckNeverRefused ==
  \A o \in Outputs : worker[o] = "ack" =>
    \E i \in batch[o] : Current(o, i) /\ AckAccepted(i)

\* A change the output has acknowledged is never handed to it again, also
\* not after a restart: redelivery happens only before the acknowledgment.
NoRedeliveryAfterAck ==
  \A o \in Outputs : worker[o] \in {"handle", "stuck"} =>
    \A i \in batch[o] : i > cursors[o].acked

\* Every owed change is handled in the end, or its output was disabled or
\* replaced: no suspension, retry or restart pattern stalls an output.
EventuallyHandled ==
  \A o \in Outputs : \A i \in 1 .. MaxChanges :
    i \in owed[o] ~> (i \in handled[o] \/ i \notin owed[o])

-----------------------------------------------------------------------------
(* The inductive strengthening of the safety properties.                   *)

Ids == {c.id : c \in changes}

\* The ids in use are finitely many and lie within what was issued.
IdsIssued ==
  /\ IsFiniteSet(changes)
  /\ \A i \in Ids : 0 < i /\ i <= lastId
  /\ \A o \in Outputs : \A i \in owed[o] : i <= lastId

\* Only enabled outputs are owed anything, and only owed changes are handled.
OnlyOwed ==
  \A o \in Outputs :
    /\ handled[o] \subseteq owed[o]
    /\ cursors[o] = None => owed[o] = {}

\* The cursor separates what was handled from what is still in the journal,
\* and everything in the journal in front of it is owed.
CursorSeparates ==
  \A o \in Outputs : cursors[o] # None =>
    /\ \A i \in owed[o] : i <= cursors[o].acked => i \in handled[o]
    /\ \A i \in owed[o] : i > cursors[o].acked => i \in Ids
    /\ \A i \in Ids : i > cursors[o].acked => i \in owed[o]

\* A batch is a prefix of what is pending, held only by a busy worker.
BatchIsPrefix ==
  \A o \in Outputs :
    /\ worker[o] \in {"off", "idle"} <=> batch[o] = {}
    /\ worker[o] # "off" => up /\ cursors[o] # None
    /\ \A i \in batch[o] :
         /\ i \in Ids
         /\ i > cursors[o].acked
         /\ \A j \in Ids \ batch[o] : j > cursors[o].acked => i < j
    /\ worker[o] = "ack" => \A i \in batch[o] : Current(o, i) => i \in handled[o]

\* No cursor runs ahead of the ids that were issued.
AckWithinJournal ==
  \A o \in Outputs : cursors[o] # None => cursors[o].acked <= lastId

IndInv ==
  /\ TypeOK
  /\ IdsIssued
  /\ AckWithinJournal
  /\ OnlyOwed
  /\ CursorSeparates
  /\ OrderedDelivery
  /\ BatchIsPrefix

\* The store and its workers implement the abstract ordered outbox.
OutboxView ==
  INSTANCE Outbox WITH
    Consumers <- Outputs,
    log <- {c.id : c \in changes},
    last <- lastId,
    members <- Registered,
    done <- handled

ImplementsOutbox == OutboxView!Spec
=============================================================================
