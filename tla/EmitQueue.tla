----------------------------- MODULE EmitQueue ------------------------------
(***************************************************************************)
(* The durable hand-over of events from sources to the store               *)
(* (internal/plugin/manager.go): Emit queues an event under queueMu and    *)
(* waits for its completion, one ingest worker takes events from the       *)
(* queue, and shutdown drains it.  Sources are not trusted: one may be in  *)
(* Emit, or call it again, at any moment of the shutdown, because the      *)
(* manager waits for a source only for a bounded time.                     *)
(***************************************************************************)
EXTENDS Naturals, Sequences

CONSTANTS
  Sources,    \* the source goroutines that call Emit, one call at a time
  Capacity,   \* slots of eventQueue
  MaxEmits,   \* bound: Emit calls per source
  Free        \* queueMu is not held

ASSUME QueueConstants ==
  /\ Capacity \in Nat \ {0}
  /\ MaxEmits \in Nat
  /\ Free \notin Sources

VARIABLES
  phase,      \* how far Run has got
  accepting,  \* the flag Emit reads under queueMu
  holder,     \* the source that holds queueMu across its send, or Free
  queue,      \* eventQueue: the sources whose event is queued, in order
  caller,     \* where each source's current Emit call is
  worker,     \* where the ingest worker is
  current,    \* the source whose event the worker has taken, or Free
  done,       \* the completion channel of each source's current call
  persisted,  \* history: the outcome of the current call's transaction
  answer,     \* what the source's last finished Emit call returned
  emits       \* Emit calls made so far

vars == <<phase, accepting, holder, queue, caller, worker, current, done,
          persisted, answer, emits>>

Phases == {"running", "sources", "ingestion", "stopped"}
CallerStates == {"idle", "locking", "sending", "waiting"}
WorkerStates == {"loop", "process", "drain", "draining", "drainProcess",
                 "recheck", "sweep", "exited"}
Results == {"none", "nil", "error"}

QueueTypeOK ==
  /\ phase \in Phases
  /\ accepting \in BOOLEAN
  /\ holder \in Sources \cup {Free}
  /\ queue \in Seq(Sources)
  /\ caller \in [Sources -> CallerStates]
  /\ worker \in WorkerStates
  /\ current \in Sources \cup {Free}
  /\ done \in [Sources -> Results]
  /\ persisted \in [Sources -> BOOLEAN]
  /\ answer \in [Sources -> Results]
  /\ emits \in [Sources -> Nat]

-----------------------------------------------------------------------------
(* Emit.                                                                   *)

\* The call returns with the given result.
Return(s, result) ==
  /\ caller' = [caller EXCEPT ![s] = "idle"]
  /\ answer' = [answer EXCEPT ![s] = result]

\* A call whose context is still alive goes for the lock.
EmitBegin(s) ==
  /\ caller[s] = "idle"
  /\ emits[s] < MaxEmits
  /\ emits' = [emits EXCEPT ![s] = @ + 1]
  /\ caller' = [caller EXCEPT ![s] = "locking"]
  /\ done' = [done EXCEPT ![s] = "none"]
  /\ persisted' = [persisted EXCEPT ![s] = FALSE]
  /\ answer' = [answer EXCEPT ![s] = "none"]
  /\ UNCHANGED <<phase, accepting, holder, queue, worker, current>>

\* A context that is done before the call takes the lock.
EmitCancelled(s) ==
  /\ caller[s] = "idle"
  /\ emits[s] < MaxEmits
  /\ emits' = [emits EXCEPT ![s] = @ + 1]
  /\ done' = [done EXCEPT ![s] = "none"]
  /\ persisted' = [persisted EXCEPT ![s] = FALSE]
  /\ Return(s, "error")
  /\ UNCHANGED <<phase, accepting, holder, queue, worker, current>>

\* Under queueMu: once shutdown has begun the event is rejected.
Rejected(s) ==
  /\ caller[s] = "locking"
  /\ holder = Free
  /\ ~accepting
  /\ Return(s, "error")
  /\ UNCHANGED <<phase, accepting, holder, queue, worker, current, done, persisted, emits>>

\* Mutant: the flag is not looked at again under the lock.
AdmittedAlways(s) ==
  /\ caller[s] = "locking"
  /\ holder = Free
  /\ holder' = s
  /\ caller' = [caller EXCEPT ![s] = "sending"]
  /\ UNCHANGED <<phase, accepting, queue, worker, current, done, persisted, answer, emits>>

Admitted(s) ==
  /\ caller[s] = "locking"
  /\ holder = Free
  /\ accepting
  /\ holder' = s
  /\ caller' = [caller EXCEPT ![s] = "sending"]
  /\ UNCHANGED <<phase, accepting, queue, worker, current, done, persisted, answer, emits>>

\* The select of Emit, with queueMu held: a free slot, ...
Send(s) ==
  /\ caller[s] = "sending"
  /\ Len(queue) < Capacity
  /\ queue' = Append(queue, s)
  /\ holder' = Free
  /\ caller' = [caller EXCEPT ![s] = "waiting"]
  /\ UNCHANGED <<phase, accepting, worker, current, done, persisted, answer, emits>>

\* ... or the emitWait timer, or the caller's context.
SendGivesUp(s) ==
  /\ caller[s] = "sending"
  /\ holder' = Free
  /\ Return(s, "error")
  /\ UNCHANGED <<phase, accepting, queue, worker, current, done, persisted, emits>>

\* Mutant: the caller's context also ends the wait for the completion.
CompletedOrCancelled(s) ==
  /\ caller[s] = "waiting"
  /\ Return(s, IF done[s] = "none" THEN "error" ELSE done[s])
  /\ UNCHANGED <<phase, accepting, holder, queue, worker, current, done, persisted, emits>>

\* From here on only the completion ends the call.
Completed(s) ==
  /\ caller[s] = "waiting"
  /\ done[s] # "none"
  /\ Return(s, done[s])
  /\ UNCHANGED <<phase, accepting, holder, queue, worker, current, done, persisted, emits>>

-----------------------------------------------------------------------------
(* The ingest worker: ingestLoop, processEvent, drainQueue, failQueued.    *)

ControlCancelled == phase \in {"ingestion", "stopped"}

\* The two ready cases of a select are equally possible.
Take ==
  /\ worker \in {"loop", "draining"}
  /\ queue # <<>>
  /\ current' = Head(queue)
  /\ queue' = Tail(queue)
  /\ worker' = IF worker = "loop" THEN "process" ELSE "drainProcess"
  /\ UNCHANGED <<phase, accepting, holder, caller, done, persisted, answer, emits>>

\* ingestFn returns: the transaction committed, or it failed as a whole.
Process(ok) ==
  /\ worker \in {"process", "drainProcess"}
  /\ done' = [done EXCEPT ![current] = IF ok THEN "nil" ELSE "error"]
  /\ persisted' = [persisted EXCEPT ![current] = ok]
  /\ current' = Free
  /\ worker' = IF worker = "process" THEN "loop" ELSE "recheck"
  /\ UNCHANGED <<phase, accepting, holder, queue, caller, answer, emits>>

BeginDrain ==
  /\ worker = "loop"
  /\ ControlCancelled
  /\ worker' = "drain"
  /\ UNCHANGED <<phase, accepting, holder, queue, caller, current, done, persisted, answer, emits>>

\* Empty, looked at under queueMu: before the first event and after each.
CheckEmpty ==
  /\ worker \in {"drain", "recheck"}
  /\ holder = Free
  /\ worker' = IF queue = <<>> THEN "exited" ELSE "draining"
  /\ UNCHANGED <<phase, accepting, holder, queue, caller, current, done, persisted, answer, emits>>

\* The drain timer; the worker stops taking events and goes for the lock.
DrainTimeout ==
  /\ worker = "draining"
  /\ worker' = "sweep"
  /\ UNCHANGED <<phase, accepting, holder, queue, caller, current, done, persisted, answer, emits>>

Queued(s) == \E i \in DOMAIN queue : queue[i] = s

\* Mutant: the queue is emptied and nobody is told.
SweepSilently ==
  /\ worker = "sweep"
  /\ holder = Free
  /\ queue' = <<>>
  /\ worker' = "exited"
  /\ UNCHANGED <<phase, accepting, holder, caller, current, done, persisted, answer, emits>>

\* failQueued under queueMu.
Sweep ==
  /\ worker = "sweep"
  /\ holder = Free
  /\ done' = [s \in Sources |-> IF Queued(s) THEN "error" ELSE done[s]]
  /\ queue' = <<>>
  /\ worker' = "exited"
  /\ UNCHANGED <<phase, accepting, holder, caller, current, persisted, answer, emits>>

-----------------------------------------------------------------------------
(* Run, after its context is cancelled.  Each stopGroup ends when the      *)
(* group has stopped or its timeout has passed, so it restrains nothing.   *)

StopAccepting ==
  /\ phase = "running"
  /\ phase' = "sources"
  /\ accepting' = FALSE
  /\ UNCHANGED <<holder, queue, caller, worker, current, done, persisted, answer, emits>>

CancelIngest ==
  /\ phase = "sources"
  /\ phase' = "ingestion"
  /\ UNCHANGED <<accepting, holder, queue, caller, worker, current, done, persisted, answer, emits>>

RunReturns ==
  /\ phase = "ingestion"
  /\ phase' = "stopped"
  /\ UNCHANGED <<accepting, holder, queue, caller, worker, current, done, persisted, answer, emits>>

-----------------------------------------------------------------------------

Init ==
  /\ phase = "running"
  /\ accepting = TRUE
  /\ holder = Free
  /\ queue = <<>>
  /\ caller = [s \in Sources |-> "idle"]
  /\ worker = "loop"
  /\ current = Free
  /\ done = [s \in Sources |-> "none"]
  /\ persisted = [s \in Sources |-> FALSE]
  /\ answer = [s \in Sources |-> "none"]
  /\ emits = [s \in Sources |-> 0]

CallerNext(s) ==
  \/ EmitBegin(s)
  \/ EmitCancelled(s)
  \/ Rejected(s)
  \/ Admitted(s)
  \/ Send(s)
  \/ SendGivesUp(s)
  \/ Completed(s)

WorkerNext ==
  \/ Take
  \/ \E ok \in BOOLEAN : Process(ok)
  \/ BeginDrain
  \/ CheckEmpty
  \/ DrainTimeout
  \/ Sweep

Next ==
  \/ \E s \in Sources : CallerNext(s)
  \/ WorkerNext
  \/ StopAccepting
  \/ CancelIngest
  \/ RunReturns

Spec == Init /\ [][Next]_vars

\* The goroutines are scheduled, the emitWait timer fires, a transaction ends
\* (busy_timeout bounds it), and sync.Mutex lets no waiter starve.
Fairness ==
  /\ \A s \in Sources :
       /\ SF_vars(Rejected(s) \/ Admitted(s))
       /\ WF_vars(Send(s) \/ SendGivesUp(s))
       /\ WF_vars(Completed(s))
  /\ WF_vars(Take \/ DrainTimeout)
  /\ WF_vars(\E ok \in BOOLEAN : Process(ok))
  /\ WF_vars(BeginDrain)
  /\ SF_vars(CheckEmpty \/ Sweep)

FairSpec == Spec /\ Fairness

-----------------------------------------------------------------------------
(* Properties.                                                             *)

\* The answer of Emit is the truth about its event: nil only after the
\* transaction committed, and an error only for an event that was not
\* persisted and never will be, so that the source may retry it.
AnswerIsTruth ==
  \A s \in Sources :
    /\ answer[s] = "nil" => persisted[s]
    /\ answer[s] = "error" => ~persisted[s] /\ ~Queued(s) /\ current # s

\* No event is left in the queue without a completion: once the worker has
\* exited, whatever was queued is completed and nobody can queue any more.
NothingStranded ==
  worker = "exited" =>
    /\ queue = <<>>
    /\ \A s \in Sources :
         /\ caller[s] # "sending"
         /\ caller[s] = "waiting" => done[s] # "none"

\* No call of Emit hangs: a full queue, a worker that wants the lock its
\* caller holds, and a shutdown at any moment all let it return.
EmitReturns ==
  \A s \in Sources : caller[s] # "idle" ~> caller[s] = "idle"

-----------------------------------------------------------------------------
(* The inductive strengthening of the safety properties.                   *)

DrainStates == {"drain", "draining", "drainProcess", "recheck", "sweep", "exited"}

\* The lock and the flag: who sends holds queueMu, and the worker drains only
\* after the flag was cleared.
LockDiscipline ==
  /\ \A s \in Sources : caller[s] = "sending" <=> holder = s
  /\ accepting <=> phase = "running"
  /\ worker \in DrainStates => ControlCancelled
  /\ worker = "exited" => queue = <<>> /\ holder = Free
  /\ worker \in {"process", "drainProcess"} <=> current # Free

\* An event is in one place: in the queue once, with the worker, or completed.
OnePlace ==
  /\ \A i, j \in DOMAIN queue : queue[i] = queue[j] => i = j
  /\ \A s \in Sources :
       /\ Queued(s) => caller[s] = "waiting" /\ done[s] = "none" /\ current # s
       /\ current = s => caller[s] = "waiting" /\ done[s] = "none"
       /\ caller[s] = "waiting" /\ done[s] = "none" => Queued(s) \/ current = s

\* The completion channel and the answer carry the outcome.
OutcomeKept ==
  \A s \in Sources :
    /\ done[s] # "nil" => ~persisted[s]
    /\ done[s] = "nil" => persisted[s]
    /\ answer[s] # "none" => caller[s] = "idle"
    /\ answer[s] = "nil" => done[s] = "nil"
    /\ answer[s] = "error" => done[s] # "nil"
    /\ caller[s] \in {"locking", "sending"} => done[s] = "none"

QueueInv == QueueTypeOK /\ LockDiscipline /\ OnePlace /\ OutcomeKept
=============================================================================
