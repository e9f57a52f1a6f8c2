------------------------------- MODULE Notify -------------------------------
(***************************************************************************)
(* From a hazard transition on the dispatch ingress to a notification:     *)
(* the rule engine with its cached routing matrix and the durable ledger   *)
(* of claimed deliveries (internal/routing/engine.go,                      *)
(* internal/storage/sqlite/routing.go), the action instances with their    *)
(* bounded queues and sequential workers (internal/action), and the order  *)
(* in which main stops them (cmd/warnflux/main.go).  The ingress delivers  *)
(* at least once: any transition may arrive again at any time.             *)
(***************************************************************************)
EXTENDS Naturals, Sequences, FiniteSets

CONSTANTS
  Groups,        \* group ids
  ActionIds,     \* the enabled action instances
  Feeds,         \* sources a cell of the routing matrix can name
  AnySource,     \* the empty source of a fallback cell
  Ranks,         \* severity ranks
  Transitions,   \* hazard transitions: [id, source, rank, type]
  InboxCap,      \* slots of the ingress queue
  QueueCap,      \* slots of an action's queue
  Retries,       \* extra attempts after a failed one
  MaxArrivals,   \* bound: transitions offered to the ingress
  MaxExits,      \* bound: how often the process crashes or is stopped
  NoJob          \* no request is being handled

TransitionTypes == {"new", "updated", "cancelled", "expired"}

ASSUME NotifyConstants ==
  /\ Ranks \subseteq Nat
  /\ AnySource \notin Feeds
  /\ \A t \in Transitions :
       t.source \in Feeds /\ t.rank \in Ranks /\ t.type \in TransitionTypes
  /\ InboxCap \in Nat \ {0}
  /\ QueueCap \in Nat \ {0}
  /\ Retries \in Nat
  /\ MaxArrivals \in Nat
  /\ MaxExits \in Nat

Cell == [source : Feeds \cup {AnySource}, action : ActionIds, min : Ranks]

\* One request: group, action instance and transition, the key of the ledger.
Job == Groups \X ActionIds \X Transitions

ASSUME NoJobIsNoJob == NoJob \notin Job

VARIABLES
  rules,     \* group_actions: the routing matrix of each group
  deleted,   \* groups deleted so far
  ledger,    \* action_fires: the claimed deliveries
  cache,     \* the engine's copy of the routing matrices
  inbox,     \* the ingress queue
  todo,      \* what the engine still has to do for the transition at hand
  claimed,   \* the request the engine has claimed and not yet submitted
  engine,    \* the engine's goroutine: "running" or "stopped"
  queue,     \* the queue of each action instance
  worker,    \* where each instance's worker is
  job,       \* the request each worker handles
  tries,     \* failed attempts at it
  disabled,  \* the plugin ignored its deadline; off until the process ends
  process,   \* "down", "running" or "stopping" (the signal context is done)
  arrivals,  \* transitions offered so far
  exits,     \* process exits so far
  accepted,  \* history: how often Submit accepted each request
  excuses,   \* history: how often the ledger failed or forgot each request
  abandoned  \* history: Execute calls left behind per instance

ledgerVars == <<rules, deleted, ledger>>
engineVars == <<cache, inbox, todo, claimed, engine>>
instanceVars == <<queue, worker, job, tries, disabled, abandoned>>
bounds == <<arrivals, exits>>
vars == <<ledgerVars, engineVars, instanceVars, process, bounds, accepted, excuses>>

WorkerStates == {"off", "loop", "execute", "sleep", "closed"}

NotifyTypeOK ==
  /\ rules \in [Groups -> SUBSET Cell]
  /\ deleted \in SUBSET Groups
  /\ ledger \in SUBSET Job
  /\ cache \in [Groups -> SUBSET Cell]
  /\ inbox \in Seq(Transitions)
  /\ todo \in SUBSET Job
  /\ claimed \in Job \cup {NoJob}
  /\ engine \in {"running", "stopped"}
  /\ queue \in [ActionIds -> Seq(Job)]
  /\ worker \in [ActionIds -> WorkerStates]
  /\ job \in [ActionIds -> Job \cup {NoJob}]
  /\ tries \in [ActionIds -> Nat]
  /\ disabled \in [ActionIds -> BOOLEAN]
  /\ process \in {"down", "running", "stopping"}
  /\ arrivals \in Nat
  /\ exits \in Nat
  /\ accepted \in [Job -> Nat]
  /\ excuses \in [Job -> Nat]
  /\ abandoned \in [ActionIds -> Nat]

-----------------------------------------------------------------------------
(* The web UI edits the rules; the ledger is pruned.                       *)

\* One cell per source and action (the primary key of group_actions).
OneCellEach(cells) ==
  \A c, d \in cells : c.source = d.source /\ c.action = d.action => c = d

SetGroupRouting(g, cells) ==
  /\ process # "down"
  /\ g \notin deleted
  /\ OneCellEach(cells)
  /\ rules' = [rules EXCEPT ![g] = cells]
  /\ UNCHANGED <<deleted, ledger, engineVars, instanceVars, process, bounds, accepted, excuses>>

RowsOf(g) == {x \in ledger : x[1] = g}

Forget(rows) ==
  /\ ledger' = ledger \ rows
  /\ excuses' = [x \in Job |-> IF x \in rows THEN excuses[x] + 1 ELSE excuses[x]]

\* The foreign keys cascade to the cells and to the ledger.
DeleteGroup(g) ==
  /\ process # "down"
  /\ g \notin deleted
  /\ deleted' = deleted \cup {g}
  /\ rules' = [rules EXCEPT ![g] = {}]
  /\ Forget(RowsOf(g))
  /\ UNCHANGED <<engineVars, instanceVars, process, bounds, accepted>>

\* The hourly prune removes the rows older than the retention.
PruneActionFires(rows) ==
  /\ process # "down"
  /\ rows # {}
  /\ Forget(rows)
  /\ UNCHANGED <<rules, deleted, engineVars, instanceVars, process, bounds, accepted>>

-----------------------------------------------------------------------------
(* The ingress and the rule engine.                                        *)

\* A full queue drops the transition; it may arrive again.
Enqueue(t) ==
  /\ process # "down"
  /\ arrivals < MaxArrivals
  /\ arrivals' = arrivals + 1
  /\ inbox' = IF Len(inbox) < InboxCap THEN Append(inbox, t) ELSE inbox
  /\ UNCHANGED <<ledgerVars, cache, todo, claimed, engine, instanceVars, process, exits, accepted, excuses>>

EngineIdle == engine = "running" /\ todo = {} /\ claimed = NoJob

\* refresh: a failed load keeps the previous rules.
Refresh ==
  /\ EngineIdle
  /\ process # "down"
  /\ cache' = rules
  /\ UNCHANGED <<ledgerVars, inbox, todo, claimed, engine, instanceVars, process, bounds, accepted, excuses>>

\* The cells of g for action a that match the source of t.
Matching(g, a, t) ==
  {c \in cache[g] : c.action = a /\ c.source \in {AnySource, t.source}}

\* A source-specific cell wins over the fallback.
Best(g, a, t) ==
  {c \in Matching(g, a, t) : c.source = AnySource => \A d \in Matching(g, a, t) : d = c}

\* What one transition asks for.  Cancellations and expirations are skipped.
Requests(t) ==
  {x \in Job : /\ x[3] = t
               /\ t.type \in {"new", "updated"}
               /\ \E c \in Best(x[1], x[2], t) : t.rank >= c.min}

HandleTransition ==
  /\ EngineIdle
  /\ process # "down"
  /\ inbox # <<>>
  /\ inbox' = Tail(inbox)
  /\ todo' = Requests(Head(inbox))
  /\ UNCHANGED <<ledgerVars, cache, claimed, engine, instanceVars, process, bounds, accepted, excuses>>

\* Mutant: the claim is not stored.
ClaimNewUnstored(x) ==
  /\ claimed = NoJob
  /\ x \in todo /\ x \notin ledger /\ x[1] \notin deleted
  /\ claimed' = x
  /\ UNCHANGED <<ledgerVars, cache, inbox, todo, engine, instanceVars, process, bounds, accepted, excuses>>

\* ClaimActionFire inserts the row: the delivery is ours.
ClaimNew(x) ==
  /\ claimed = NoJob
  /\ x \in todo
  /\ x \notin ledger
  /\ x[1] \notin deleted
  /\ ledger' = ledger \cup {x}
  /\ claimed' = x
  /\ UNCHANGED <<rules, deleted, cache, inbox, todo, engine, instanceVars, process, bounds, accepted, excuses>>

\* The row exists: skipped as already delivered.
ClaimDuplicate(x) ==
  /\ claimed = NoJob
  /\ x \in todo
  /\ x \in ledger
  /\ todo' = todo \ {x}
  /\ UNCHANGED <<ledgerVars, cache, inbox, claimed, engine, instanceVars, process, bounds, accepted, excuses>>

\* A database error, or the foreign key of a group deleted since the last
\* refresh: a ledger failure never suppresses an alert.
ClaimFails(x) ==
  /\ claimed = NoJob
  /\ x \in todo
  /\ claimed' = x
  /\ excuses' = [excuses EXCEPT ![x] = @ + 1]
  /\ UNCHANGED <<ledgerVars, cache, inbox, todo, engine, instanceVars, process, bounds, accepted>>

\* Submit refuses a disabled instance and a full queue; nobody asks whether
\* the worker is still there.
SubmitAccepted(x) == ~disabled[x[2]] /\ Len(queue[x[2]]) < QueueCap

Submit ==
  /\ claimed # NoJob
  /\ claimed' = NoJob
  /\ todo' = todo \ {claimed}
  /\ IF SubmitAccepted(claimed)
     THEN /\ queue' = [queue EXCEPT ![claimed[2]] = Append(@, claimed)]
          /\ accepted' = [accepted EXCEPT ![claimed] = @ + 1]
     ELSE UNCHANGED <<queue, accepted>>
  /\ UNCHANGED <<ledgerVars, cache, inbox, engine, worker, job, tries, disabled, abandoned, process, bounds, excuses>>

\* The engine looks at its context only between two transitions.
EngineStops ==
  /\ EngineIdle
  /\ process = "stopping"
  /\ engine' = "stopped"
  /\ UNCHANGED <<ledgerVars, cache, inbox, todo, claimed, instanceVars, process, bounds, accepted, excuses>>

-----------------------------------------------------------------------------
(* One action instance.                                                    *)

\* Mutant: a disabled instance goes on with its queue.
TakeRequestAlways(a) ==
  /\ worker[a] = "loop"
  /\ queue[a] # <<>>
  /\ queue' = [queue EXCEPT ![a] = Tail(@)]
  /\ worker' = [worker EXCEPT ![a] = "execute"]
  /\ job' = [job EXCEPT ![a] = Head(queue[a])]
  /\ tries' = [tries EXCEPT ![a] = 0]
  /\ UNCHANGED <<ledgerVars, engineVars, disabled, abandoned, process, bounds, accepted, excuses>>

\* Mutant: a disabled instance leaves its queue alone.
TakeRequestIfEnabled(a) == ~disabled[a] /\ TakeRequestAlways(a)

\* The worker takes a request; a disabled instance drops it.  While the
\* context is done this is the drain.
TakeRequest(a) ==
  /\ worker[a] = "loop"
  /\ queue[a] # <<>>
  /\ queue' = [queue EXCEPT ![a] = Tail(@)]
  /\ IF disabled[a]
     THEN UNCHANGED <<worker, job, tries>>
     ELSE /\ worker' = [worker EXCEPT ![a] = "execute"]
          /\ job' = [job EXCEPT ![a] = Head(queue[a])]
          /\ tries' = [tries EXCEPT ![a] = 0]
  /\ UNCHANGED <<ledgerVars, engineVars, disabled, abandoned, process, bounds, accepted, excuses>>

BackToLoop(a) ==
  /\ worker' = [worker EXCEPT ![a] = "loop"]
  /\ job' = [job EXCEPT ![a] = NoJob]
  /\ tries' = [tries EXCEPT ![a] = 0]

ExecuteOk(a) ==
  /\ worker[a] = "execute"
  /\ BackToLoop(a)
  /\ UNCHANGED <<ledgerVars, engineVars, queue, disabled, abandoned, process, bounds, accepted, excuses>>

\* An error, a panic, or a call that returns within the grace period.
ExecuteFails(a) ==
  /\ worker[a] = "execute"
  /\ \/ /\ tries[a] < Retries
        /\ tries' = [tries EXCEPT ![a] = @ + 1]
        /\ worker' = [worker EXCEPT ![a] = "sleep"]
        /\ UNCHANGED job
     \/ /\ tries[a] >= Retries
        /\ BackToLoop(a)
  /\ UNCHANGED <<ledgerVars, engineVars, queue, disabled, abandoned, process, bounds, accepted, excuses>>

RetryAgain(a) ==
  /\ worker[a] = "sleep"
  /\ worker' = [worker EXCEPT ![a] = "execute"]
  /\ UNCHANGED <<ledgerVars, engineVars, queue, job, tries, disabled, abandoned, process, bounds, accepted, excuses>>

\* The plugin ignored its deadline: the call is left behind, the instance off.
ExecuteHangs(a) ==
  /\ worker[a] = "execute"
  /\ disabled' = [disabled EXCEPT ![a] = TRUE]
  /\ abandoned' = [abandoned EXCEPT ![a] = @ + 1]
  /\ BackToLoop(a)
  /\ UNCHANGED <<ledgerVars, engineVars, queue, process, bounds, accepted, excuses>>

\* drainAndClose ends: the queue is empty or the drain deadline has passed.
CloseInstance(a) ==
  /\ worker[a] = "loop"
  /\ process = "stopping"
  /\ worker' = [worker EXCEPT ![a] = "closed"]
  /\ UNCHANGED <<ledgerVars, engineVars, queue, job, tries, disabled, abandoned, process, bounds, accepted, excuses>>

-----------------------------------------------------------------------------
(* The process.                                                            *)

\* The engine begins with a refresh, which may fail and leave no rules.
Start ==
  /\ process = "down"
  /\ process' = "running"
  /\ engine' = "running"
  /\ worker' = [a \in ActionIds |-> "loop"]
  /\ \/ cache' = rules
     \/ UNCHANGED cache
  /\ UNCHANGED <<ledgerVars, inbox, todo, claimed, queue, job, tries, disabled, abandoned, bounds, accepted, excuses>>

\* SIGTERM: the one signal context ends the engine's loop and the workers'.
Signal ==
  /\ process = "running"
  /\ exits < MaxExits
  /\ process' = "stopping"
  /\ UNCHANGED <<ledgerVars, engineVars, instanceVars, bounds, accepted, excuses>>

\* The end of main, or a crash at any step: everything in memory is gone.
Exit ==
  /\ process # "down"
  /\ exits < MaxExits
  /\ process' = "down"
  /\ exits' = exits + 1
  /\ inbox' = <<>>
  /\ todo' = {}
  /\ claimed' = NoJob
  /\ engine' = "stopped"
  /\ queue' = [a \in ActionIds |-> <<>>]
  /\ worker' = [a \in ActionIds |-> "off"]
  /\ job' = [a \in ActionIds |-> NoJob]
  /\ tries' = [a \in ActionIds |-> 0]
  /\ disabled' = [a \in ActionIds |-> FALSE]
  /\ abandoned' = [a \in ActionIds |-> 0]
  /\ cache' = [g \in Groups |-> {}]
  /\ UNCHANGED <<ledgerVars, arrivals, accepted, excuses>>

Init ==
  /\ rules = [g \in Groups |-> {}]
  /\ deleted = {}
  /\ ledger = {}
  /\ cache = [g \in Groups |-> {}]
  /\ inbox = <<>>
  /\ todo = {}
  /\ claimed = NoJob
  /\ engine = "stopped"
  /\ queue = [a \in ActionIds |-> <<>>]
  /\ worker = [a \in ActionIds |-> "off"]
  /\ job = [a \in ActionIds |-> NoJob]
  /\ tries = [a \in ActionIds |-> 0]
  /\ disabled = [a \in ActionIds |-> FALSE]
  /\ process = "down"
  /\ arrivals = 0
  /\ exits = 0
  /\ accepted = [x \in Job |-> 0]
  /\ excuses = [x \in Job |-> 0]
  /\ abandoned = [a \in ActionIds |-> 0]

StoreNext ==
  \/ \E g \in Groups, cells \in SUBSET Cell : SetGroupRouting(g, cells)
  \/ \E g \in Groups : DeleteGroup(g)
  \/ \E rows \in SUBSET ledger : PruneActionFires(rows)

EngineNext ==
  \/ Refresh
  \/ HandleTransition
  \/ \E x \in todo : ClaimNew(x) \/ ClaimDuplicate(x) \/ ClaimFails(x)
  \/ Submit
  \/ EngineStops

InstanceNext(a) ==
  \/ TakeRequest(a)
  \/ ExecuteOk(a)
  \/ ExecuteFails(a)
  \/ RetryAgain(a)
  \/ ExecuteHangs(a)
  \/ CloseInstance(a)

Next ==
  \/ StoreNext
  \/ \E t \in Transitions : Enqueue(t)
  \/ EngineNext
  \/ \E a \in ActionIds : InstanceNext(a)
  \/ Start
  \/ Signal
  \/ Exit

Spec == Init /\ [][Next]_vars

\* The goroutines are scheduled, and Execute returns or runs into its
\* deadline.  Nothing is assumed about arrivals, edits or exits.
Fairness ==
  \A a \in ActionIds :
    /\ WF_vars(TakeRequest(a))
    /\ WF_vars(ExecuteOk(a) \/ ExecuteFails(a) \/ ExecuteHangs(a))
    /\ WF_vars(RetryAgain(a))

FairSpec == Spec /\ Fairness

-----------------------------------------------------------------------------
(* Properties.                                                             *)

\* At most once: a transition that arrives again, also after a restart, is
\* not submitted again for the same group and action unless the ledger
\* failed or forgot the row (pruned, or the group was deleted).
AtMostOnce == \A x \in Job : accepted[x] <= 1 + excuses[x]

\* A plugin that ignored its deadline is never invoked again: an instance
\* leaves at most one call behind and makes no further attempt.
HungStaysOff ==
  \A a \in ActionIds :
    /\ abandoned[a] <= 1
    /\ disabled[a] => worker[a] \notin {"execute", "sleep"}

\* What the rule engine and the instances keep together: no duplicate
\* submission without an excuse, and no call of a plugin that hangs.
NotifySafe == AtMostOnce /\ HungStaysOff

\* Alerts keep flowing: a worker that is not stopping empties its queue.
QueueDrains ==
  \A a \in ActionIds : Len(queue[a]) = QueueCap ~> Len(queue[a]) < QueueCap \/ process # "running"

\* What main promises: no action is submitted once the actions shut down,
\* so an accepted request always has a worker that may still take it.
NoSubmitAfterClose ==
  [][ \A a \in ActionIds : Len(queue'[a]) > Len(queue[a]) => worker[a] # "closed" ]_vars

\* What the ledger and the audit trail claim: a transition skipped as
\* "already delivered" was at least submitted before.
SkippedWasSubmitted ==
  [][ \A x \in todo :
        /\ claimed = NoJob
        /\ x \in ledger
        /\ x \notin todo'
        /\ process' # "down"
        => accepted[x] > 0 ]_vars
=============================================================================
