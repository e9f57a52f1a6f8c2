----------------------------- MODULE Supervisor -----------------------------
(***************************************************************************)
(* One supervised source (internal/plugin/source_supervisor.go): Run of    *)
(* the plugin in a goroutine of its own, restarts with exponential         *)
(* backoff, a bounded shutdown, and the status the web UI shows, which     *)
(* both the supervisor and the plugin write (internal/plugin/status.go).   *)
(***************************************************************************)
EXTENDS Naturals

CONSTANTS
  BackoffBase,  \* first delay
  BackoffMax,   \* longest delay
  MaxAttempts   \* bound: the attempt counter is counted up to here

ASSUME SupervisorConstants ==
  /\ BackoffBase \in Nat \ {0}
  /\ BackoffMax \in Nat
  /\ BackoffBase <= BackoffMax
  /\ MaxAttempts \in Nat \ {0}

VARIABLES
  restart,    \* runtime.restart of the source; fixed by the configuration
  cancelled,  \* the application's context
  sup,        \* where the supervisor's loop is
  runs,       \* calls of the plugin's Run that have not returned
  result,     \* the runDone channel of the latest call
  healthy,    \* the reset timer of the latest call has fired
  attempt,    \* restarts since the last healthy stretch
  delay,      \* the backoff being waited out; 0 otherwise
  state,      \* PluginStatus.State
  lateRuns    \* history: calls of Run made after the cancellation

vars == <<restart, cancelled, sup, runs, result, healthy, attempt, delay, state, lateRuns>>

SupStates == {"ready", "launched", "waiting", "restart", "backoff", "stopping", "exited"}
PluginStates == {"starting", "running", "degraded", "stopping", "stopped"}

SupTypeOK ==
  /\ restart \in BOOLEAN
  /\ cancelled \in BOOLEAN
  /\ sup \in SupStates
  /\ runs \in Nat
  /\ result \in {"none", "ok", "failed"}
  /\ healthy \in BOOLEAN
  /\ attempt \in 0 .. MaxAttempts
  /\ delay \in Nat
  /\ state \in PluginStates
  /\ lateRuns \in Nat

-----------------------------------------------------------------------------

\* backoffDelay: doubling that saturates before it could overflow.
BackoffDelay[n \in Nat] ==
  IF n = 0 THEN BackoffBase
  ELSE LET d == BackoffDelay[n - 1]
       IN CASE d >= BackoffMax       -> d
            [] d < BackoffMax /\ d > BackoffMax \div 2  -> BackoffMax
            [] d < BackoffMax /\ d <= BackoffMax \div 2 -> 2 * d

\* The head of run's loop: status "starting", and Run in a new goroutine.
Launch ==
  /\ sup = "ready"
  /\ sup' = "launched"
  /\ runs' = runs + 1
  /\ result' = "none"
  /\ healthy' = FALSE
  /\ state' = "starting"
  /\ lateRuns' = IF cancelled THEN lateRuns + 1 ELSE lateRuns
  /\ UNCHANGED <<restart, cancelled, attempt, delay>>

\* There is no readiness contract: the plugin counts as running.
MarkRunning ==
  /\ sup = "launched"
  /\ sup' = "waiting"
  /\ state' = "running"
  /\ UNCHANGED <<restart, cancelled, runs, result, healthy, attempt, delay, lateRuns>>

\* waitForExit: healthy for a full reset period.
ResetBackoff ==
  /\ sup = "waiting"
  /\ restart
  /\ ~healthy
  /\ healthy' = TRUE
  /\ attempt' = 0
  /\ state' = "running"
  /\ UNCHANGED <<restart, cancelled, sup, runs, result, delay, lateRuns>>

\* waitForExit and recordExit: whatever the outcome, the status ends stopped.
ExitSeen ==
  /\ sup = "waiting"
  /\ result # "none"
  /\ result' = "none"
  /\ sup' = IF restart THEN "restart" ELSE "exited"
  /\ state' = "stopped"
  /\ UNCHANGED <<restart, cancelled, runs, healthy, attempt, delay, lateRuns>>

\* restart gives up when the context is already cancelled ...
NoRestart ==
  /\ sup = "restart"
  /\ cancelled
  /\ sup' = "exited"
  /\ state' = "stopped"
  /\ UNCHANGED <<restart, cancelled, runs, result, healthy, attempt, delay, lateRuns>>

\* Mutant: the context is not looked at before the backoff.
BeginBackoffUnchecked ==
  /\ sup = "restart"
  /\ sup' = "backoff"
  /\ delay' = BackoffDelay[attempt]
  /\ attempt' = IF attempt < MaxAttempts THEN attempt + 1 ELSE attempt
  /\ UNCHANGED <<restart, cancelled, runs, result, healthy, state, lateRuns>>

\* ... and starts the backoff timer otherwise.
BeginBackoff ==
  /\ sup = "restart"
  /\ ~cancelled
  /\ sup' = "backoff"
  /\ delay' = BackoffDelay[attempt]
  /\ attempt' = IF attempt < MaxAttempts THEN attempt + 1 ELSE attempt
  /\ UNCHANGED <<restart, cancelled, runs, result, healthy, state, lateRuns>>

\* Mutant: the result of waitBackoff is read the wrong way round.
BackoffOverEnds ==
  /\ sup = "backoff"
  /\ sup' = "exited"
  /\ delay' = 0
  /\ UNCHANGED <<restart, cancelled, runs, result, healthy, attempt, state, lateRuns>>

\* waitBackoff: the timer fires.  When both cases of its select are ready
\* either may be taken.
BackoffOver ==
  /\ sup = "backoff"
  /\ sup' = "ready"
  /\ delay' = 0
  /\ UNCHANGED <<restart, cancelled, runs, result, healthy, attempt, state, lateRuns>>

BackoffCancelled ==
  /\ sup = "backoff"
  /\ cancelled
  /\ sup' = "exited"
  /\ delay' = 0
  /\ state' = "stopped"
  /\ UNCHANGED <<restart, cancelled, runs, result, healthy, attempt, lateRuns>>

\* shutdown: cancel the run and wait for it, ...
BeginShutdown ==
  /\ sup = "waiting"
  /\ cancelled
  /\ sup' = "stopping"
  /\ state' = "stopping"
  /\ UNCHANGED <<restart, cancelled, runs, result, healthy, attempt, delay, lateRuns>>

\* Mutant: the wait for the plugin has no timeout.
EndShutdownPatient ==
  /\ sup = "stopping"
  /\ result # "none"
  /\ sup' = "exited"
  /\ state' = "stopped"
  /\ result' = "none"
  /\ UNCHANGED <<restart, cancelled, runs, healthy, attempt, delay, lateRuns>>

\* ... until it returns or the shutdown timeout passes: a plugin that ignores
\* its context is left behind.
EndShutdown ==
  /\ sup = "stopping"
  /\ sup' = "exited"
  /\ state' = "stopped"
  /\ result' = "none"
  /\ UNCHANGED <<restart, cancelled, runs, healthy, attempt, delay, lateRuns>>

-----------------------------------------------------------------------------
(* The plugin goroutine and the application.                               *)

\* Run returns nil, or it returns an error or panics (invokeSource recovers).
RunReturns(r) ==
  /\ runs > 0
  /\ runs' = runs - 1
  /\ result' = IF sup = "exited" THEN result ELSE r
  /\ UNCHANGED <<restart, cancelled, sup, healthy, attempt, delay, state, lateRuns>>

\* ReportSourceHealthy and ReportSourceDegraded write the same status.
Report(s) ==
  /\ runs > 0
  /\ state' = s
  /\ UNCHANGED <<restart, cancelled, sup, runs, result, healthy, attempt, delay, lateRuns>>

Cancel ==
  /\ ~cancelled
  /\ cancelled' = TRUE
  /\ UNCHANGED <<restart, sup, runs, result, healthy, attempt, delay, state, lateRuns>>

Init ==
  /\ restart \in BOOLEAN
  /\ cancelled = FALSE
  /\ sup = "ready"
  /\ runs = 0
  /\ result = "none"
  /\ healthy = FALSE
  /\ attempt = 0
  /\ delay = 0
  /\ state = "starting"
  /\ lateRuns = 0

SupervisorNext ==
  \/ Launch
  \/ MarkRunning
  \/ ExitSeen
  \/ NoRestart
  \/ BeginBackoff
  \/ BackoffOver
  \/ BackoffCancelled
  \/ BeginShutdown
  \/ EndShutdown

Next ==
  \/ SupervisorNext
  \/ ResetBackoff
  \/ \E r \in {"ok", "failed"} : RunReturns(r)
  \/ \E s \in {"running", "degraded"} : Report(s)
  \/ Cancel

Spec == Init /\ [][Next]_vars

\* The supervisor's goroutine runs and its timers fire.  The plugin owes
\* nothing: Run may never return.
FairSpec == Spec /\ WF_vars(SupervisorNext)

-----------------------------------------------------------------------------
(* Properties.                                                             *)

\* Run of one source is never entered a second time before it has returned,
\* through restarts, healthy resets and shutdown.
OneRunAtATime == runs <= 1

Lesser(a, b) == IF a <= b THEN a ELSE b

\* The base doubled n times, without a bound.
Doublings[n \in Nat] == IF n = 0 THEN BackoffBase ELSE 2 * Doublings[n - 1]

\* The backoff waited out is the documented one: the base doubled for each
\* restart since the last healthy stretch, bounded by the maximum.
BackoffAsDocumented ==
  sup = "backoff" =>
    IF attempt < MaxAttempts
    THEN delay = Lesser(Doublings[attempt - 1], BackoffMax)
    ELSE delay \in BackoffBase .. BackoffMax

\* Between two runs the status says stopped, whatever the plugin reported.
DownMeansStopped ==
  sup \in {"restart", "backoff"} => runs = 0 /\ state = "stopped"

\* Cancelling the application ends the supervisor, also when the plugin
\* ignores its context.
ShutdownEnds == cancelled ~> sup = "exited"

\* A run that ended is followed by another one until the application stops.
RunsAgain == sup = "restart" ~> runs = 1 \/ cancelled

\* A cancellation that races the end of a backoff lets at most one more Run
\* begin (with a context that is already cancelled), never a second one.
AtMostOneLateRun == lateRuns <= 1

\* The safety of the loop: one Run at a time, the documented backoff, an
\* honest status between two runs, and at most one Run begun too late.
LoopSafe == OneRunAtATime /\ BackoffAsDocumented /\ DownMeansStopped /\ AtMostOneLateRun

\* What restart promises: a cancellation that arrives during the backoff wait
\* ends the supervisor, and Run is never invoked again.
CancelledBackoffEnds == [][ sup = "backoff" /\ cancelled => sup' # "ready" ]_vars

\* What SourceHealthReporter promises: health reports leave the lifecycle states to
\* the supervisor, so a stopped source stays stopped.
LifecycleOwned == sup = "exited" => state = "stopped"
=============================================================================
