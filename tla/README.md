# WarnFlux (HazardRouter): TLA+ models, checks and proofs

WarnFlux is one Go process that polls hazard providers, keeps the current state
of every hazard in SQLite, publishes every transition to outputs, and notifies
people through actions according to a routing matrix. This directory models
the parts of it that decide whether an alert is lost, repeated, reordered or
stuck. TLC checks the models on small instances; TLAPS proves the central safety
properties for every value of the constants.

Source paths below are relative to the repository root. `PROJECT.json` maps every
definition that models code to its lines.

## 1. Inventory

### Data flow

    sources -> Emit queue -> ingest worker -> event store + journal -> output workers -> MQTT / files
                                                                                          |
      notifications <- action instances <- rule engine <- dispatch ingress <- MQTT receivers

### Components

| Component | State it keeps | Operations | What must hold |
|---|---|---|---|
| Source supervisor (`internal/plugin/source_supervisor.go`, `status.go`) | restart attempt, backoff, status of the source | run, restart after exit or panic, backoff, healthy reset, bounded shutdown | one `Run` at a time; documented backoff; shutdown ends although a plugin ignores its context |
| Emit queue and ingest worker (`internal/plugin/manager.go`) | bounded queue, `queueMu`, `accepting`, one completion channel per event | `Emit`, process, drain, sweep at shutdown | nil means persisted, an error means never persisted; no call hangs; nothing is stranded |
| Event store and journal (`internal/storage/sqlite/sqlite.go`, `internal/core`) | tables `events`, `changes`, `output_cursors` | `Ingest`, `Expire`, `PollChanges`, `AckChanges`, `SyncOutputs`, two cleanups | the journal is a readable history of real transitions that ends in the current table |
| Maintenance loop (`manager.go`) | the time of the pass | expire, journal cleanup, event cleanup; a failing step does not end the pass | lapsed events end; cleanup removes nothing an output still needs |
| Output workers (`internal/plugin/output_worker.go`) | batch, consecutive failures, suspension, probe timer | poll, handle with timeout, acknowledge, suspend, probe | at least once, in journal order, not after the acknowledgment, never stalled for good |
| Dispatch ingress (`internal/dispatch/ingress.go`) | bounded queue | enqueue or drop, stop, drain | never blocks |
| Rule engine (`internal/routing/engine.go`) and fire ledger (`internal/storage/sqlite/routing.go`) | cached routing matrices; table `action_fires` | refresh, match, claim, submit, prune | a repeated transition does not notify twice |
| Action manager and instances (`internal/action`) | queue per instance, disabled flag | submit, execute with deadline, retry, drain, close | a hung plugin is never called again; queues keep moving |
| Process (`cmd/warnflux/main.go`) | signal context | start order, shutdown order | producers stop before their consumers |
| MQTT output (`internal/plugins/outputs/mqtt`) | active cache, pending deletions, generations | `Handle`, rehydrate on connect, seed, retry deletions | the retained view shows every active hazard and no ended one |
| MQTT receivers and mirror (`internal/mqttreceiver`, `internal/dispatch/state`) | subscriptions, bounded mirror of retained documents | connect, subscribe, handle a frame, browse, publish, prune | an entry is what its broker retains; a receiver does not stay deaf |
| Source adapters (`internal/plugins/sources`) | the poll in progress, stations, last snapshots | poll, combine feeds, emit, cancel what vanished, publish information | a partial answer cancels nothing; a complete one settles the store |
| Information and status traffic (`output_worker.go`, `manager.go`) | coalescing queue, wakeup token, disabled flags | enqueue, deliver, abandon, re-arm, heartbeat | a waiting snapshot is delivered; no topic goes back to an older one |
| APRS hub (`internal/aprs/hub.go`) | stations, digests, operations queue, pending acknowledgments | observe, publish, expire, send, wait for an acknowledgment | once per digest; clean records are on the broker; no entry leaks |
| APRS sessions (`aprsinet`, `aprsradio`, `internal/aprs/kiss.go`) | connection, transmitter, decoder state | dial, register, read, reconnect | frames come out as they went in |
| HTTP ingest (`internal/ingesthttp`) | token bucket, connection | check, limit, publish the event, mirror the active document | view and journal agree |
| Notification channels (`internal/actions`) | rate limiter | `Execute` of SMTP, webhook, Discord, APRS; the reset mailer | "delivered" means everybody was served |
| Users, groups, reset tokens (`internal/storage/sqlite/users.go`, `groups.go`, `internal/web`) | tables, sessions | account page, administration, recovery | forms in flight together do not mix; roles are the administrator's |
| Operator pages (`internal/web/compose.go`, `emcom.go`) | expiry timers | publish, update, expire, set a level, delete | the alarm of a network follows its level |
| Configuration, trail, metrics, weather documents, geography, rendering | views and conversions | - | - |

### Interactions

Components interact through bounded channels (emit queue, ingress, action
queues), through the one SQLite connection (every transaction waits for it), and
through contexts. Callbacks into plugins (`Run`, `Handle`, `Execute`) run in their
own goroutines under a deadline and may be left behind.

### What is hard

* The clock is read before the wait for the database connection.
* A plugin call may time out and still succeed.
* The process may end between the effect of a step and the record of it
  (Handle / acknowledge, claim / submit).
* Cleanup runs beside delivery, for several outputs with cursors of their own.
* Shutdown races with `Emit`, with the backoff timer and with the rule engine.
* Queues fill up under a lock that the draining worker also wants.
* `Handle` and rehydration publish to the same retained topics, and a publication
  may reach the broker after its sender has stopped waiting.
* MQTT callbacks run out of order, and web handlers decide by a mirror that lags.
* A form is written in several statements while another one is in flight.
* A batch of recipients or feeds is served in part, and a retry begins again.

`PROJECT.json` lists each of them under "hazards", at its line, with the
properties aimed at it.

## 2. Modules

| Module | Models | State and actions |
|---|---|---|
| `EventStore` | store, journal, cursors, maintenance, ingest | `events`, `changes`, `cursors`, `lastId` are the tables and `sqlite_sequence`; `ingest` and `maint` are the operations in progress. One action per transaction: `IngestCommit`, `Expire`, `CleanupChanges`, `CleanupEvents`, `PollChanges`, `AckChanges`, `SyncOutputs` |
| `Outbox` | nothing in the code: the abstract promise | a log, its members and what each of them has done; `Append`, `Deliver`, `Forget`, `Reconfigure` |
| `Delivery` | output workers over `EventStore`, process restarts | `worker`, `batch`, `failures`, `suspended`, `probe` are the fields of `outputWorker`; `owed` and `handled` are history |
| `EmitQueue` | `Emit`, ingest loop, drain | `holder` is `queueMu`, `queue` the channel, `done` the completion channels |
| `Supervisor` | one source supervisor with its plugin and status | `sup` is the place in `sourceSupervisor.run`; `runs` counts the calls of `Run` in progress |
| `Notify` | ingress, rule engine, ledger, action instances, shutdown order | `ledger` is `action_fires`, `rules` is `group_actions`, `cache` the engine's copy, `queue` and `worker` the instances |
| `ActiveView` | active view of the MQTT output | `cache` and `pend` are `activeCache` and `pendingDeletes` with their generations; `hpc` and `rpc` say where `Handle` and the rehydration are; `wire`, `topics`, `list` are connection and broker (external) |
| `Receiver` | receivers, mirror, ingress | `calls` holds the frames whose callback has not run; `active`, `info`, `router` are the mirror; `inbox` and `closed` the ingress |
| `InfoFlow` | information snapshots and heartbeat, from the poll to the broker | `src` is the poll of each source, `queued` and `notify` are `infoPending` and `infoNotify`, `call` and `strays` the callbacks |
| `Sources` | the polls of RSO, IMGW, GIOS, GDDKiA and GIOS-AQ | `poll` is the poll in progress, `table` the source's rows; `provider` is what it announces (external) |
| `AprsHub`, `AprsOut`, `AprsSession` | hub, outbound messages, sessions with the KISS decoder | `stations`, `seen`, `ops`, `pass` (what a maintenance pass has left to publish); `exec`, `cool`, `gap`, `pending`; `sess`, `dec`, `sent` and `left` (the frame on the wire and what is unread of it) |
| `Channels` | one notification through one channel | `stage` is the place in `Execute`, `rest` who is still to be served, `slot` the limiter, `inbox` who was served, `verdict` what the instance records |
| `IngestHTTP` | the ingest endpoint | `post` per request, `bucket`, `pending` in the client, `journal` and `view` on the broker |
| `Compose` | communications and emergency networks | `retained`, `mirror` and the `wire` between them, `handler` per request, `timers` |
| `Accounts` | the directory and its forms | `users`, `groups`, `tokens` are the tables, `call` the requests in flight |
| `MCDelivery`, `MCNotify`, `MCReceiver` | instances for TLC | a symmetry set, concrete transitions, topics per broker |
| `MCAprs`, `MCEdge` | several independent components in one run | `part` says which component moves; they share no state, so nothing is lost by checking them side by side and not interleaved |
| `DeliveryProofs` | proofs about `EventStore` and about `Delivery`, which extends it | section 6 |
| `EmitQueueProofs`, `SupervisorProofs`, `NotifyProofs`, `ReceiverProofs` | proofs about the module of that name | section 6 |
| `EdgeProofs` | proofs about `IngestHTTP`, `Compose`, `InfoFlow`, `Sources` and `Channels` | section 6 |
| `AprsProofs` | proofs about `Accounts`, `AprsOut`, `AprsHub` and `AprsSession` | section 6 |
| `ViewProofs` | proofs about `ActiveView` | section 6 |

`Delivery` extends `EventStore`: the writer of the journal and its readers run
interleaved, on the same tables. `Delivery` implements `Outbox` under the mapping
log = ids in the journal, members = outputs with a cursor, done = `handled`.

Choices a reader should know:

* An event's provider fields are one abstract content value plus the expiry: the
  fingerprint hashes both and not the lifecycle status, and no property tells
  more apart.
* An ingest or a maintenance pass is a Begin step that reads the clock and a step
  that is the whole transaction. `MaxWait` bounds the ticks in between. A
  transaction is atomic because the pool has one connection.
* `Expire` picks any order of the lapsed rows: the query has no `ORDER BY`.
* A database error is an action of its own (`IngestAbort`, `MaintStepFails`,
  `PollFails`, `AckFails`, `ClaimFails`) and leaves the tables as they were.
* `Handle` has four outcomes: success, error, and a timeout with a late success or
  a late error. A late success is not acknowledged, as in the code.
* `Exit` stands for a crash at any step as well as for the end of main; volatile
  state is lost, the tables stay. In `Notify` the ingress's `StopIntake` and
  `Drain` come after the engine has stopped and are part of it.
* In `Notify` any transition may arrive again at any time (MQTT QoS 1, retained
  topics, reconnects). A refused `Submit` also covers actions that are not
  configured.
* In `ActiveView` a change's version is its journal id, so "the newest" is a number.
  A publication is put on the connection, applied in order and acknowledged; the
  sender may give up at any point, a lost connection drops what was not applied.
* In `Receiver` any waiting frame may be handled next (`SetOrderMatters(false)`).
  `holes` is history: it records which entry was touched by an overtaking, a
  deletion while away, the size bound or a browse, and `MirrorExact` speaks of the
  others. Likewise `excuse` (`Compose`), `blurred` (`IngestHTTP`), `raced`, `torn`
  and `doubled` (`Accounts`) and `muddied` (`AprsSession`) record exactly the cases
  in which the code does not keep the statement; each such case is one action of
  the model, and the property shows that there is no other.
* In `Sources` geography, keywords and severity only decide whether a version is in
  scope. A response is what it lists, what is ambiguous in it and whether it is
  complete.
* In `AprsHub` a maintenance pass begins with one step that picks what has gone stale
  and what is dirty, and publishes the topics one by one, in any order (the code
  ranges over maps); the worker does nothing else before the pass is through.
* In `AprsSession` a frame on the wire is a sequence of units, each a byte or an escape
  pair; payloads are sequences over any set of bytes.
* In `Channels` the recipients are positions of the configured and the group's
  addresses: `Targets` are the positions where an address occurs first.
* In `AprsHub` and `AprsOut` times are ages or remaining ticks, so there is no
  horizon.
* In `Supervisor` the attempt counter is capped at `MaxAttempts`, past the point
  where the delay has saturated.

## 3. Runs

| Run | Checks | Shows |
|---|---|---|
| `store_journal` | `JournalReadable`, `JournalFaithful`, `RepeatIsQuiet`, `OverdueEventEnds` | two keys with and without expiry, through reports, cancellations, lapses in one pass, retention, failing steps and restarts |
| `delivery_two` | `NothingLost`, `OrderedDelivery`, `NoRedeliveryAfterAck`, `AckNeverRefused`, `ImplementsOutbox` | two outputs with independent cursors, cleanup beside delivery, one crash |
| `delivery_restart` | `EventuallyHandled` | two restarts, the output disabled, enabled again or given another plugin type, batches of one, suspension at the first failure, probes, stuck calls |
| `emit_drain` | `AnswerIsTruth`, `NothingStranded`, `EmitReturns` | three sources, two slots, shutdown at any moment, the caller that holds the lock and the worker that wants it |
| `supervisor_loop` | `LoopSafe`, `ShutdownEnds`, `RunsAgain` | exits, panics, reports, cancellation, plugins that never return |
| `notify_ledger` | `NotifySafe`, `QueueDrains` | a warning and its cancellation, three arrivals, two exits, edits, pruning, ledger errors, hung plugins |
| `view_converge` | `ActiveShown`, `OnlyGapResurrects`, `ActiveConverges` | three changes of one hazard, two rehydration passes, a lost connection, an abandoned wait or an exit |
| `receiver_mirror` | `MirrorExact`, `ClosedStaysClosed`, `Resubscribed` | two brokers with one topic in common, every kind of topic and payload, two breaks, browsing, a mirror and an ingress of one place |
| `aprs_parts` | `CleanMeansShown`, `OrphansExplained`, `HeardOnce`, `PendingMatchesCalls`, `AckAnswersFrame`, `DecodedUnlessMuddied`, `RoleKept`, `PrefsFromOneForm`, `LinkSpentOnce` | two receivers, publications that fail and arrive, two instances for one pending place, escaped and skipped frames, two requests in flight |
| `edge_parts` | `AlarmFollowsLevel`, `ViewFollowsJournal`, `WithdrawnForCause`, `CompletePollSettles`, `NoLostWakeup`, `ServedAsReported`, `NeverBackInTime` | two requests over a lagging mirror; two ingest clients; five kinds of source, two feeds, failing emits; four configurations of information sources; five channels with one retry |

`LoopSafe`, `NotifySafe`, `JournalFaithful` and `HeardOnce` are conjunctions of named
statements about one mechanism. Every property of these runs has a mutant in
`PROJECT.json`: a plausible bug in one definition under which TLC finds the property
violated. The type invariants (`StoreTypeOK`, `TypeOK`, `QueueTypeOK`, `SupTypeOK`,
`NotifyTypeOK`, `ViewTypeOK`, `RecvTypeOK`, `ChanTypeOK`) hold in the same instances and
are in no run, for they say nothing about the code; the proofs establish those they
rest on.

### Findings

Two runs are expected to end in a violation. Each states what a comment of the
repository says and shows a behaviour of the code that differs.

| Run | Statement | What the code does |
|---|---|---|
| `view_gap` | mqtt.go:516-517: a cancelled hazard is never resurrected by a stale snapshot | the rehydration reuses the deletion `Handle` has registered; `Handle` clears it for its own, earlier deletion, and the stale document stays |
| `compose_expiry` | compose.go:271-273: communications expire on their own | the timer looks the document up in a mirror that hides it from the same moment on |

Further disagreements, met while modelling. The statements named in the first
column are in the modules, and a configuration that names one as its only property
reproduces the behaviour; the others are visible in the action named.

| Statement or action | The repository says | What the code does |
|---|---|---|
| `EventStore!RepeatIsQuiet`, with `MaxWait = 1` | sqlite.go:633-635: repeating a stale event cannot flap | `Ingest` classifies with a clock value read before its wait; if `Expire` commits in between, the event is revived and expired again |
| `EventStore!CleanupByUpdatedAt` | store.go:119-120: cleanup goes by `updated_at` | it goes by `last_seen_at_ms`, so an event may be expired and deleted in one pass |
| `Supervisor!CancelledBackoffEnds` | source_supervisor.go:142-144: no `Run` after a cancellation during backoff | with timer and context both ready, `select` may pick the timer; `LoopSafe` shows that it happens at most once |
| `Supervisor!LifecycleOwned` | contract.go:56-58: the supervisor owns the lifecycle states | a late health report turns "stopped" into "running" |
| `Notify!NoSubmitAfterClose` | main.go:643-645: nothing is submitted once actions shut down | the action workers share the signal context and may have closed before the engine's last submission |
| `Notify!SkippedWasSubmitted` | routing.go:163-164: a ledger row means delivered | the row is written before `Submit` and stays when `Submit` refuses or the process ends |
| `Receiver!Reconstructed` | state.go:6-7: the mirror is reconstructed after every reconnect | nothing clears it, so a topic deleted meanwhile stays |
| `InfoFlow!CallAbandoned` | contract.go:168, docs/plugins.md:156-158: a call that ignores its timeout is switched off | a call that obeys it may lose the `select` race and is switched off too |
| `AprsHub!ObserveDropped` | sink.go:67-68: the TTL counts from the last packet | an identical beacon is skipped without refreshing the station |
| `AprsSession!DecodedUnlessMuddied` | kiss.go:41-42: non-data frames are skipped | an escaped byte of a skipped frame begins the next data frame |
| `Channels!WaitCancelled` | smtp.go:238-239: bursts drain as a paced queue | with the default deadline about six recipients fit, and the retry begins with the first one again |

Smaller ones, without an entry in `PROJECT.json`: the account page writes back the
role it read, so an administrator's edit in between is lost (account.go:158-159 says
the role stays untouched; `raced`); a failed second write leaves the
memberships of the new form with the channels of the old one (`torn`); a failed
deletion of a station topic is not tried again (`lostDelete`); Open-Meteo counts
a location as published before it hands the snapshot over; an entry GDDKiA or GIOS
cannot normalise counts as withdrawn (`WithdrawnForCause`).

## 4. Bounds

* `MaxTime`, `MaxChanges`, `MaxArrivals`, `MaxEmits`, `MaxExits`, `MaxAttempts` cap
  counters; each appears in the guard of the action that would exceed it. The
  clock reaches past expiry plus both retentions, so that an event can be
  created, lapse, and lose its journal rows and its own row within the bound.
* `MaxChanges` stops new ingests and not the expiry of what was ingested, so a key
  gets up to four journal rows: enough for every consecutive pair of transitions.
  Two outputs are enough for one that is behind and one that is ahead; two pending
  rows are enough for an order.
* `EmitQueue` has more sources than slots, so that the queue is full while a caller
  that holds the lock waits for a slot and a third one waits for the lock.
* `MaxWait` is 0 in the runs. With a wait, creation times are not ordered like the
  ids, age-based cleanup may leave a gap in front of an older row, and the
  statements about neighbouring rows (`JournalFaithful`) speak only about what is
  left; and `RepeatIsQuiet` fails (see the findings). The theorems hold for every
  `MaxWait`, but for the two whose hypothesis names it (section 6).
* `view_converge`: one hazard is enough, as topics are independent but for the list;
  three changes are active, ended, active again; two passes let the limit be
  reached; one fault at every place. `view_gap` needs no fault and four passes, so
  that the limit is not what loses the deletion.
* `receiver_mirror`: two frames give one overtaking, one place in the mirror and in the
  ingress makes both full, two breaks allow a failed subscription after a lost
  connection. Only one receiver is flaky.
* `aprs_parts`: windows of 0 ticks and ages capped one above keep every comparison on
  both sides; one pending place for two instances fills the table; three requests
  and two callers are enough for a form between the two writes of another. Receivers,
  instances, callers and names are symmetric.
* `edge_parts`: three edits and three polls let a warning appear, change and vanish
  across polls; two feeds with one warning in both and one in one; a call timeout of
  two limiter slots for up to three recipients, so that the batch is cut short; a
  queue of two places for three topics.
* Every run disables the deadlock check: with the counters at their bounds, or
  after shutdown, the system may stop.

## 5. Fairness

* Goroutines are scheduled and timers fire: weak fairness of the loops, of
  probes, of the drain timeout and of `Execute` with its deadline.
* A transaction ends: `busy_timeout` bounds it.
* `sync.Mutex` does not starve a waiter: strong fairness of taking `queueMu`.
* An output or database that is tried again and again is not down each time:
  strong fairness of `Poll`, `HandleOk`, `AckOk` and `Expire`. Without this no
  retry can promise anything; the code retries for ever, so it needs nothing more.
* `view_converge`: both goroutines go on, the broker answers what it was sent and the
  client connects again; faults are bounded by `MaxFaults` and need no fairness.
* `receiver_mirror`: callbacks, the on-connect handler, browsing and the consumer of the
  ingress go on; nothing is assumed about publications and breaks.
* `compose_expiry`: frames reach the mirror, the clock goes on and armed timers fire
  and their publications succeed: the counterexample needs no failure.
* The process is started again after a stop. Nothing is assumed about sources,
  arrivals, crashes, edits, reconfiguration, or plugins that never return. A
  `Handle` call that timed out is assumed to return in the end.

## 6. Proofs

All theorems hold for every value of the constants that satisfies the named
assumptions (`StoreConstants`, `NoneIsNoValue`, `WorkerConstants`, `QueueConstants`,
`SupervisorConstants`, `NotifyConstants`, `NoJobIsNoJob`, `IngestAssumption`,
`ComposeAssumption`, `SourcesAssumption`, `AccountsAssumption`, `OutAssumption`,
`ViewConstants`, `ReceiverConstants`, `InfoAssumption`, `HubAssumption`,
`SessionAssumption`, `ChannelsAssumption`), which TLC evaluates in the runs. They say that
bounds are numbers, that a value standing for "nothing" is no real value, and what the
code's formats and checks give: user ids are 1, 2, ... up to a last one
(`AccountsAssumption`); the active list has a topic of its own (`ViewConstants`); the other
topic kinds are no active topics and the mirror and the ingress have a place
(`ReceiverConstants`); no two sources publish the same information topic
(`InfoAssumption`); a packet body names its sender, as the digest contains it
(`HubAssumption`); a channel with one end point has it configured (`ChannelsAssumption`).

Every invariant below was checked by TLC as an invariant of the instance of its run
before it was proved.

### Store and delivery

* `DeliveryProofs!StoreCorrect`: types and `JournalReadable`. `ChangeTypeOf` and
  `StatusAfter` are related by a lemma: what classification chooses is what
  `ValidateJournalChange` accepts.
* `DeliveryProofs!JournalIsHistory` (`JournalFaithful`), under
  `ChangeRetention = 0 \/ MaxWait = 0`. The invariant `HistoryInv` adds that clocks agree
  (`ClocksAgree`, `NoFutureClock`), that creation times are ordered like the ids
  (`RowsOrdered`, where operations do not wait), and that only what has lapsed is expired
  (`ExpiredIsPast`). The hypothesis is not a
  convenience: with a retention and a wait, the newest row of an event may have the
  older creation time, and age-based cleanup then removes it first.
* `DeliveryProofs!RepetitionIsQuiet` (`RepeatIsQuiet`), under `MaxWait = 0`; with a wait
  the statement is false (section 3, further disagreements).
* The workers: the inductive invariant `IndInv`, and from it `AtLeastOnce`
  (`NothingLost`), `InJournalOrder` (`OrderedDelivery`), `AckIsFinal`
  (`NoRedeliveryAfterAck`), `AckIsAccepted` (`AckNeverRefused`) and `Refinement`
  (`ImplementsOutbox`).
  `NothingLost` is not inductive. The argument needs that the cursor separates what
  was handled from what is still in the journal (`CursorSeparates`), that a batch
  stays a prefix of the pending rows while writers append and cleanup deletes
  around it (`BatchIsPrefix`), and that ids are issued upwards (`IdsIssued`).
  Cleanup deletes only rows at or below every cursor, so it touches no row in
  front of one; `AckIsAccepted` takes the least pending id, which exists because ids
  are well-founded. The refinement maps a successful `Handle` to `Deliver`,
  transactions that write the journal to `Append`, cleanup to `Forget`, startup to
  `Reconfigure`, and everything else to stuttering.

### Queue, supervisor, notifications

* `EmitQueueProofs`: the inductive invariant `QueueInv` (who sends holds the lock; an
  event is in exactly one place; completion and answer carry the outcome), and from
  it `EmitIsTruthful` (`AnswerIsTruth`) and `ShutdownStrandsNothing`
  (`NothingStranded`). The final step rests on the worker checking the queue under
  the lock after `accepting` was cleared.
* `SupervisorProofs!BackoffIsDoubling`: the saturating loop of `backoffDelay` computes the
  base doubled once per restart, cut at the maximum. It is an induction, made by
  considering the least number for which it would fail. `SupervisorIsSafe`
  (`LoopSafe`) rests on `LoopInv`, which ties the place in the loop to the calls in
  progress and to the delay chosen.
* `NotifyProofs!NotificationsAreSafe` (`NotifySafe`), from `NotifyInv`: every submission is
  backed by a claim in the ledger or by its excuse (`ClaimsBacked`), and an instance
  whose plugin hangs is disabled (`DisabledOnHang`).

### The retained active view

* `ViewStaysTyped` (`ViewTypeOK`) and `ActiveStaysShown` (`ActiveShown`), from `ActiveInv`. What
  a topic will show once the connection has drained (`Drains`) is a function of the topic
  and of the publications in flight, and only a publication to that topic changes it. For
  every desired hazard it is the desired version, or somebody is still on the way
  (`ActiveCovered`): `Handle` before its publication, a rehydration that has not begun its
  pass, has the entry in its snapshot or has noticed the change (`dirty`), or is about to
  look. That needs the generations: a snapshot entry with the generation of the cache is
  the entry of the cache (`GensIssued`). `CacheIsNewest` relates what is desired to the
  journal: a difference is a change `Handle` has still to acknowledge.
* `OnlyTheGap` (`OnlyGapResurrects`), from `GapInv` on top of it. An ended hazard has a clean
  topic, a deletion pending, or the rehydration is about to look at it again
  (`EndRemembered`). A deletion is forgotten only after its confirmation, and then nothing
  in flight brings the topic back (`ConfirmedIsClean`): for `Handle` this fails exactly when
  `registerPendingDeleteIfAbsent` returned Handle's own registration, which `shared`
  records, so the proof locates the gap. `TokensOwn` says whose acknowledgment is in flight.

### Receivers and their mirror

* `MirrorIsExact` (`MirrorExact`), from `FramesOK` and `MirrorFollows`. Callbacks may run in
  any order, so the mirror agrees with the broker only when none is left. What is
  preserved is: for a followed key in no hole, the newest callback still to run carries
  what the broker retains, and without one the mirror shows it (`FollowsAt`). Handling
  any other callback than the newest is an overtaking, which puts the key in a hole
  until the broker's frame is the only one left.
* `ClosedIngressTakesNothing` (`ClosedStaysClosed`).

### Edge of the router

* `IngestMirrorsJournal` (`ViewFollowsJournal`), from `IngestInv`: at most one unblurred
  request of a hazard is between its journal and its view publication
  (`OneMirrors`), and what it will show is what it has journalled.
* `AlarmAgreesWithLevel` (`AlarmFollowsLevel`), from `WebInv`: a request whose network has
  no excuse is alone and knows the level that is retained (`AloneAndCurrent`).
* `WakeupsAreKept` (`NoLostWakeup`), from `WakeInv`: a call in progress is awaited by the
  worker that made it (`CallIsAwaited`), so the worker looks again.
* `SnapshotsOnlyAdvance` (`NeverBackInTime`), from `FlowInv`: what has been sent of a topic
  is no newer than what is still to be sent of it, in the callback in flight, then in the
  queue, then in the poll of the one source that owns the topic (`NewestLast`), and the
  unacknowledged publications are in order (`SentInOrder`). An abandoned callback is
  harmless because its capability is switched off: nothing newer is taken while it may
  still publish (`OneInFlight`).
* `OnlyAbsentWithdrawn` (`WithdrawnForCause`), from `PollInv`: as long as a snapshot counts
  as complete, nothing served has been lost (`NothingLost`), and what is still to be
  concluded about is what the table held and the poll did not list (`GoneIsAbsent`).
* `QuietPollSettles` (`CompletePollSettles`), from `SettleInv` on top of it: in an undisturbed
  poll, got and announced are the same, what was emitted is stored and the rest is
  withdrawn. Here the attempt to prove found the statement too strong for other
  constants than the run's: a source that reads one feed does not hear of a warning
  that is only on the other one. `Announced` now speaks of the feeds it reads.

### Notification channels

* `DeliveredMeansServed` (`ServedAsReported`), from `ChanInv`. Of the addresses that are no
  longer in `rest`, each has the message as long as no error is collected
  (`ServedSoFar`), so an attempt that ends without an error has served everyone. Whoever
  is in `rest` has none of this attempt (`OnePerAttempt`), which needs that spellings of
  one address are one target (`TargetFacts`) and that a step is only reached with
  somebody due (`SomeoneIsDue`).

### Accounts and acknowledgments

* `RolesStay` (`RoleKept`), `FormsStayWhole` (`PrefsFromOneForm`) and `LinksAreSpentOnce`
  (`LinkSpentOnce`), from `AccountsInv`. Ids in requests and tokens were given out
  (`IdsOnce`), so a new row inherits nothing. An account save in flight is about to
  write what the administrator gave last (`SavesGiven`). Of the requests between the
  two preference writes of a user there is one, and it wrote the memberships
  (`OneAtChannels`). One submission at most is past the lookup of a token; once it
  has marked the token nobody can look it up (`OneResets`).
* `WaitersMatchCalls` (`PendingMatchesCalls`) and `AnswersAreOwn` (`AckAnswersFrame`), from
  `OutInv`: callers have numbers of their own (`NumbersAreOwn`), table and callers name
  each other (`WaitersAreCallers`), and no frame is on the air before its caller has
  transmitted it (`AiredIsSent`, in the first process).

### The APRS hub and the KISS stream

* `HubSafe` is the invariant `HubInv`; from it follow `CleanStationsAreShown`
  (`CleanMeansShown`), `OrphansHaveAReason` (`OrphansExplained`) and `PacketsAreHeardOnce`
  (`HeardOnce`). What a topic will show is decided by the last publication about it the
  client holds (`LastPosition`), so a publication changes it for its own station only,
  whether it is confirmed, late or lost. A maintenance pass has records for all it
  retries and none for what it deletes (`PassShape`). A digest off `seen` has been off the
  feed for a window (`FeedRemembered`). A record that is dropped takes its count of events
  with it; as long as it stays, `via` only grows.
* `FramesComeOutWhole` (`DecodedUnlessMuddied`), from `StreamInv`: as long as no skipped frame
  has left an escaped byte behind, the buffer of the decoder is the part of the payload
  that has been read (`InStep`), and it is inside an escape exactly when half of a pair
  has been read (`DecoderFollows`). Read unit by unit the frame needs no induction over
  its payload.

### Only model-checked

Every safety invariant and every action property of the passing runs is stated by a
theorem. Liveness under fairness (`OverdueEventEnds`, `EventuallyHandled`, `EmitReturns`,
`ShutdownEnds`, `RunsAgain`, `QueueDrains`, `ActiveConverges`, `Resubscribed`) stays with
TLC: it is out of the prover's reach. `RepeatIsQuiet` and `JournalFaithful` are proved under
the hypotheses named above, which are those of the run. The two violated properties
are refuted by TLC. No module declares a RECURSIVE operator.

## 7. Not modelled, and why

Listed in `PROJECT.json` under "components". In short: the parsing of provider fields,
weather documents, geography, message rendering and texts are conversions without
state over time; configuration is read once and decides only the constants here;
pages that only render, metrics, traffic statistics and the audit trail decide
nothing; password hashing, cookies and field limits are checks on one request. Schema
migration and the recipients of a request are planned.

## 8. Plan

Done: `EventStore`, `Outbox`, `Delivery`, `EmitQueue`, `Supervisor`, `Notify`, `ActiveView`,
`Receiver`, `InfoFlow`, `Sources`, the APRS modules, `Channels`, `IngestHTTP`, `Compose` and
`Accounts`, model-checked; the proofs of section 6.

Next, most important first:

1. `ActiveView` composed with `Receiver` through the broker: the mirror converges to
   the store's active events; an abstract "retained view" both implement.
2. Recipients in `Notify` (a refresh that fails half-way).
3. Schema migration with a crash between steps.
