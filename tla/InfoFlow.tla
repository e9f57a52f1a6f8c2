------------------------------ MODULE InfoFlow ------------------------------
(***************************************************************************)
(* The auxiliary traffic of an output worker: the latest-state snapshots   *)
(* of the weather, aircraft and air-quality sources, and the status        *)
(* heartbeat.  A source polls its provider and hands each snapshot to      *)
(* Manager.emitInformation, which puts it into the worker's coalescing     *)
(* queue; the worker calls the MQTT output with a bounded context and      *)
(* switches the capability off for good when the call outlives it          *)
(* (internal/plugin/manager.go, internal/plugin/output_worker.go,          *)
(* internal/plugins/outputs/mqtt/mqtt.go).                                 *)
(*                                                                         *)
(* A snapshot is the number of the poll it was made in.  The MQTT client   *)
(* keeps what it has accepted and sends it in order, also after a          *)
(* reconnect.  Hazard delivery by the same worker is module Delivery; the  *)
(* intervals between polls, retries and heartbeats are not measured.       *)
(***************************************************************************)
EXTENDS Naturals, Sequences, FiniteSets

CONSTANTS
  Programs,     \* configurations: the sources, and whether there is a heartbeat
  SnapKeys,     \* the topics of each source, in the order of its poll
  AirKeys,      \* the air-quality companions among Open-Meteo's topics
  InfoCap,      \* maxInfoPending
  MaxRounds,    \* bound: polls of each source
  MaxBeats,     \* bound: heartbeats
  MaxLosses     \* bound: lost connections

InfoSources == {"openmeteo", "metar", "adsb", "giosaq"}
InfoTopics == UNION {{SnapKeys[s][i] : i \in DOMAIN SnapKeys[s]} : s \in InfoSources}

\* informationTopic names the source, so two sources never share a topic.
ASSUME InfoAssumption ==
  /\ \A s \in InfoSources : SnapKeys[s] \in Seq(InfoTopics)
  /\ \A s, t \in InfoSources :
       s # t => \A i \in DOMAIN SnapKeys[s], j \in DOMAIN SnapKeys[t] :
                  SnapKeys[s][i] # SnapKeys[t][j]
  /\ "status" \notin InfoTopics

VARIABLES
  program,    \* the configuration: its sources and heartbeat
  src,        \* per source: where its poll is, topics left, counters
  rounds,     \* per source: polls begun
  health,     \* per source: what it last reported
  queued,    \* infoPending: topic -> snapshot, 0 when absent
  notify,     \* infoNotify holds a token
  infoOff,    \* infoDisabled
  statusOff,  \* statusDisabled
  aux,        \* where the worker's loop is
  call,       \* the callback the worker waits for
  strays,     \* callbacks it has abandoned
  beats,      \* heartbeats begun
  uplink,       \* the client's connection
  losses,     \* connections lost so far
  unacked,       \* messages the client has accepted and not seen acknowledged
  kept,   \* the broker's retained snapshot of each topic, 0 when none
  presence,   \* the broker's retained status
  halt        \* how far the shutdown has come

sourceSide == <<program, src, rounds, health>>
queueSide == <<queued, notify, infoOff, statusOff>>
workerSide == <<aux, call, strays, beats>>
brokerSide == <<uplink, losses, unacked, kept, presence>>
infoVars == <<sourceSide, queueSide, workerSide, brokerSide, halt>>

IdlePoll == [at |-> "idle", todo |-> <<>>, good |-> FALSE, bad |-> FALSE]
NoCallback == [kind |-> "none", topic |-> "none", snap |-> 0, at |-> "done", expired |-> FALSE]

-----------------------------------------------------------------------------
(* The polls.  `good' and `bad' are succeeded > 0 and firstErr # nil.      *)

Becomes(s, r) == src' = [src EXCEPT ![s] = r]
Reports(s, h) == health' = [health EXCEPT ![s] = h]

\* The poll goes on behind the first topic left.
After(s, good, bad) ==
  [src[s] EXCEPT !.at = "fetch", !.todo = Tail(@), !.good = @ \/ good, !.bad = @ \/ bad]

Fetching(s) == src[s].at = "fetch" /\ src[s].todo # <<>>

\* The head of Run's loop: nothing is polled once the context is cancelled.
InfoPollBegins(s) ==
  /\ s \in program.sources
  /\ src[s].at = "idle"
  /\ halt = "no"
  /\ rounds[s] < MaxRounds[s]
  /\ rounds' = [rounds EXCEPT ![s] = @ + 1]
  /\ Becomes(s, [IdlePoll EXCEPT !.at = IF s = "openmeteo" THEN "fetch" ELSE "batch",
                             !.todo = SnapKeys[s]])
  /\ UNCHANGED <<program, health, queueSide, workerSide, brokerSide, halt>>

\* The cancellation ends the poll between two topics.  Open-Meteo still
\* reports; the others return the context's error, which nobody reports.
PollCancelled(s) ==
  /\ halt # "no"
  /\ src[s].at = "batch" \/ Fetching(s)
  /\ Becomes(s, IF s = "openmeteo" THEN [src[s] EXCEPT !.todo = <<>>] ELSE IdlePoll)
  /\ UNCHANGED <<program, rounds, health, queueSide, workerSide, brokerSide, halt>>

\* METAR and ADS-B ask for everything at once; a failure is the whole poll's.
BatchAnswer(s, ok) ==
  /\ src[s].at = "batch"
  /\ IF ok THEN Becomes(s, [src[s] EXCEPT !.at = "fetch"]) /\ UNCHANGED health
           ELSE Becomes(s, IdlePoll) /\ Reports(s, "degraded")
  /\ UNCHANGED <<program, rounds, queueSide, workerSide, brokerSide, halt>>

FetchReports(ok) == BatchAnswer("metar", ok)
FetchTargets(ok) == BatchAnswer("adsb", ok)

\* The station directory; without it there is no station poll, and the
\* health of the source is left to its alert poll.
RefreshStations(ok) ==
  /\ src["giosaq"].at = "batch"
  /\ Becomes("giosaq", IF ok THEN [src["giosaq"] EXCEPT !.at = "fetch"] ELSE IdlePoll)
  /\ UNCHANGED <<program, rounds, health, queueSide, workerSide, brokerSide, halt>>

\* The first topic left has a snapshot to emit, or is passed over.
Made(s, counted) == Becomes(s, [src[s] EXCEPT !.at = "emit", !.good = @ \/ counted])
PassedOver(s, bad) == Becomes(s, After(s, FALSE, bad))
AtAir == Head(src["openmeteo"].todo) \in AirKeys

\* Open-Meteo counts a location as soon as it is fetched ...
FetchLocation(ok) ==
  /\ Fetching("openmeteo")
  /\ ~AtAir
  /\ IF ok THEN Made("openmeteo", TRUE) ELSE PassedOver("openmeteo", TRUE)
  /\ UNCHANGED <<program, rounds, health, queueSide, workerSide, brokerSide, halt>>

\* ... and its air-quality companion not at all.
FetchAirQuality(ok) ==
  /\ Fetching("openmeteo")
  /\ AtAir
  /\ IF ok THEN Made("openmeteo", FALSE) ELSE PassedOver("openmeteo", FALSE)
  /\ UNCHANGED <<program, rounds, health, queueSide, workerSide, brokerSide, halt>>

\* METAR: the batch has a usable report of the station ("ok"), none, or one
\* that cannot be normalised ("bad").
NormalizeReport(report) ==
  /\ Fetching("metar")
  /\ IF report = "ok" THEN Made("metar", FALSE) ELSE PassedOver("metar", report = "bad")
  /\ UNCHANGED <<program, rounds, health, queueSide, workerSide, brokerSide, halt>>

\* ADS-B: one document of all aircraft in the area.
BuildSnapshot ==
  /\ Fetching("adsb")
  /\ Made("adsb", FALSE)
  /\ UNCHANGED <<program, rounds, health, queueSide, workerSide, brokerSide, halt>>

\* GIOS: a station outside the area or without an index is passed over, as is
\* one whose snapshot has no usable code.
SkipStation ==
  /\ Fetching("giosaq")
  /\ PassedOver("giosaq", FALSE)
  /\ UNCHANGED <<program, rounds, health, queueSide, workerSide, brokerSide, halt>>

AqSnapshot ==
  /\ Fetching("giosaq")
  /\ Made("giosaq", FALSE)
  /\ UNCHANGED <<program, rounds, health, queueSide, workerSide, brokerSide, halt>>

-----------------------------------------------------------------------------
(* Manager.emitInformation and outputWorker.enqueueInfo.                   *)

Waiting == {k \in InfoTopics : queued[k] # 0}

\* A waiting topic is replaced; a new one needs a free place.
Room(k) == k \in Waiting \/ Cardinality(Waiting) < InfoCap

\* The slug, size and time checks pass for what these sources build; what is
\* left is whether the manager accepts and the worker still publishes.
Accepts(k) == halt = "no" /\ ~infoOff /\ Room(k)

\* The snapshot replaces what waits for the topic; the wakeup follows after
\* the lock is released.  METAR and ADS-B count a snapshot when it is taken.
EmitInformation(s) ==
  LET k == Head(src[s].todo)
  IN /\ src[s].at = "emit"
     /\ Accepts(k)
     /\ queued' = [queued EXCEPT ![k] = rounds[s]]
     /\ Becomes(s, [After(s, s \in {"metar", "adsb"}, FALSE) EXCEPT !.at = "wake"])
     /\ UNCHANGED <<program, rounds, health, notify, infoOff, statusOff,
                    workerSide, brokerSide, halt>>

\* The error is logged; only METAR and ADS-B hold it against the poll.
EmitRefused(s) ==
  /\ src[s].at = "emit"
  /\ ~Accepts(Head(src[s].todo))
  /\ Becomes(s, After(s, FALSE, s \in {"metar", "adsb"}))
  /\ UNCHANGED <<program, rounds, health, queueSide, workerSide, brokerSide, halt>>

WakeWorker(s) ==
  /\ src[s].at = "wake"
  /\ notify' = TRUE
  /\ Becomes(s, [src[s] EXCEPT !.at = "fetch"])
  /\ UNCHANGED <<program, rounds, health, queued, infoOff, statusOff,
                 workerSide, brokerSide, halt>>

\* What the poll says of the source's health.  Open-Meteo says nothing when
\* it neither fetched nor failed, and the station poll never does.
PollReport(s) ==
  CASE src[s].good /\ s # "giosaq" -> "healthy"
    [] ~src[s].good /\ s = "openmeteo" /\ src[s].bad -> "degraded"
    [] ~src[s].good /\ s \in {"metar", "adsb"} /\ halt = "no" -> "degraded"
    [] OTHER -> health[s]

InfoPollEnds(s) ==
  /\ src[s].at = "fetch"
  /\ src[s].todo = <<>>
  /\ Becomes(s, IdlePoll)
  /\ Reports(s, PollReport(s))
  /\ UNCHANGED <<program, rounds, queueSide, workerSide, brokerSide, halt>>

-----------------------------------------------------------------------------
(* The worker's loop: one snapshot or one heartbeat at a time.             *)

\* deliverPendingInfo pops one waiting snapshot, in the map's order.
TakeInfo ==
  /\ aux = "loop"
  /\ halt # "workers"
  /\ notify
  /\ notify' = FALSE
  /\ \/ /\ infoOff \/ Waiting = {}
        /\ UNCHANGED <<queued, aux, call>>
     \/ /\ ~infoOff
        /\ \E k \in Waiting :
             /\ queued' = [queued EXCEPT ![k] = 0]
             /\ call' = [kind |-> "info", topic |-> k, snap |-> queued[k],
                         at |-> "connect", expired |-> FALSE]
        /\ aux' = "call"
  /\ UNCHANGED <<sourceSide, infoOff, statusOff, strays, beats, brokerSide, halt>>

\* publishStatus first collects the status, under the callback's context.
HeartbeatDue ==
  /\ aux = "loop"
  /\ halt # "workers"
  /\ program.heartbeat
  /\ ~statusOff
  /\ beats < MaxBeats
  /\ beats' = beats + 1
  /\ aux' = "health"
  /\ UNCHANGED <<sourceSide, queueSide, call, strays, brokerSide, halt>>

\* A stalled database uses the context up before the callback starts.
HealthCollected(stalled) ==
  /\ aux = "health"
  /\ call' = [kind |-> "status", topic |-> "status", snap |-> beats,
              at |-> "connect", expired |-> stalled]
  /\ aux' = "call"
  /\ UNCHANGED <<sourceSide, queueSide, strays, beats, brokerSide, halt>>

\* The timeout fires, or the worker's own context is cancelled.
CallExpires ==
  /\ aux = "call"
  /\ ~call.expired
  /\ call' = [call EXCEPT !.expired = TRUE]
  /\ UNCHANGED <<sourceSide, queueSide, aux, strays, beats, brokerSide, halt>>

\* The result is received; an error is only logged.
CallReturns ==
  /\ aux = "call"
  /\ call.at = "done"
  /\ aux' = IF call.kind = "info" THEN "rearm" ELSE "loop"
  /\ call' = NoCallback
  /\ UNCHANGED <<sourceSide, queueSide, strays, beats, brokerSide, halt>>

Abandoned ==
  /\ aux = "call"
  /\ call.expired
  /\ aux' = "loop"
  /\ call' = NoCallback
  /\ strays' = IF call.at = "done" THEN strays ELSE strays \cup {call}
  /\ UNCHANGED <<sourceSide, queued, notify, beats, brokerSide, halt>>

\* Mutant: the call is abandoned and the capability stays on.
CallAbandonedOnly == Abandoned /\ UNCHANGED <<infoOff, statusOff>>

\* The select takes callCtx.Done: the capability is switched off for good.
\* It may do so when the result is there as well.
CallAbandoned ==
  /\ Abandoned
  /\ infoOff' = (infoOff \/ call.kind = "info")
  /\ statusOff' = (statusOff \/ call.kind = "status")

\* Mutant: the worker goes back to its loop without looking.
RearmSkipped ==
  /\ aux = "rearm"
  /\ aux' = "loop"
  /\ UNCHANGED <<sourceSide, queueSide, call, strays, beats, brokerSide, halt>>

\* What still waits gets a wakeup of its own.
Rearm ==
  /\ aux = "rearm"
  /\ aux' = "loop"
  /\ notify' = (notify \/ Waiting # {})
  /\ UNCHANGED <<sourceSide, queued, infoOff, statusOff, call, strays, beats,
                 brokerSide, halt>>

-----------------------------------------------------------------------------
(* PublishInformation and PublishStatus of the MQTT output: connect, hand  *)
(* the message to the client, wait for the acknowledgment.                 *)

Message(c) == [topic |-> c.topic, snap |-> c.snap]
OnWire(m) == \E i \in DOMAIN unacked : unacked[i] = m

\* ensureConnected: a client that is reconnecting counts as connected.
EnsureConnected(c, d) ==
  /\ c.at = "connect"
  /\ UNCHANGED <<losses, unacked, kept, presence>>
  /\ \/ /\ uplink \in {"open", "lost"}
        /\ d = [c EXCEPT !.at = "publish"]
        /\ UNCHANGED uplink
     \/ /\ uplink \in {"never", "closed"}
        /\ \/ uplink' = "open" /\ d = [c EXCEPT !.at = "publish"]
           \/ uplink' = uplink /\ d = [c EXCEPT !.at = "done"]

\* The client takes the message while it has or expects a connection.
PublishSnapshot(c, d) ==
  /\ c.at = "publish"
  /\ \/ /\ uplink \in {"open", "lost"}
        /\ unacked' = Append(unacked, Message(c))
        /\ d = [c EXCEPT !.at = "wait"]
     \/ /\ uplink \in {"never", "closed"}
        /\ d = [c EXCEPT !.at = "done"]
        /\ UNCHANGED unacked
  /\ UNCHANGED <<uplink, losses, kept, presence>>

\* The token is done, or the context is.
AwaitToken(c, d) ==
  /\ c.at = "wait"
  /\ ~OnWire(Message(c)) \/ c.expired
  /\ d = [c EXCEPT !.at = "done"]
  /\ UNCHANGED brokerSide

CallbackStep(c, d) == EnsureConnected(c, d) \/ PublishSnapshot(c, d) \/ AwaitToken(c, d)

NextOf(c) == {[c EXCEPT !.at = a] : a \in {"publish", "wait", "done"}}

CallProceeds ==
  /\ aux = "call"
  /\ \E d \in NextOf(call) : CallbackStep(call, d) /\ call' = d
  /\ UNCHANGED <<sourceSide, queueSide, aux, strays, beats, halt>>

StrayProceeds ==
  \E c \in strays : \E d \in NextOf(c) :
    /\ CallbackStep(c, d)
    /\ strays' = (strays \ {c}) \cup (IF d.at = "done" THEN {} ELSE {d})
    /\ UNCHANGED <<sourceSide, queueSide, aux, call, beats, halt>>

-----------------------------------------------------------------------------
(* The client and the broker (external).                                   *)

Offline == [topic |-> "status", snap |-> 0]

\* The broker retains the message.
Retains(m) ==
  IF m.topic = "status"
    THEN /\ presence' = IF m = Offline THEN "offline" ELSE "online"
         /\ UNCHANGED kept
    ELSE /\ kept' = [kept EXCEPT ![m.topic] = m.snap]
         /\ UNCHANGED presence

BrokerAcks ==
  /\ uplink = "open"
  /\ unacked # <<>>
  /\ Retains(Head(unacked))
  /\ unacked' = Tail(unacked)
  /\ UNCHANGED <<sourceSide, queueSide, workerSide, uplink, losses, halt>>

\* The connection breaks, possibly between a message and its
\* acknowledgment; the broker publishes the last will.
LinkBreaks ==
  /\ uplink = "open"
  /\ losses < MaxLosses
  /\ losses' = losses + 1
  /\ uplink' = "lost"
  /\ presence' = "offline"
  /\ \/ UNCHANGED kept
     \/ /\ unacked # <<>>
        /\ Head(unacked).topic \in InfoTopics
        /\ kept' = [kept EXCEPT ![Head(unacked).topic] = Head(unacked).snap]
  /\ UNCHANGED <<sourceSide, queueSide, workerSide, unacked, halt>>

LinkReturns ==
  /\ uplink = "lost"
  /\ uplink' = "open"
  /\ UNCHANGED <<sourceSide, queueSide, workerSide, losses, unacked, kept, presence,
                 halt>>

-----------------------------------------------------------------------------
(* Shutdown.                                                               *)

\* The application's context stops the sources; the workers' own context is
\* cancelled last, at the latest when the sources' grace is over.
Shutdown ==
  /\ halt # "workers"
  /\ halt' = IF halt = "no" THEN "sources" ELSE "workers"
  /\ UNCHANGED <<sourceSide, queueSide, workerSide, brokerSide>>

\* Close publishes the offline status on an open connection.
CloseOutput ==
  /\ aux = "loop"
  /\ halt = "workers"
  /\ aux' = "closing"
  /\ unacked' = IF uplink = "open" THEN Append(unacked, Offline) ELSE unacked
  /\ UNCHANGED <<sourceSide, queueSide, call, strays, beats, uplink, losses, kept,
                 presence, halt>>

\* It waits for the acknowledgment or its time limit and disconnects.
Disconnect ==
  /\ aux = "closing"
  /\ aux' = "closed"
  /\ uplink' = "closed"
  /\ unacked' = <<>>
  /\ UNCHANGED <<sourceSide, queueSide, call, strays, beats, losses, kept,
                 presence, halt>>

-----------------------------------------------------------------------------

InfoInit ==
  /\ program \in Programs
  /\ src = [s \in InfoSources |-> IdlePoll]
  /\ rounds = [s \in InfoSources |-> 0]
  /\ health = [s \in InfoSources |-> "unknown"]
  /\ queued = [k \in InfoTopics |-> 0]
  /\ notify = FALSE
  /\ infoOff = FALSE
  /\ statusOff = FALSE
  /\ aux = "loop"
  /\ call = NoCallback
  /\ strays = {}
  /\ beats = 0
  /\ uplink = "never"
  /\ losses = 0
  /\ unacked = <<>>
  /\ kept = [k \in InfoTopics |-> 0]
  /\ presence = "none"
  /\ halt = "no"

ProviderNext ==
  \/ \E ok \in BOOLEAN : \/ FetchReports(ok) \/ FetchTargets(ok) \/ RefreshStations(ok)
                         \/ FetchLocation(ok) \/ FetchAirQuality(ok)
  \/ \E report \in {"ok", "none", "bad"} : NormalizeReport(report)
  \/ BuildSnapshot
  \/ SkipStation
  \/ AqSnapshot

SourceNext(s) ==
  \/ InfoPollBegins(s)
  \/ PollCancelled(s)
  \/ EmitInformation(s)
  \/ EmitRefused(s)
  \/ WakeWorker(s)
  \/ InfoPollEnds(s)

InfoNext ==
  \/ ProviderNext
  \/ \E s \in InfoSources : SourceNext(s)
  \/ TakeInfo
  \/ HeartbeatDue
  \/ \E stalled \in BOOLEAN : HealthCollected(stalled)
  \/ CallExpires
  \/ CallReturns
  \/ CallAbandoned
  \/ Rearm
  \/ CallProceeds
  \/ StrayProceeds
  \/ BrokerAcks
  \/ LinkBreaks
  \/ LinkReturns
  \/ Shutdown
  \/ CloseOutput
  \/ Disconnect

InfoSpec == InfoInit /\ [][InfoNext]_infoVars

-----------------------------------------------------------------------------
(* Properties.                                                             *)

\* A snapshot that waits is never forgotten by a worker at rest: its wakeup
\* is in the channel or about to be sent.  The wakeups are coalesced into one
\* token and one pass takes one snapshot, so this rests on the re-arm of
\* deliverPendingInfo (output_worker.go:272) and on the order of enqueueInfo's
\* write and wakeup (output_worker.go:127).
NoLostWakeup ==
  (/\ Waiting # {}
   /\ ~infoOff
   /\ aux # "rearm"
   /\ call.kind # "info")
  => notify \/ \E s \in InfoSources : src[s].at = "wake"

\* The retained document of a topic never goes back to an older snapshot,
\* although a callback the worker has given up may still reach the broker
\* (output_worker.go:254): nothing newer may be sent before it.
NeverBackInTime ==
  [][\A k \in InfoTopics : kept'[k] >= kept[k]]_infoVars
=============================================================================
