------------------------------ MODULE Receiver ------------------------------
(***************************************************************************)
(* The MQTT receivers (internal/mqttreceiver), the mirror of retained      *)
(* state they fill (internal/dispatch/state) and the ingress they feed     *)
(* (internal/dispatch/ingress.go).  Every receiver has its own broker.     *)
(* paho runs the callback of each frame in a goroutine of its own          *)
(* (SetOrderMatters(false)), so a later frame may be handled first.        *)
(*                                                                         *)
(* A frame is its topic, a version that grows with every publication and   *)
(* the form of its payload: a valid document, an empty payload, a document *)
(* of an ended hazard, a malformed one, or one above MaxPayload.           *)
(***************************************************************************)
EXTENDS Naturals, Sequences, FiniteSets

CONSTANTS
  Receivers,   \* configured receivers
  Actives,     \* topics below <prefix>/active
  MaxActive,   \* MaxActiveHazards
  QueueSize,   \* slots of the ingress
  Feeds,       \* bound: the topics published on each receiver's broker
  Flaky,       \* bound: receivers whose connection may break
  MaxFrames,   \* bound: publications
  MaxBreaks    \* bound: lost connections, failed subscriptions and browses

VARIABLES
  retained,  \* per broker: the retained frame of each topic
  up,        \* the connection of each receiver
  subs,      \* topics the broker has a subscription for
  onConnect, \* the on-connect handler: "none" or "subscribe"
  shown,     \* Status.Connected
  partial,   \* history: the connection's subscriptions are incomplete
  browse,    \* the topics a temporary subscription covers
  calls,     \* per receiver: frames whose callback has not run, oldest first
  active,    \* activeByKey: version mirrored, 0 for none
  info,      \* infoByKey, for the one info topic
  router,    \* the last valid status
  inbox,     \* the ingress queue
  closed,    \* StopIntake was called
  taken,     \* versions the consumer has taken, in order
  stopping,  \* StopIntakeAll was called
  drained,   \* Drain was called; the rule engine has stopped before
  past,      \* versions whose expires_at has passed
  frames,    \* publications so far
  breaks,    \* breaks so far
  holes      \* history: entries the mirror may have wrong, with the reason

brokerSide == <<retained, frames>>
clientSide == <<up, subs, onConnect, shown, partial, browse, breaks>>
mirror == <<active, info, router>>
ingress == <<inbox, closed, taken, drained>>
recvVars == <<brokerSide, clientSide, calls, mirror, ingress, stopping, past, holes>>

Retainable == Actives \cup {"info", "status"}
Topics == Retainable \cup {"events", "generic", "alien"}

ASSUME ReceiverConstants ==
  /\ IsFiniteSet(Actives)
  /\ Actives \cap {"info", "status", "events", "generic", "alien"} = {}
  /\ Feeds \in [Receivers -> SUBSET Topics]
  /\ Flaky \subseteq Receivers
  /\ MaxActive \in Nat \ {0}
  /\ QueueSize \in Nat \ {0}
  /\ MaxFrames \in Nat
  /\ MaxBreaks \in Nat

Forms == {"doc", "empty", "ended", "bad", "big"}

\* The payload forms that the code tells apart on a topic.
FormsOf(t) ==
  IF t \in Actives THEN Forms
  ELSE IF t \in {"generic", "alien"} THEN {"doc"} ELSE {"doc", "bad"}

Frame == [topic : Topics, ver : Nat, form : Forms]
NoFrame == [topic |-> "alien", ver |-> 0, form |-> "empty"]
Keys == Receivers \X Actives

RecvTypeOK ==
  /\ retained \in [Receivers -> [Retainable -> Frame]]
  /\ up \in [Receivers -> BOOLEAN]
  /\ subs \in [Receivers -> SUBSET Topics]
  /\ onConnect \in [Receivers -> {"none", "subscribe"}]
  /\ shown \in [Receivers -> BOOLEAN]
  /\ partial \in [Receivers -> BOOLEAN]
  /\ browse \in [Receivers -> SUBSET Topics]
  /\ calls \in [Receivers -> Seq(Frame)]
  /\ active \in [Keys -> 0 .. MaxFrames]
  /\ info \in [Receivers -> 0 .. MaxFrames]
  /\ router \in [Receivers -> 0 .. MaxFrames]
  /\ inbox \in Seq(1 .. MaxFrames) /\ Len(inbox) <= QueueSize
  /\ closed \in BOOLEAN
  /\ taken \in Seq(1 .. MaxFrames)
  /\ stopping \in BOOLEAN
  /\ drained \in BOOLEAN
  /\ past \subseteq 1 .. MaxFrames
  /\ frames \in 0 .. MaxFrames
  /\ breaks \in 0 .. MaxBreaks
  /\ holes \subseteq Keys \X {"overtaken", "missed", "full", "browsed"}

-----------------------------------------------------------------------------
(* The broker (external).                                                  *)

\* Keys of receiver r whose topic is in ts, marked with a reason.
Hole(r, ts, why) == {<<r, t>> : t \in Actives \cap ts} \X {why}

\* A publication: retained if its topic is, delivered if subscribed.  A
\* temporary subscription's handler takes the frames it covers away from the
\* default handler.
BrokerPublishes(r, t, form) ==
  LET f == [topic |-> t, ver |-> frames + 1, form |-> form]
  IN /\ frames < MaxFrames
     /\ frames' = frames + 1
     /\ retained' = IF t \in Retainable
                    THEN [retained EXCEPT ![r][t] = IF form = "empty" THEN NoFrame ELSE f]
                    ELSE retained
     /\ IF t \in subs[r] \ browse[r]
        THEN calls' = [calls EXCEPT ![r] = Append(@, f)] /\ UNCHANGED holes
        ELSE /\ UNCHANGED calls
             /\ holes' = holes \cup (IF t \in browse[r] THEN Hole(r, {t}, "browsed")
                                     ELSE IF form = "empty" THEN Hole(r, {t}, "missed")
                                     ELSE {})
     /\ UNCHANGED <<clientSide, mirror, ingress, stopping, past>>

\* The expires_at of an active document passes.
TimePasses(v) ==
  /\ \E k \in Keys : v \in {active[k], retained[k[1]][k[2]].ver} \ {0}
  /\ v \notin past
  /\ past' = past \cup {v}
  /\ UNCHANGED <<brokerSide, clientSide, calls, mirror, ingress, stopping, holes>>

-----------------------------------------------------------------------------
(* The connection of one receiver.                                         *)

\* paho connects, the first time or again, and starts the on-connect handler.
ReceiverConnects(r) ==
  /\ ~up[r]
  /\ onConnect[r] = "none"
  /\ up' = [up EXCEPT ![r] = TRUE]
  /\ onConnect' = [onConnect EXCEPT ![r] = "subscribe"]
  /\ UNCHANGED <<brokerSide, subs, shown, partial, browse, breaks, calls, mirror, ingress, stopping, past, holes>>

\* The retained frames of the topics ts, replayed by the broker.
Replayed(r, ts) ==
  LET kept == {t \in ts \cap Retainable : retained[r][t] # NoFrame}
  IN {s \in [1 .. Cardinality(kept) -> {retained[r][t] : t \in kept}] :
        \A i, j \in DOMAIN s : s[i] = s[j] => i = j}

\* Mutant: the events filter is forgotten.
SubscribeAllButEvents(r) ==
  /\ onConnect[r] = "subscribe"
  /\ up[r]
  /\ subs' = [subs EXCEPT ![r] = Topics \ {"events"}]
  /\ \E s \in Replayed(r, Topics) : calls' = [calls EXCEPT ![r] = @ \o s]
  /\ onConnect' = [onConnect EXCEPT ![r] = "none"]
  /\ shown' = [shown EXCEPT ![r] = TRUE]
  /\ partial' = [partial EXCEPT ![r] = FALSE]
  /\ UNCHANGED <<brokerSide, up, browse, breaks, mirror, ingress, stopping, past, holes>>

\* subscribe: every filter is accepted and setConnected reports it; the order
\* of the replay is the broker's.
SubscribeAll(r) ==
  /\ onConnect[r] = "subscribe"
  /\ up[r]
  /\ subs' = [subs EXCEPT ![r] = Topics]
  /\ \E s \in Replayed(r, Topics) : calls' = [calls EXCEPT ![r] = @ \o s]
  /\ onConnect' = [onConnect EXCEPT ![r] = "none"]
  /\ shown' = [shown EXCEPT ![r] = TRUE]
  /\ partial' = [partial EXCEPT ![r] = FALSE]
  /\ UNCHANGED <<brokerSide, up, browse, breaks, mirror, ingress, stopping, past, holes>>

\* One filter fails or times out: the filters before it stay, the rest are
\* never asked for on this connection.
SubscribeFails(r) ==
  /\ onConnect[r] = "subscribe"
  /\ \/ ~up[r] /\ UNCHANGED <<subs, calls, breaks, partial>>
     \/ /\ up[r]
        /\ r \in Flaky
        /\ breaks < MaxBreaks
        /\ breaks' = breaks + 1
        /\ partial' = [partial EXCEPT ![r] = TRUE]
        /\ \E done \in {{}, Actives, Topics \ Actives} :
             /\ subs' = [subs EXCEPT ![r] = done]
             /\ \E s \in Replayed(r, done) : calls' = [calls EXCEPT ![r] = @ \o s]
  /\ shown' = [shown EXCEPT ![r] = FALSE]
  /\ onConnect' = [onConnect EXCEPT ![r] = "none"]
  /\ UNCHANGED <<brokerSide, up, browse, mirror, ingress, stopping, past, holes>>

\* The connection is lost.  The session is clean: the broker forgets the
\* subscriptions.  Callbacks already started still run.
ReceiverLost(r) ==
  /\ up[r]
  /\ breaks < MaxBreaks
  /\ breaks' = breaks + 1
  /\ up' = [up EXCEPT ![r] = FALSE]
  /\ subs' = [subs EXCEPT ![r] = {}]
  /\ browse' = [browse EXCEPT ![r] = {}]
  /\ shown' = [shown EXCEPT ![r] = FALSE]
  /\ partial' = [partial EXCEPT ![r] = FALSE]
  /\ UNCHANGED <<brokerSide, onConnect, calls, mirror, ingress, stopping, past, holes>>

\* Browse subscribes to a filter with a handler of its own: the broker
\* replays what it retains to that handler.
BrowseBegins(r, ts) ==
  /\ up[r]
  /\ browse[r] = {}
  /\ breaks < MaxBreaks
  /\ breaks' = breaks + 1
  /\ browse' = [browse EXCEPT ![r] = ts]
  /\ UNCHANGED <<brokerSide, up, subs, onConnect, shown, partial, calls, mirror, ingress, stopping, past, holes>>

\* Its Unsubscribe also ends the receiver's own subscription when the filter
\* is the same one.
BrowseEnds(r) ==
  /\ browse[r] # {}
  /\ browse' = [browse EXCEPT ![r] = {}]
  /\ \/ UNCHANGED <<subs, partial>>
     \/ /\ browse[r] = Actives
        /\ subs' = [subs EXCEPT ![r] = @ \ Actives]
        /\ partial' = [partial EXCEPT ![r] = TRUE]
  /\ UNCHANGED <<brokerSide, up, onConnect, shown, breaks, calls, mirror, ingress, stopping, past, holes>>

-----------------------------------------------------------------------------
(* The callback: Ingestor.HandleMessage.                                   *)

Occupied == Cardinality({k \in Keys : active[k] # 0})

\* Mutant: the receiver is left out of the key.
AddOrUpdateActiveShared(r, t, ver) ==
  active' = [k \in Keys |-> IF k[2] = t THEN ver ELSE active[k]]

TurnedAway(r, t) == active[<<r, t>>] = 0 /\ Occupied >= MaxActive

\* Only a brand-new entry is subject to the bound.
AddOrUpdateActive(r, t, ver) ==
  active' = IF TurnedAway(r, t) THEN active ELSE [active EXCEPT ![<<r, t>>] = ver]

DeleteActive(r, t) == active' = [active EXCEPT ![<<r, t>>] = 0]

\* validateActive: the identity agrees with the topic and the payload is whole.
ValidActive(f) == f.form # "bad"

Stores(f) == f.form = "doc" /\ f.ver \notin past

\* A document that has ended or expired deletes; a malformed one is rejected.
HandleActive(r, f) ==
  /\ \/ ~ValidActive(f) /\ UNCHANGED active
     \/ ValidActive(f) /\ ~Stores(f) /\ DeleteActive(r, f.topic)
     \/ Stores(f) /\ AddOrUpdateActive(r, f.topic, f.ver)
  /\ UNCHANGED <<info, router, inbox>>

\* toWeather, EventFromWire: what the decoders accept.
WeatherReads(f) == f.form \in {"doc", "ended"}
EventFromWire(f) == f.form \in {"doc", "ended"}

HandleInfo(r, f) ==
  /\ info' = IF WeatherReads(f) THEN [info EXCEPT ![r] = f.ver] ELSE info
  /\ UNCHANGED <<active, router, inbox>>

HandleStatus(r, f) ==
  /\ router' = IF f.form = "doc" THEN [router EXCEPT ![r] = f.ver] ELSE router
  /\ UNCHANGED <<active, info, inbox>>

\* Mutant: a full ingress makes room for the newest event.
EnqueueNewest(ver) ==
  inbox' = IF closed THEN inbox
           ELSE IF Len(inbox) < QueueSize THEN Append(inbox, ver) ELSE Append(Tail(inbox), ver)

\* Ingress.Enqueue never blocks: full or closed, the event is dropped.
Enqueue(ver) ==
  inbox' = IF ~closed /\ Len(inbox) < QueueSize THEN Append(inbox, ver) ELSE inbox

\* A transition is validated, a generic frame is taken as it is.
HandleEvent(r, f) ==
  /\ IF f.topic = "generic" \/ EventFromWire(f) THEN Enqueue(f.ver) ELSE UNCHANGED inbox
  /\ UNCHANGED mirror

Without(s, i) == SubSeq(s, 1, i - 1) \o SubSeq(s, i + 1, Len(s))

\* History: handling frame i makes its key doubtful when an older frame of
\* the topic still waits or the bound turned it away, and settles it when it
\* is the only frame of the topic and what the broker retains.
NewHoles(r, i) ==
  LET f == calls[r][i]
      others == {j \in DOMAIN calls[r] \ {i} : calls[r][j].topic = f.topic}
      kept == retained[r][f.topic]
      settled == others = {} /\ kept = (IF f.form = "empty" THEN NoFrame ELSE f)
  IN IF f.topic \notin Actives \/ f.form = "big" THEN holes
     ELSE (holes \ (IF settled THEN {h \in holes : h[1] = <<r, f.topic>>} ELSE {}))
            \cup (IF Stores(f) /\ TurnedAway(r, f.topic) THEN Hole(r, {f.topic}, "full") ELSE {})
            \cup (IF \E j \in others : j < i THEN Hole(r, {f.topic}, "overtaken") ELSE {})

\* Oversized frames and unknown topics of the protocol's namespace are
\* counted and dropped.
HandleMessage(r, i) ==
  LET f == calls[r][i]
  IN /\ calls' = [calls EXCEPT ![r] = Without(@, i)]
     /\ holes' = NewHoles(r, i)
     /\ \/ (f.form = "big" \/ f.topic = "alien") /\ UNCHANGED <<mirror, inbox>>
        \/ f.form # "big" /\ f.topic \in Actives /\ HandleActive(r, f)
        \/ f.form # "big" /\ f.topic = "info" /\ HandleInfo(r, f)
        \/ f.form # "big" /\ f.topic = "status" /\ HandleStatus(r, f)
        \/ f.form # "big" /\ f.topic \in {"events", "generic"} /\ HandleEvent(r, f)
     /\ UNCHANGED <<brokerSide, clientSide, closed, taken, drained, stopping, past>>

-----------------------------------------------------------------------------
(* Readers and shutdown.                                                   *)

\* Snapshot first prunes what has expired since it was mirrored.
Snapshot ==
  /\ \E k \in Keys : active[k] \in past
  /\ active' = [k \in Keys |-> IF active[k] \in past THEN 0 ELSE active[k]]
  /\ UNCHANGED <<brokerSide, clientSide, calls, info, router, ingress, stopping, past, holes>>

\* The rule engine takes the next event; it has stopped before Drain.
ConsumeEvent ==
  /\ inbox # <<>>
  /\ ~drained
  /\ taken' = Append(taken, Head(inbox))
  /\ inbox' = Tail(inbox)
  /\ UNCHANGED <<brokerSide, clientSide, calls, mirror, closed, drained, stopping, past, holes>>

\* StopIntakeAll: every receiver unsubscribes, without waiting for the
\* broker; callbacks already started still run, and so do the on-connect
\* handler and the reconnection of the client.
StopIntakeAll ==
  /\ ~stopping
  /\ stopping' = TRUE
  /\ subs' = [r \in Receivers |-> {}]
  /\ shown' = [r \in Receivers |-> FALSE]
  /\ UNCHANGED <<brokerSide, up, onConnect, partial, browse, breaks, calls, mirror, ingress, past, holes>>

\* Drain discards what is queued, ...
DrainIngress ==
  /\ stopping
  /\ ~drained
  /\ drained' = TRUE
  /\ inbox' = <<>>
  /\ UNCHANGED <<brokerSide, clientSide, calls, mirror, closed, taken, stopping, past, holes>>

\* ... and StopIntake then closes the channel.
StopIntake ==
  /\ drained
  /\ ~closed
  /\ closed' = TRUE
  /\ UNCHANGED <<brokerSide, clientSide, calls, mirror, inbox, taken, drained, stopping, past, holes>>

RecvInit ==
  /\ retained = [r \in Receivers |-> [t \in Retainable |-> NoFrame]]
  /\ up = [r \in Receivers |-> FALSE]
  /\ subs = [r \in Receivers |-> {}]
  /\ onConnect = [r \in Receivers |-> "none"]
  /\ shown = [r \in Receivers |-> FALSE]
  /\ partial = [r \in Receivers |-> FALSE]
  /\ browse = [r \in Receivers |-> {}]
  /\ calls = [r \in Receivers |-> <<>>]
  /\ active = [k \in Keys |-> 0]
  /\ info = [r \in Receivers |-> 0]
  /\ router = [r \in Receivers |-> 0]
  /\ inbox = <<>>
  /\ closed = FALSE
  /\ taken = <<>>
  /\ stopping = FALSE
  /\ drained = FALSE
  /\ past = {}
  /\ frames = 0
  /\ breaks = 0
  /\ holes = {}

HandleNext(r) == \E i \in DOMAIN calls[r] : HandleMessage(r, i)
ConnectNext(r) == ReceiverConnects(r) \/ SubscribeAll(r) \/ SubscribeFails(r)

RecvNext ==
  \/ \E r \in Receivers :
       \/ \E t \in Feeds[r] : \E form \in FormsOf(t) : BrokerPublishes(r, t, form)
       \/ ConnectNext(r)
       \/ BrowseEnds(r)
       \/ HandleNext(r)
  \/ \E r \in Flaky : ReceiverLost(r) \/ \E ts \in {Actives, Topics} : BrowseBegins(r, ts)
  \/ \E v \in 1 .. MaxFrames : TimePasses(v)
  \/ Snapshot
  \/ ConsumeEvent
  \/ StopIntakeAll
  \/ DrainIngress
  \/ StopIntake

RecvSpec == RecvInit /\ [][RecvNext]_recvVars

\* paho keeps trying to connect, and the on-connect handler it starts ends.
RecvFairness == \A r \in Receivers : WF_recvVars(ConnectNext(r))

FairRecvSpec == RecvSpec /\ RecvFairness

-----------------------------------------------------------------------------
(* Properties.                                                             *)

\* What the broker says of a key now, 0 for not active.
Expected(k) ==
  LET f == retained[k[1]][k[2]] IN IF f.form = "doc" /\ f.ver \notin past THEN f.ver ELSE 0

Judgeable(k) == retained[k[1]][k[2]] = NoFrame \/ retained[k[1]][k[2]].form \in {"doc", "ended"}

\* Receiver r is subscribed to t and has no callback left to run.
Settled(r, t) == t \in subs[r] /\ calls[r] = <<>>

\* The mirror of a subscribed receiver with no callback left to run shows
\* exactly what its broker retains, for every key that none of the four known
\* holes has touched since the retained frame was last handled alone:
\* callbacks out of order, a deletion while away, the size bound, a browse
\* over the same topics.
MirrorExact ==
  \A k \in Keys :
    Settled(k[1], k[2]) /\ Judgeable(k) /\ (\A h \in holes : h[1] # k)
      => (IF active[k] \in past THEN 0 ELSE active[k]) = Expected(k)

\* What Enqueue has accepted stays for the rule engine, in the order of
\* acceptance, however many callbacks come while the engine is busy and the
\* queue is full; only Drain takes it away.
AcceptedIsTaken ==
  [][drained' \/ SubSeq(taken' \o inbox', 1, Len(taken \o inbox)) = taken \o inbox]_recvVars

\* What Drain's comment says (ingress.go:82-85): accepted events "are removed
\* rather than left undelivered" when no consumer runs any more.
NothingLeftBehind == closed => inbox = <<>>

\* What StopIntakeAll's comment says (manager.go:87-88): it "unsubscribes every
\* receiver so no new messages reach the dispatch ingress".
IntakeStaysStopped ==
  [][stopping => \A r \in Receivers : Len(calls'[r]) <= Len(calls[r])]_recvVars

\* Every receiver ends up subscribed to all its topics again, unless one
\* subscription of its last connection failed or a browse took it away: then
\* nothing asks again until the connection is lost.
Resubscribed ==
  \A r \in Receivers :
    <>[](subs[r] = Topics \/ stopping \/ partial[r])

\* What the package comment of dispatch/state says: the mirror "is
\* reconstructed from retained topics after every MQTT reconnect".
Reconstructed ==
  \A k \in Keys :
    Settled(k[1], k[2]) /\ Judgeable(k) /\ (\A h \in holes : h[1] = k => h[2] = "missed")
      => (IF active[k] \in past THEN 0 ELSE active[k]) = Expected(k)
=============================================================================
