------------------------------ MODULE AprsHub ------------------------------
(***************************************************************************)
(* The APRS hub (internal/aprs/hub.go): the merge point of the radio and   *)
(* the internet backend.  One worker applies the queued observations,      *)
(* expires silent stations and keeps one retained MQTT document per        *)
(* station.  Messages and their acknowledgments are in AprsOut.       *)
(*                                                                         *)
(* A packet is a record; `body' is its content digest (packetDigest), so   *)
(* two packets with the same body agree in everything but their path.      *)
(* Times are kept as ages, capped one above the longest limit they are     *)
(* compared with, so the model has no horizon.                             *)
(***************************************************************************)
EXTENDS Naturals, Sequences, FiniteSets, FiniteSetsExt

CONSTANTS
    Me,             \* our callsign
    Stations,       \* callsigns the hub can hear, ours included
    Backends,       \* the receivers: the radio and the internet backend
    Packets,        \* what the backends can hear (see PacketOK)
    StationTTL,     \* cfg.StationTTL, in clock ticks
    DigestWindow,   \* packetDigestWindow, in clock ticks
    OpsQueueSize,   \* opsQueueSize
    MaxWire,        \* bound: publications the client still holds
    MaxRestarts     \* bound: restarts of the process

NoDoc == [none |-> TRUE]

(* A parsed packet as far as the hub looks at it. *)
PacketOK(p) ==
    /\ p.src \in Stations /\ p.body # "none"
    /\ {p.far, p.infra, p.text, p.approved} \subseteq BOOLEAN

ASSUME HubAssumption ==
    /\ Me \in Stations
    /\ \A p \in Packets : PacketOK(p)
    /\ \A p, q \in Packets :
          p.body = q.body => p.src = q.src
    /\ {StationTTL, DigestWindow, OpsQueueSize, MaxWire, MaxRestarts} \subseteq Nat

VARIABLES
    stations,   \* Hub.stations: callsign -> record
    pass,       \* what the running maintenance has left to publish
    seen,       \* Hub.seenDigests: body -> age
    ops,        \* Hub.ops
    retained,   \* the broker's aprs/stations/<callsign> topics
    wire,       \* publications reported as failed that may still arrive
    feed,       \* history: body -> age of its last packet-feed publication
    again,      \* history: bodies on the packet feed twice within the window
    lostDelete, \* history: stations whose topic deletion failed
    told,       \* history: which packet of which station became an event from which
                \* receiver while the station is on record, and whether another
                \* packet of the station has come since
    repeats,    \* history: the same of those that became an event again
    restarts

registry == <<stations, pass, seen>>
broker == <<retained, wire, lostDelete>>
hubVars == <<stations, pass, seen, ops, retained, wire, feed, again,
          lostDelete, told, repeats, restarts>>

-----------------------------------------------------------------------------
(***************************************************************************)
(* Publishing.  A publication that returns an error was either lost, or    *)
(* timed out and is still held by the MQTT client, which sends in order:   *)
(* whatever is confirmed later was preceded by everything still held.      *)
(***************************************************************************)
Put(topics, pub) == [topics EXCEPT ![pub.station] = pub.doc]
About(q, c) == {i \in DOMAIN q : q[i].station = c}
Flushed(topics, q) ==
    [c \in Stations |-> IF About(q, c) = {} THEN topics[c] ELSE q[Max(About(q, c))].doc]

(* publishWithTimeout over PublishRaw: the broker, the client's queue and    *)
(* whether the caller sees an error.                                       *)
PublishOutcomes(b, pub) ==
    {[topics |-> Put(Flushed(b.topics, b.held), pub), held |-> <<>>, err |-> FALSE],
     [topics |-> b.topics, held |-> b.held, err |-> TRUE]}
    \cup IF Len(b.held) < MaxWire
         THEN {[topics |-> b.topics, held |-> Append(b.held, pub), err |-> TRUE]}
         ELSE {}

Broker == [topics |-> retained, held |-> wire, err |-> FALSE]

SetBroker(b) == retained' = b.topics /\ wire' = b.held

(* buildStationDoc: the parts of the document that change. *)
DocOf(rec) == [self |-> rec.self, last |-> rec.last, via |-> rec.via]

StationDoc(c, rec) == [station |-> c, doc |-> DocOf(rec)]

PublishedForgiving(b, c, rec) ==    \* mutant
    {[broker |-> o, rec |-> [rec EXCEPT !.dirty = FALSE]] :
        o \in PublishOutcomes(b, StationDoc(c, rec))}

(* publishStation: the record is clean exactly when the broker confirmed. *)
Published(b, c, rec) ==
    {[broker |-> o, rec |-> [rec EXCEPT !.dirty = o.err]] :
        o \in PublishOutcomes(b, StationDoc(c, rec))}

-----------------------------------------------------------------------------
(***************************************************************************)
(* One observation.                                                        *)
(***************************************************************************)
NewRecord == [self |-> FALSE, last |-> "none", via |-> {}, age |-> 0, dirty |-> FALSE]

Record(c) == IF c \in DOMAIN stations THEN stations[c] ELSE NewRecord

(* stationRecord.merge: the station's document now shows this packet, the    *)
(* receivers that heard the station and that it was just heard.            *)
Merge(rec, p, via) ==
    [rec EXCEPT !.last = p.body, !.via = @ \cup {via}, !.age = 0]

(* apply: objects, infrastructure and positions outside the area are dropped. *)
Filtered(p) == p.infra \/ p.far

(* apply: the same content as the station's last packet, from a receiver    *)
(* that already heard the station, is skipped.                             *)
Duplicate(p, via) ==
    LET rec == Record(p.src) IN p.body = rec.last /\ via \in rec.via

FirstSeenByReceiver(p) ==                                       \* mutant
    p.body # Record(p.src).last

(* publishPacket: once per digest while the digest is remembered. *)
FirstSeen(p) == p.body \notin DOMAIN seen

(* publishPacket: the digest goes out on the feed, in the history with its age. *)
PublishPacket(p) ==
    /\ feed' = IF FirstSeen(p)
               THEN [d \in DOMAIN feed \cup {p.body} |->
                        IF d = p.body THEN 0 ELSE feed[d]]
               ELSE feed
    /\ again' = IF FirstSeen(p) /\ p.body \in DOMAIN feed /\ feed[p.body] <= DigestWindow
                THEN again \cup {p.body} ELSE again

(* routableMessage: a text for us that is neither ours nor an ack or rej. *)
RoutableMessage(p) == p.text /\ p.src # Me

(* senderApproved: the gate knows the base callsign of the sender. *)
SenderApproved(p) == p.approved

(* receiveMessage: such a message becomes an event of its own, under a new   *)
(* identity (publishMessageEvent), each time it is applied.  The history     *)
(* also notes whose earlier events another packet of the station overtakes.  *)
ReceiveMessage(p, via) ==
    LET event == IF RoutableMessage(p) /\ SenderApproved(p)
                 THEN {<<p.src, p.body, via>>} ELSE {}
    IN  /\ told' = [e \in DOMAIN told \cup event |->
                       IF e \in event THEN "last"
                       ELSE IF e[1] = p.src /\ e[2] # p.body THEN "overtaken"
                       ELSE told[e]]
        /\ repeats' = repeats \cup {told[e] : e \in event \cap DOMAIN told}

(* The history speaks of stations on record: it ends where the record does.  *)
Forgotten(gone) == told' = [e \in {f \in DOMAIN told : f[1] \notin gone} |-> told[e]]

(* Observe never blocks: a full queue drops the packet, whatever it is. *)
Observe(p, via) ==
    /\ Len(ops) < OpsQueueSize
    /\ ops' = Append(ops, [p |-> p, via |-> via])
    /\ UNCHANGED <<registry, broker, feed, again, told, repeats, restarts>>

ObserveDropped ==
    /\ Len(ops) = OpsQueueSize
    /\ UNCHANGED hubVars

(* The one worker of the hub (run) does one thing at a time: what maintenance *)
(* has left to publish comes before anything else.                            *)
WorkerFree == pass = [gone |-> {}, retry |-> {}]

(* The worker takes one observation and applies it. *)
ApplySkips ==
    /\ WorkerFree /\ ops # <<>>
    /\ LET op == Head(ops) IN Filtered(op.p) \/ Duplicate(op.p, op.via)
    /\ ops' = Tail(ops)
    /\ UNCHANGED <<registry, broker, feed, again, told, repeats, restarts>>

Apply ==
    /\ WorkerFree /\ ops # <<>>
    /\ LET op == Head(ops)
           p == op.p
       IN  /\ ~ Filtered(p) /\ ~ Duplicate(p, op.via)
           /\ \E o \in Published(Broker, p.src, Merge(Record(p.src), p, op.via)) :
                 /\ SetBroker(o.broker)
                 /\ stations' = [c \in DOMAIN stations \cup {p.src} |->
                                    IF c = p.src THEN o.rec ELSE stations[c]]
           /\ PublishPacket(p) /\ ReceiveMessage(p, op.via)
           /\ seen' = [d \in DOMAIN seen \cup {p.body} |->
                          IF d = p.body THEN 0 ELSE seen[d]]
    /\ ops' = Tail(ops)
    /\ UNCHANGED <<pass, lostDelete, restarts>>

(* publishSelf: our own document, shortly after start. *)
PublishSelf ==
    /\ WorkerFree
    /\ Me \in DOMAIN stations => ~ stations[Me].self
    /\ LET mine == [Record(Me) EXCEPT !.self = TRUE]
       IN  \E o \in Published(Broker, Me, mine) :
              /\ SetBroker(o.broker)
              /\ stations' = [c \in DOMAIN stations \cup {Me} |->
                                 IF c = Me THEN o.rec ELSE stations[c]]
    /\ UNCHANGED <<pass, seen, ops, lostDelete, feed, again, told, repeats, restarts>>

-----------------------------------------------------------------------------
(***************************************************************************)
(* maintenance: expire, prune the digest window, retry dirty documents.    *)
(***************************************************************************)
Stale == {c \in DOMAIN stations : ~ stations[c].self /\ stations[c].age > StationTTL}
Dirty == {c \in DOMAIN stations \ Stale : stations[c].dirty}

(* Under the lock: the records and the digests go, and the worker remembers  *)
(* whose topic is to be deleted and who is to be published again.          *)
MaintenanceForgetsTopic ==                                      \* mutant
    /\ WorkerFree
    /\ pass' = [gone |-> {}, retry |-> Dirty]
    /\ stations' = [c \in DOMAIN stations \ Stale |-> stations[c]]
    /\ seen' = [d \in {e \in DOMAIN seen : seen[e] <= DigestWindow} |-> seen[d]]
    /\ Forgotten(Stale)
    /\ UNCHANGED <<ops, broker, feed, again, repeats, restarts>>

MaintenanceBegins ==
    /\ WorkerFree
    /\ pass' = [gone |-> Stale, retry |-> Dirty]
    /\ stations' = [c \in DOMAIN stations \ Stale |-> stations[c]]
    /\ seen' = [d \in {e \in DOMAIN seen : seen[e] <= DigestWindow} |-> seen[d]]
    /\ Forgotten(Stale)
    /\ UNCHANGED <<ops, broker, feed, again, repeats, restarts>>

(* Without it: one deletion after the other; a failed one is only logged.    *)
DeleteTopic(c) ==
    /\ c \in pass.gone
    /\ \E o \in PublishOutcomes(Broker, [station |-> c, doc |-> NoDoc]) :
          /\ SetBroker(o)
          /\ lostDelete' = IF Flushed(o.topics, o.held)[c] = NoDoc
                           THEN lostDelete \ {c} ELSE lostDelete \cup {c}
    /\ pass' = [pass EXCEPT !.gone = @ \ {c}]
    /\ UNCHANGED <<stations, seen, ops, feed, again, told, repeats, restarts>>

(* Then one dirty station after the other. *)
RetryStation(c) ==
    /\ pass.gone = {} /\ c \in pass.retry
    /\ \E o \in Published(Broker, c, stations[c]) :
          /\ SetBroker(o.broker)
          /\ stations' = [stations EXCEPT ![c] = o.rec]
    /\ pass' = [pass EXCEPT !.retry = @ \ {c}]
    /\ UNCHANGED <<seen, ops, lostDelete, feed, again, told, repeats, restarts>>

(* The client delivers what it still holds after a reconnect. *)
HeldArrives ==
    /\ wire # <<>>
    /\ retained' = Put(retained, Head(wire))
    /\ wire' = Tail(wire)
    /\ UNCHANGED <<registry, ops, lostDelete, feed, again, told, repeats, restarts>>

-----------------------------------------------------------------------------
(***************************************************************************)
(* Clock and restart.                                                      *)
(***************************************************************************)
Older(age, limit) == IF age > limit THEN age ELSE age + 1

Clock ==
    /\ stations' = [c \in DOMAIN stations |->
                       [stations[c] EXCEPT !.age = Older(@, StationTTL)]]
    /\ seen' = [d \in DOMAIN seen |-> Older(seen[d], DigestWindow)]
    /\ feed' = [d \in DOMAIN feed |-> Older(feed[d], DigestWindow)]
    /\ UNCHANGED <<pass, ops, broker, again, told, repeats, restarts>>

(* A new process: the registry and the digests start again; the retained   *)
(* topics stay.                                                            *)
Restart ==
    /\ restarts < MaxRestarts
    /\ restarts' = restarts + 1
    /\ stations' = <<>> /\ seen' = <<>> /\ ops' = <<>>
    /\ pass' = [gone |-> {}, retry |-> {}]
    /\ wire' = <<>> /\ feed' = <<>> /\ again' = {} /\ lostDelete' = {}
    /\ told' = <<>>
    /\ UNCHANGED <<retained, repeats>>

HubInit ==
    /\ stations = <<>> /\ seen = <<>> /\ ops = <<>>
    /\ pass = [gone |-> {}, retry |-> {}]
    /\ retained = [c \in Stations |-> NoDoc]
    /\ wire = <<>> /\ feed = <<>> /\ again = {} /\ lostDelete = {}
    /\ told = <<>> /\ repeats = {}
    /\ restarts = 0

HubNext ==
    \/ \E p \in Packets, b \in Backends : Observe(p, b)
    \/ ObserveDropped
    \/ ApplySkips \/ Apply \/ PublishSelf \/ MaintenanceBegins \/ HeldArrives
    \/ \E c \in Stations : DeleteTopic(c) \/ RetryStation(c)
    \/ Clock \/ Restart

HubSpec == HubInit /\ [][HubNext]_hubVars

-----------------------------------------------------------------------------
(***************************************************************************)
(* Properties.                                                             *)
(***************************************************************************)

(* A record that is not marked dirty is on the broker: what the retained     *)
(* topic shows, once the client has delivered what it holds, is the          *)
(* document of the record.  publishStation (hub.go:559) decides `dirty' from *)
(* the error alone, and later packets, retries and expiry build on it.       *)
CleanMeansShown ==
    \A c \in DOMAIN stations :
        ~ stations[c].dirty => Flushed(retained, wire)[c] = DocOf(stations[c])

(* A topic without a station has one of four reasons: maintenance is about to *)
(* delete it, its deletion failed (hub.go:1012 forgets the record first), the *)
(* client still holds the deletion, or an earlier process left it.           *)
OrphansExplained ==
    \A c \in Stations \ DOMAIN stations :
        \/ Flushed(retained, wire)[c] = NoDoc
        \/ c \in pass.gone \/ c \in lostDelete
        \/ restarts > 0

(* The packet feed carries a content digest once per window: a digest is     *)
(* published again only after DigestWindow without it (hub.go:479), whatever *)
(* the receivers and the order they hear it in.                              *)
FeedOncePerWindow == again = {}

(* A message becomes an event again through a receiver that has had it only   *)
(* after another packet of the station or the end of its record: the duplicate *)
(* rule of apply (hub.go:470) compares with the station's last packet alone,   *)
(* and every application publishes an event with an identity of its own.       *)
RepeatedForCause == "last" \notin repeats

(* What two receivers and repetitions may not do: show a packet twice within *)
(* the window, or raise the station's last message again through a receiver  *)
(* that has had it.                                                          *)
HeardOnce == FeedOncePerWindow /\ RepeatedForCause

(* What the comment in apply says (hub.go:468): "Duplicate observation (same  *)
(* content, same receiver): skip."  While the hub keeps the station's record, *)
(* a message a receiver has had would then raise no second event; after any   *)
(* other packet of the station it does.                                      *)
DuplicatesSkipped == "overtaken" \notin repeats

=============================================================================
