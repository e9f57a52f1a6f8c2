----------------------------- MODULE EdgeProofs -----------------------------
(***************************************************************************)
(* Proofs about the components at the edge of the router, which MCEdge     *)
(* checks side by side: the HTTP ingest, the network forms of the web UI,  *)
(* the snapshots of the auxiliary sources with their wakeups and their     *)
(* order, the polling hazard sources and the notification channels.        *)
(* Each part has its own inductive invariant and its own specification;    *)
(* the parts share no variable.                                            *)
(***************************************************************************)
EXTENDS Compose, IngestHTTP, Sources, InfoFlow, Channels, WellFoundedInduction, TLAPS

-----------------------------------------------------------------------------
(***************************************************************************)
(* The HTTP ingest.                                                        *)
(***************************************************************************)

(* A request past the allowlist carries the key and transition of its body. *)
PostShape ==
    /\ post \in [Clients -> [step : {"idle", "limit", "publish", "view"},
                             key : Hazards \cup {"none"}, change : Transitions, at : Nat]]
    /\ \A c \in Clients : post[c].step # "idle" => post[c].key \in Hazards
    /\ tick \in Nat

(* The two topics have an entry per hazard, and so has what is on its way. *)
TopicShape ==
    /\ journal \in [Hazards -> Transitions \cup {"none"}]
    /\ view \in [Hazards -> BOOLEAN]
    /\ \A p \in pending : p.key \in Hazards /\ p.change \in Transitions

(* The requests that have journalled a transition of k and not mirrored it. *)
Mirroring(k) == {c \in Clients : post[c].step = "view" /\ post[c].key = k}

(* For a key nothing has blurred, at most one request stands between its two *)
(* publications, and what it will mirror is the transition journalled last.  *)
OneMirrors ==
    \A k \in Hazards \ blurred : \A c \in Mirroring(k) :
        /\ \A d \in Mirroring(k) : d = c
        /\ post[c].change = journal[k]

IngestInv == PostShape /\ TopicShape /\ OneMirrors /\ ViewFollowsJournal

(* A step that leaves topics and blurred keys alone, and lets no request reach *)
(* or leave the point between the two publications, changes nothing.           *)
LEMMA NobodyMirrors ==
    ASSUME IngestInv, PostShape', UNCHANGED <<pending, journal, view, blurred>>,
           \A c \in Clients : post[c].step = "view" \/ post'[c].step = "view"
                              => post'[c] = post[c]
    PROVE  IngestInv'
<1>1. \A k \in Hazards : Mirroring(k)' = Mirroring(k)
  BY DEF Mirroring
<1>2. OneMirrors'
  BY <1>1 DEF IngestInv, OneMirrors, Mirroring
<1>3. ViewFollowsJournal'
  <2>1. SUFFICES ASSUME NEW k \in Hazards \ blurred,
                        \A c \in Clients : post'[c].step = "view" => post'[c].key # k
                 PROVE  view[k] = Shown(journal[k])
    BY DEF ViewFollowsJournal, Shown
  <2>2. \A c \in Clients : post[c].step = "view" => post[c].key # k
    BY <2>1
  <2> QED BY <2>2 DEF IngestInv, ViewFollowsJournal
<1> QED BY <1>2, <1>3 DEF IngestInv, TopicShape

(* Arrive and Limit, and every way a request ends before it has published.     *)
LEMMA RequestStep ==
    ASSUME IngestInv, NEW c \in Clients,
           \/ \E k \in Hazards, t \in Transitions : Arrive(c, k, t)
           \/ Limit(c) \/ BadBody(c) \/ BrokerUnavailable(c)
    PROVE  IngestInv'
<1> USE DEF IngestInv, PostShape
<1>1. CASE \E k \in Hazards, t \in Transitions : Arrive(c, k, t)
  <2>1. PICK k \in Hazards, t \in Transitions : Arrive(c, k, t)
    BY <1>1
  <2>2. PostShape'
    BY <2>1 DEF Arrive, NoPost, Transitions
  <2> QED BY <2>1, <2>2, NobodyMirrors DEF Arrive, NoPost
<1>2. CASE Limit(c)
  <2>1. /\ UNCHANGED <<tick, pending, journal, view, blurred>>
        /\ post[c].step = "limit"
        /\ \/ post' = [post EXCEPT ![c].step = "publish"]
           \/ post' = [post EXCEPT ![c] = NoPost]
    BY <1>2 DEF Limit
  <2>2. PostShape'
    BY <2>1 DEF NoPost, Transitions
  <2> QED BY <2>1, <2>2, NobodyMirrors DEF NoPost
<1>3. CASE BadBody(c) \/ BrokerUnavailable(c)
  <2>1. /\ UNCHANGED <<tick, pending, journal, view, blurred>>
        /\ post[c].step = "publish" /\ post' = [post EXCEPT ![c] = NoPost]
    BY <1>3 DEF BadBody, BrokerUnavailable
  <2>2. PostShape'
    BY <2>1 DEF NoPost, Transitions
  <2> QED BY <2>1, <2>2, NobodyMirrors DEF NoPost
<1> QED BY <1>1, <1>2, <1>3

(* The publication to the events topic.                                       *)
LEMMA PublishEventStep ==
    ASSUME IngestInv, NEW c \in Clients, PublishEvent(c) PROVE IngestInv'
<1> DEFINE key == post[c].key
<1>1. /\ post[c].step = "publish" /\ key \in Hazards /\ post[c].change \in Transitions
      /\ journal' = [journal EXCEPT ![key] = post[c].change]
      /\ post' = [post EXCEPT ![c].step = "view"]
      /\ UNCHANGED <<tick, pending, view>>
  BY DEF PublishEvent, IngestInv, PostShape
<1>2. PostShape' /\ TopicShape'
  BY <1>1 DEF IngestInv, PostShape, TopicShape
<1>3. blurred' = IF Rivals(c) = {} THEN blurred \ {key} ELSE blurred \cup {key}
  BY DEF PublishEvent
<1>4. \A d \in Clients : post'[d] = IF d = c THEN [post[c] EXCEPT !.step = "view"] ELSE post[d]
  BY <1>1 DEF IngestInv, PostShape
<1>5. post'[c].step = "view" /\ post'[c].key = key /\ post'[c].change = post[c].change
  BY <1>4 DEF IngestInv, PostShape
<1>6. \A k \in Hazards : Mirroring(k)' = IF k = key THEN Mirroring(k) \cup {c}
                                         ELSE Mirroring(k)
  BY <1>1, <1>4, <1>5 DEF Mirroring
<1>7. Mirroring(key) \ {c} = Rivals(c)
  BY DEF Mirroring, Rivals
<1>8. OneMirrors'
  <2>1. SUFFICES ASSUME NEW k \in Hazards, k \notin blurred', NEW d \in Mirroring(k)'
                 PROVE  /\ \A e \in Mirroring(k)' : e = d
                        /\ post'[d].change = journal'[k]
    BY DEF OneMirrors
  <2>2. CASE k = key
    <3>1. Rivals(c) = {} /\ Mirroring(k)' = {c}
      BY <1>3, <1>6, <1>7, <2>1, <2>2
    <3>2. journal'[k] = post[c].change
      BY <1>1, <2>2 DEF IngestInv, TopicShape
    <3> QED BY <1>5, <3>1, <3>2, <2>1
  <2>3. CASE k # key
    <3>1. Mirroring(k)' = Mirroring(k) /\ journal'[k] = journal[k] /\ k \notin blurred
      BY <1>1, <1>3, <1>6, <2>1, <2>3 DEF IngestInv, TopicShape
    <3>2. d # c /\ d \in Clients
      BY <1>1, <2>1, <3>1 DEF Mirroring
    <3> QED BY <1>4, <3>1, <3>2, <2>1 DEF IngestInv, OneMirrors
  <2> QED BY <2>2, <2>3
<1>9. ViewFollowsJournal'
  <2>1. SUFFICES ASSUME NEW k \in Hazards, k \notin blurred',
                        \A d \in Clients : post'[d].step = "view" => post'[d].key # k
                 PROVE  view'[k] = Shown(journal'[k])
    BY DEF ViewFollowsJournal, Shown
  <2>2. k # key /\ k \notin blurred
    BY <1>3, <1>5, <2>1
  <2>3. \A d \in Clients : post[d].step = "view" => post[d].key # k
    BY <1>1, <1>4, <2>1
  <2>4. view'[k] = view[k] /\ journal'[k] = journal[k]
    BY <1>1, <2>2 DEF IngestInv, TopicShape
  <2>5. view[k] = Shown(journal[k])
    BY <2>2, <2>3 DEF IngestInv, ViewFollowsJournal
  <2> QED BY <2>4, <2>5 DEF Shown
<1> QED BY <1>2, <1>8, <1>9 DEF IngestInv

(* A request ends while its event is still under way.                         *)
LEMMA EventUnansweredStep ==
    ASSUME IngestInv, NEW c \in Clients, EventUnanswered(c) PROVE IngestInv'
<1>1. /\ post[c].step = "publish" /\ post' = [post EXCEPT ![c] = NoPost]
      /\ pending' = pending \cup {Publication(c, "events")}
      /\ UNCHANGED <<tick, journal, view, blurred>>
  BY DEF EventUnanswered
<1>2. PostShape' /\ TopicShape'
  BY <1>1 DEF IngestInv, PostShape, TopicShape, NoPost, Transitions, Publication
<1>3. \A d \in Clients : post'[d] = IF d = c THEN NoPost ELSE post[d]
  BY <1>1 DEF IngestInv, PostShape
<1>4. \A k \in Hazards : Mirroring(k)' = Mirroring(k)
  BY <1>1, <1>3 DEF Mirroring, NoPost
<1>5. OneMirrors'
  BY <1>1, <1>3, <1>4 DEF IngestInv, OneMirrors, Mirroring
<1>6. ViewFollowsJournal'
  <2>1. SUFFICES ASSUME NEW k \in Hazards, k \notin blurred,
                        \A d \in Clients : post'[d].step = "view" => post'[d].key # k
                 PROVE  view[k] = Shown(journal[k])
    BY <1>1 DEF ViewFollowsJournal, Shown
  <2>2. \A d \in Clients : post[d].step = "view" => post[d].key # k
    BY <1>1, <1>3, <2>1
  <2> QED BY <2>1, <2>2 DEF IngestInv, ViewFollowsJournal
<1> QED BY <1>2, <1>5, <1>6 DEF IngestInv

(* The mirror publication, and its failure.                                   *)
LEMMA MirrorStep ==
    ASSUME IngestInv, NEW c \in Clients, PublishActive(c) \/ ActiveFails(c)
    PROVE  IngestInv'
<1> DEFINE key == post[c].key
<1>1. /\ post[c].step = "view" /\ key \in Hazards /\ post[c].change \in Transitions
      /\ post' = [post EXCEPT ![c] = NoPost]
      /\ UNCHANGED <<tick, journal>>
      /\ \/ /\ view' = [view EXCEPT ![key] = Shown(post[c].change)]
            /\ UNCHANGED <<pending, blurred>>
         \/ /\ blurred' = blurred \cup {key} /\ UNCHANGED view
            /\ pending' \in {pending, pending \cup {Publication(c, "active")}}
  BY DEF PublishActive, ActiveFails, IngestInv, PostShape
<1>2. PostShape'
  BY <1>1 DEF IngestInv, PostShape, NoPost, Transitions
<1>3. TopicShape'
  <2>1. view' \in [Hazards -> BOOLEAN]
    <3>1. Shown(post[c].change) \in BOOLEAN /\ view \in [Hazards -> BOOLEAN]
      BY DEF IngestInv, TopicShape, Shown
    <3>2. [view EXCEPT ![key] = Shown(post[c].change)] \in [Hazards -> BOOLEAN]
      <4> HIDE DEF key
      <4> QED BY <1>1, <3>1
    <3> QED BY <1>1, <3>1, <3>2
  <2>2. \A p \in pending' : p.key \in Hazards /\ p.change \in Transitions
    BY <1>1 DEF IngestInv, TopicShape, Publication
  <2> QED BY <1>1, <2>1, <2>2 DEF IngestInv, TopicShape
<1>4. \A d \in Clients : post'[d] = IF d = c THEN NoPost ELSE post[d]
  BY <1>1 DEF IngestInv, PostShape
<1>5. \A k \in Hazards : Mirroring(k)' = Mirroring(k) \ {c}
  BY <1>4 DEF Mirroring, NoPost
<1>6. blurred \subseteq blurred'
  BY <1>1
<1>7. OneMirrors'
  BY <1>1, <1>4, <1>5, <1>6 DEF IngestInv, OneMirrors, Mirroring
<1>8. ViewFollowsJournal'
  <2>1. SUFFICES ASSUME NEW k \in Hazards, k \notin blurred',
                        \A d \in Clients : post'[d].step = "view" => post'[d].key # k
                 PROVE  view'[k] = Shown(journal[k])
    BY <1>1 DEF ViewFollowsJournal, Shown
  <2>2. CASE k = key
    <3>1. view' = [view EXCEPT ![key] = Shown(post[c].change)]
      BY <1>1, <2>1, <2>2
    <3>2. post[c].change = journal[k]
      BY <1>1, <1>6, <2>1, <2>2 DEF IngestInv, OneMirrors, Mirroring
    <3>3. view'[k] = Shown(post[c].change)
      BY <3>1, <2>2 DEF IngestInv, TopicShape
    <3> QED BY <3>2, <3>3
  <2>3. CASE k # key
    <3>1. \A d \in Clients : post[d].step = "view" => post[d].key # k
      BY <1>4, <2>1, <2>3
    <3>2. view[k] = Shown(journal[k])
      BY <1>6, <2>1, <3>1 DEF IngestInv, ViewFollowsJournal
    <3>3. view'[k] = view[k]
      BY <1>1, <2>3 DEF IngestInv, TopicShape
    <3> QED BY <3>2, <3>3
  <2> QED BY <2>2, <2>3
<1> QED BY <1>2, <1>3, <1>7, <1>8 DEF IngestInv

(* A publication the broker sees late blurs its key.                          *)
LEMMA LatePublicationStep ==
    ASSUME IngestInv, NEW p \in pending, LatePublication(p) PROVE IngestInv'
<1>1. /\ p.key \in Hazards /\ p.change \in Transitions
      /\ blurred' = blurred \cup {p.key} /\ pending' = pending \ {p}
      /\ UNCHANGED <<post, tick>>
      /\ journal' = IF p.topic = "events" THEN [journal EXCEPT ![p.key] = p.change] ELSE journal
      /\ view' = IF p.topic = "active" THEN [view EXCEPT ![p.key] = Shown(p.change)] ELSE view
  BY DEF LatePublication, IngestInv, TopicShape
<1>2. PostShape'
  BY <1>1 DEF IngestInv, PostShape
<1>3. TopicShape'
  <2>1. journal' \in [Hazards -> Transitions \cup {"none"}]
    BY <1>1 DEF IngestInv, TopicShape
  <2>2. view' \in [Hazards -> BOOLEAN]
    BY <1>1 DEF IngestInv, TopicShape, Shown
  <2>3. \A q \in pending' : q.key \in Hazards /\ q.change \in Transitions
    BY <1>1 DEF IngestInv, TopicShape
  <2> QED BY <2>1, <2>2, <2>3 DEF TopicShape
<1>4. \A k \in Hazards \ blurred' : view'[k] = view[k] /\ journal'[k] = journal[k]
  BY <1>1 DEF IngestInv, TopicShape
<1>5. OneMirrors'
  BY <1>1, <1>4 DEF IngestInv, OneMirrors, Mirroring
<1>6. ViewFollowsJournal'
  <2>1. SUFFICES ASSUME NEW k \in Hazards, k \notin blurred',
                        \A d \in Clients : post[d].step = "view" => post[d].key # k
                 PROVE  view'[k] = Shown(journal'[k])
    BY <1>1 DEF ViewFollowsJournal, Shown
  <2>2. view[k] = Shown(journal[k])
    BY <1>1, <2>1 DEF IngestInv, ViewFollowsJournal
  <2> QED BY <1>4, <2>1, <2>2
<1> QED BY <1>2, <1>3, <1>5, <1>6 DEF IngestInv

(* The active view of a hazard is what its last journalled transition made of  *)
(* it, whatever requests, failures and late publications came between          *)
(* (ServeHTTP, publishActive; ingest.go:326, 344).                             *)
THEOREM IngestMirrorsJournal == IngestSpec => []ViewFollowsJournal
<1>1. IngestInit => IngestInv
  <2>1. SUFFICES ASSUME IngestInit PROVE IngestInv
    OBVIOUS
  <2>2. PostShape
    BY <2>1 DEF IngestInit, PostShape, NoPost, Transitions
  <2>3. TopicShape
    BY <2>1 DEF IngestInit, TopicShape
  <2>4. \A k \in Hazards : Mirroring(k) = {}
    BY <2>1 DEF IngestInit, Mirroring, NoPost
  <2>5. \A k \in Hazards : journal[k] = "none" /\ view[k] = FALSE
    BY <2>1 DEF IngestInit
  <2>6. ViewFollowsJournal
    <3>1. ASSUME NEW k \in Hazards PROVE view[k] = Shown(journal[k])
      <4>1. ~ Shown(journal[k])
        BY <2>5 DEF Shown
      <4>2. ~ view[k] /\ view[k] \in BOOLEAN
        BY <2>5
      <4> QED BY <4>1, <4>2 DEF Shown
    <3> QED BY <3>1 DEF ViewFollowsJournal
  <2> QED BY <2>2, <2>3, <2>4, <2>6 DEF IngestInv, OneMirrors
<1>2. IngestInv /\ [IngestNext]_ingestVars => IngestInv'
  <2>1. SUFFICES ASSUME IngestInv, [IngestNext]_ingestVars PROVE IngestInv'
    OBVIOUS
  <2>2. CASE \/ \E up \in BOOLEAN : Start(up)
             \/ LinkChanges \/ Ticks \/ Refuse \/ UNCHANGED ingestVars
    <3>1. UNCHANGED <<post, pending, journal, view, blurred>> /\ tick' \in Nat
      BY <2>1, <2>2 DEF Start, LinkChanges, Ticks, Refuse, ingestVars, IngestInv, PostShape
    <3>2. PostShape'
      BY <3>1, <2>1 DEF IngestInv, PostShape
    <3> QED BY <2>1, <3>1, <3>2, NobodyMirrors
  <2>3. CASE \E c \in Clients :
                 \/ \E k \in Hazards, t \in Transitions : Arrive(c, k, t)
                 \/ Limit(c) \/ BadBody(c) \/ BrokerUnavailable(c)
    BY <2>1, <2>3, RequestStep
  <2>4. CASE \E c \in Clients : PublishEvent(c) \/ EventUnanswered(c)
    BY <2>1, <2>4, PublishEventStep, EventUnansweredStep
  <2>5. CASE \E c \in Clients : PublishActive(c) \/ ActiveFails(c)
    BY <2>1, <2>5, MirrorStep
  <2>6. CASE \E p \in pending : LatePublication(p)
    BY <2>1, <2>6, LatePublicationStep
  <2> QED BY <2>1, <2>2, <2>3, <2>4, <2>5, <2>6 DEF IngestNext
<1>3. IngestInv => ViewFollowsJournal
  BY DEF IngestInv
<1> QED BY <1>1, <1>2, <1>3, PTL DEF IngestSpec

-----------------------------------------------------------------------------
(***************************************************************************)
(* The network forms of the web UI.                                        *)
(***************************************************************************)
Docs == [status : {"none", "active", "expired"}, level : 0 .. 3, expires : Nat]

WebShape ==
    /\ retained \in [Topics -> Docs] /\ mirror \in [Topics -> Docs]
    /\ wire \in Seq([topic : Topics, doc : Docs])
    /\ unsent \in Seq([topic : Topics, doc : Docs])
    /\ handler \in [Handlers -> {Idle} \cup [step : {"alarm"}, level : 0 .. 3]]
    /\ timers \subseteq Nat

(* With no excuse, a request between its two publications is alone, and the  *)
(* level it has published is the one it will raise or retire the alarm for.   *)
AloneAndCurrent ==
    excuse = {} => \A h \in Busy : Busy = {h} /\ retained["net"].level = handler[h].level

(* Nor is anything of the network left with the client without one.          *)
LateExcused == excuse = {} => ~ Late

WebInv == WebShape /\ AloneAndCurrent /\ LateExcused /\ AlarmFollowsLevel

(* What the mirror shows, and what a publication leaves.                      *)
LEMMA SnapshotShape ==
    ASSUME WebShape
    PROVE  NoDoc \in Docs /\ Snapshot \in [Topics -> Docs]
<1>1. NoDoc \in Docs
  BY ComposeAssumption DEF NoDoc, Doc, Docs, Never
<1> QED BY <1>1 DEF WebShape, Snapshot

LEMMA PublishLeaves ==
    ASSUME WebShape, NEW topic \in Topics, NEW doc \in Docs, NEW o \in Outcomes,
           Publish(topic, doc, o)
    PROVE  /\ retained' \in [Topics -> Docs]
           /\ wire' \in Seq([topic : Topics, doc : Docs])
           /\ unsent' \in Seq([topic : Topics, doc : Docs])
           /\ retained'[topic] = IF o = "ok" THEN doc ELSE retained[topic]
           /\ \A t \in Topics \ {topic} : retained'[t] = retained[t]
           /\ topic = "comm" \/ o # "unanswered" => (Late' => Late)
<1> DEFINE Frames == [topic : Topics, doc : Docs]
           frame == [topic |-> topic, doc |-> doc]
<1>1. frame \in Frames /\ frame.topic = topic
  OBVIOUS
<1>2. wire \in Seq(Frames) /\ unsent \in Seq(Frames)
  BY DEF WebShape
<1>3. \/ /\ o = "ok" /\ retained' = [retained EXCEPT ![topic] = doc]
         /\ wire' = Append(wire, frame) /\ UNCHANGED unsent
      \/ o = "unanswered" /\ unsent' = Append(unsent, frame) /\ UNCHANGED <<retained, wire>>
      \/ o = "refused" /\ UNCHANGED <<retained, wire, unsent>>
  BY DEF Publish
<1> HIDE DEF Frames, frame
<1>4. wire' \in Seq(Frames) /\ unsent' \in Seq(Frames)
  <2>1. wire' \in {wire, Append(wire, frame)} /\ unsent' \in {unsent, Append(unsent, frame)}
    BY <1>3
  <2>2. Append(wire, frame) \in Seq(Frames) /\ Append(unsent, frame) \in Seq(Frames)
    BY <1>1, <1>2
  <2> QED BY <1>2, <2>1, <2>2
<1>5. /\ retained' \in [Topics -> Docs]
      /\ retained'[topic] = IF o = "ok" THEN doc ELSE retained[topic]
      /\ \A t \in Topics \ {topic} : retained'[t] = retained[t]
  BY <1>3 DEF WebShape
<1>6. ASSUME topic = "comm" \/ o # "unanswered", Late' PROVE Late
  <2>1. CASE UNCHANGED unsent
    BY <1>6, <2>1 DEF Late
  <2>2. CASE topic = "comm" /\ unsent' = Append(unsent, frame)
    <3>1. PICK i \in DOMAIN unsent' : unsent'[i].topic # "comm"
      BY <1>6 DEF Late
    <3>2. i \in DOMAIN unsent /\ unsent'[i] = unsent[i]
      BY <1>1, <1>2, <2>2, <3>1
    <3> QED BY <3>1, <3>2 DEF Late
  <2> QED BY <1>3, <1>6, <2>1, <2>2
<1> QED BY <1>4, <1>5, <1>6 DEF Frames

(* What a handler may go without an excuse by: it is alone, and the mirror    *)
(* showed what the broker had.                                                *)
LEMMA NoExcuse ==
    ASSUME NEW h \in Handlers, NEW seen \in SUBSET Topics, Excuses(h, seen) = {}
    PROVE  Busy \subseteq {h} /\ \A t \in seen : Snapshot[t] = retained[t]
BY DEF Excuses

(* Steps outside the network forms.                                           *)
LEMMA ElsewhereStep ==
    ASSUME WebInv, WebShape', UNCHANGED <<handler, excuse>>,
           retained'["net"] = retained["net"], retained'["alarm"] = retained["alarm"],
           Late' => Late
    PROVE  WebInv'
<1>1. Busy' = Busy
  BY DEF Busy
<1> QED BY <1>1 DEF WebInv, AloneAndCurrent, LateExcused, AlarmFollowsLevel, Agree

(* The end of a request: who overlapped or failed has an excuse, anyone else  *)
(* leaves level and alarm in agreement.                                       *)
LEMMA EndStep ==
    ASSUME WebInv, NEW h \in Handlers, NEW why, RequestEnds(h, why),
           why = {} => Busy \subseteq {h},
           excuse = {} /\ why = {} => Agree(retained') /\ ~ Late'
    PROVE  AloneAndCurrent' /\ LateExcused' /\ AlarmFollowsLevel'
<1>1. /\ handler' = [handler EXCEPT ![h] = Idle]
      /\ excuse' = IF Busy \subseteq {h} /\ Agree(retained') /\ ~ Late' THEN {}
                   ELSE excuse \cup why
  BY DEF RequestEnds
<1>2. Busy' = Busy \ {h}
  BY <1>1 DEF Busy, WebInv, WebShape
<1>3. excuse' = {} => Busy' = {} /\ Agree(retained') /\ ~ Late'
  BY <1>1, <1>2
<1> QED BY <1>3 DEF AloneAndCurrent, LateExcused, AlarmFollowsLevel, Agree

(* A request goes on to the alarm with the level it has published.            *)
LEMMA GoOnStep ==
    ASSUME WebInv, NEW h \in Handlers, NEW level \in 0 .. 3, NEW why,
           RequestGoesOn(h, "alarm", level, why), handler[h] = Idle,
           why = {} => Busy \subseteq {h},
           retained'["net"].level = level, Late' => Late
    PROVE  AloneAndCurrent' /\ LateExcused' /\ AlarmFollowsLevel'
<1>1. /\ handler' = [handler EXCEPT ![h] = [step |-> "alarm", level |-> level]]
      /\ excuse' = excuse \cup why
  BY DEF RequestGoesOn
<1>2. Busy' = Busy \cup {h}
  BY <1>1 DEF Busy, WebInv, WebShape, Idle
<1>3. h \notin Busy
  BY DEF Busy
<1>4. excuse' = {} => Busy' = {h}
  BY <1>1, <1>2, <1>3
<1>5. handler'[h].level = level
  BY <1>1 DEF WebInv, WebShape
<1> QED BY <1>1, <1>2, <1>4, <1>5
        DEF WebInv, AloneAndCurrent, LateExcused, AlarmFollowsLevel

(* The first half of a request on the network.                                *)
LEMMA NetworkStep ==
    ASSUME WebInv, NEW h \in Handlers, NEW o \in Outcomes, NEW doc \in Docs,
           NEW why, handler[h] = Idle, mirror' = Snapshot, UNCHANGED timers,
           Publish("net", doc, o),
           why = Excuses(h, {"net"}),
           \/ o = "ok" /\ RequestGoesOn(h, "alarm", doc.level, why)
           \/ o # "ok" /\ RequestEnds(h, why \cup {"failed"})
    PROVE  WebInv'
<1>1. why = {} => Busy \subseteq {h}
  BY NoExcuse DEF Topics
<1>2. /\ retained' \in [Topics -> Docs]
      /\ wire' \in Seq([topic : Topics, doc : Docs])
      /\ unsent' \in Seq([topic : Topics, doc : Docs])
      /\ o = "ok" => retained'["net"] = doc /\ (Late' => Late)
  BY PublishLeaves DEF WebInv, Topics
<1>3. doc.level \in 0 .. 3
  BY DEF Docs
<1>4. WebShape'
  <2>1. handler' \in [Handlers -> {Idle} \cup [step : {"alarm"}, level : 0 .. 3]]
    <3>1. CASE RequestGoesOn(h, "alarm", doc.level, why)
      BY <1>3, <3>1 DEF RequestGoesOn, WebInv, WebShape
    <3>2. CASE RequestEnds(h, why \cup {"failed"})
      BY <3>2 DEF RequestEnds, WebInv, WebShape
    <3> QED BY <3>1, <3>2
  <2> QED BY <1>2, <2>1, SnapshotShape DEF WebInv, WebShape
<1>5. CASE o = "ok" /\ RequestGoesOn(h, "alarm", doc.level, why)
  <2>1. retained'["net"].level = doc.level /\ (Late' => Late)
    BY <1>2, <1>5
  <2> QED BY <1>1, <1>3, <1>4, <1>5, <2>1, GoOnStep DEF WebInv
<1>6. CASE o # "ok" /\ RequestEnds(h, why \cup {"failed"})
  BY <1>4, <1>6, EndStep DEF WebInv
<1> QED BY <1>5, <1>6

LEMMA AddStep ==
    ASSUME WebInv, NEW h \in Handlers, NEW o \in Outcomes, EmcomAdd(h, o)
    PROVE  WebInv'
<1> DEFINE doc == Doc("active", 0, Never)
           why == Excuses(h, {"net"}) \cup (IF o = "unanswered" THEN {"failed"} ELSE {})
<1>1. /\ handler[h] = Idle /\ mirror' = Snapshot /\ UNCHANGED timers
      /\ Snapshot["net"] = NoDoc
      /\ Publish("net", doc, o)
      /\ RequestEnds(h, why)
  BY DEF EmcomAdd, RequestBegins
<1>2. doc \in Docs /\ doc.level = 0 /\ NoDoc.level = 0
  BY ComposeAssumption DEF Doc, Docs, NoDoc, Never
<1> HIDE DEF doc
<1>3. /\ retained' \in [Topics -> Docs]
      /\ wire' \in Seq([topic : Topics, doc : Docs])
      /\ unsent' \in Seq([topic : Topics, doc : Docs])
      /\ retained'["net"] = IF o = "ok" THEN doc ELSE retained["net"]
      /\ retained'["alarm"] = retained["alarm"]
      /\ o # "unanswered" => (Late' => Late)
  BY <1>1, <1>2, PublishLeaves DEF WebInv, Topics
<1>4. WebShape'
  <2>1. handler' \in [Handlers -> {Idle} \cup [step : {"alarm"}, level : 0 .. 3]]
    BY <1>1 DEF RequestEnds, WebInv, WebShape
  <2> QED BY <1>1, <1>3, <2>1, SnapshotShape DEF WebInv, WebShape
<1>5. ASSUME excuse = {}, why = {} PROVE Agree(retained') /\ ~ Late'
  <2>0. Excuses(h, {"net"}) = {} /\ o # "unanswered"
    BY <1>5
  <2>1. Busy = {} /\ retained["net"] = NoDoc
    BY <1>1, <1>5, <2>0, NoExcuse DEF Busy, Topics
  <2>2. retained["alarm"].level = 0
    BY <1>2, <1>5, <2>1 DEF WebInv, AlarmFollowsLevel, Agree
  <2> QED BY <1>2, <1>3, <1>5, <2>0, <2>1, <2>2 DEF Agree, WebInv, LateExcused
<1>6. why = {} => Busy \subseteq {h}
  BY NoExcuse DEF Topics
<1> QED BY <1>1, <1>4, <1>5, <1>6, EndStep DEF WebInv

LEMMA LevelStep ==
    ASSUME WebInv, NEW h \in Handlers, NEW o \in Outcomes,
           EmcomDelete(h, o) \/ \E l \in Levels : EmcomLevel(h, l, o)
    PROVE  WebInv'
<1>1. PICK doc \in Docs :
        /\ handler[h] = Idle /\ mirror' = Snapshot /\ UNCHANGED timers
        /\ Publish("net", doc, o)
        /\ \/ o = "ok" /\ RequestGoesOn(h, "alarm", doc.level, Excuses(h, {"net"}))
           \/ o # "ok" /\ RequestEnds(h, Excuses(h, {"net"}) \cup {"failed"})
  <2>1. CASE EmcomDelete(h, o)
    <3>1. NoDoc \in Docs /\ NoDoc.level = 0
      BY ComposeAssumption DEF Doc, Docs, NoDoc, Never
    <3> QED BY <2>1, <3>1 DEF EmcomDelete, RequestBegins
  <2>2. ASSUME NEW l \in Levels, EmcomLevel(h, l, o)
        PROVE  \E doc \in Docs :
                  /\ handler[h] = Idle /\ mirror' = Snapshot /\ UNCHANGED timers
                  /\ Publish("net", doc, o)
                  /\ \/ o = "ok" /\ RequestGoesOn(h, "alarm", doc.level, Excuses(h, {"net"}))
                     \/ o # "ok" /\ RequestEnds(h, Excuses(h, {"net"}) \cup {"failed"})
    <3>1. Doc("active", l, Never) \in Docs /\ Doc("active", l, Never).level = l
      BY ComposeAssumption DEF Doc, Docs, Never
    <3> QED BY <2>2, <3>1 DEF EmcomLevel, RequestBegins
  <2> QED BY <2>1, <2>2
<1> QED BY <1>1, NetworkStep

(* The second half: the alarm is raised or retired.                           *)
LEMMA AlarmStep ==
    ASSUME WebInv, NEW h \in Handlers, NEW o \in Outcomes,
           RaiseAlarm(h, o) \/ RetireAlarm(h, o)
    PROVE  WebInv'
<1>1. PICK doc \in Docs, seen \in SUBSET {"alarm"} :
        /\ handler[h] # Idle /\ mirror' = Snapshot /\ UNCHANGED timers
        /\ \/ Publish("alarm", doc, o) /\ doc.level = handler[h].level
           \/ /\ handler[h].level = 0 /\ UNCHANGED <<retained, wire, unsent>>
              /\ Snapshot["alarm"] = NoDoc /\ seen = {"alarm"}
        /\ RequestEnds(h, Excuses(h, seen) \cup (IF o = "ok" THEN {} ELSE {"failed"}))
  <2>1. handler[h].step = "alarm" => handler[h] # Idle
    BY DEF Idle
  <2>2. CASE RaiseAlarm(h, o)
    <3>1. handler[h].level \in 0 .. 3
      BY DEF WebInv, WebShape, Idle
    <3>2. /\ Doc("active", handler[h].level, Never) \in Docs
          /\ Doc("active", handler[h].level, Never).level = handler[h].level
      BY <3>1, ComposeAssumption DEF Doc, Docs, Never
    <3>3. {} \in SUBSET {"alarm"}
      OBVIOUS
    <3> QED BY <2>1, <2>2, <3>2, <3>3 DEF RaiseAlarm
  <2>3. CASE RetireAlarm(h, o)
    <3>1. NoDoc \in Docs /\ NoDoc.level = 0
      BY ComposeAssumption DEF Doc, Docs, NoDoc, Never
    <3>2. {"alarm"} \in SUBSET {"alarm"}
      OBVIOUS
    <3> QED BY <2>1, <2>3, <3>1, <3>2 DEF RetireAlarm
  <2> QED BY <2>2, <2>3
<1> DEFINE why == Excuses(h, seen) \cup (IF o = "ok" THEN {} ELSE {"failed"})
<1>2. why = {} => /\ Busy \subseteq {h} /\ o = "ok"
                  /\ \A t \in seen : Snapshot[t] = retained[t]
  BY NoExcuse DEF Topics
<1>3. /\ retained' \in [Topics -> Docs]
      /\ wire' \in Seq([topic : Topics, doc : Docs])
      /\ unsent' \in Seq([topic : Topics, doc : Docs])
      /\ retained'["net"] = retained["net"]
      /\ o # "unanswered" => (Late' => Late)
  BY <1>1, PublishLeaves DEF WebInv, WebShape, Topics, Late
<1>4. WebShape'
  <2>1. handler' \in [Handlers -> {Idle} \cup [step : {"alarm"}, level : 0 .. 3]]
    BY <1>1 DEF RequestEnds, WebInv, WebShape
  <2> QED BY <1>1, <1>3, <2>1, SnapshotShape DEF WebInv, WebShape
<1>5. ASSUME excuse = {}, why = {} PROVE Agree(retained') /\ ~ Late'
  <2>0. ~ Late'
    BY <1>2, <1>3, <1>5 DEF WebInv, LateExcused
  <2>1. h \in Busy
    BY <1>1 DEF Busy
  <2>2. retained["net"].level = handler[h].level
    BY <1>5, <2>1 DEF WebInv, AloneAndCurrent
  <2>3. CASE Publish("alarm", doc, o) /\ doc.level = handler[h].level
    <3>1. retained'["alarm"] = doc
      BY <1>2, <1>5, <2>3, PublishLeaves DEF WebInv, Topics
    <3> QED BY <1>3, <2>0, <2>2, <2>3, <3>1 DEF Agree
  <2>4. CASE /\ handler[h].level = 0 /\ UNCHANGED <<retained, wire, unsent>>
             /\ Snapshot["alarm"] = NoDoc /\ seen = {"alarm"}
    <3>1. retained["alarm"] = NoDoc
      BY <1>2, <1>5, <2>4
    <3> QED BY <2>0, <2>2, <2>4, <3>1 DEF Agree, NoDoc, Doc
  <2> QED BY <1>1, <2>3, <2>4
<1> QED BY <1>1, <1>2, <1>4, <1>5, EndStep DEF WebInv

(* The communications, which share the mirror and the wire with the networks.  *)
LEMMA CommunicationStep ==
    ASSUME WebInv, NEW o \in Outcomes,
           \/ ComposeExpire(o) \/ \E e \in timers : TimerFires(e, o)
           \/ \E e \in 1 .. Never, s \in {"active", "expired"}, edit \in BOOLEAN :
                 ComposeSave(s, e, edit, o)
    PROVE  WebInv'
<1>1. PICK doc \in Docs :
        /\ UNCHANGED <<handler, excuse>> /\ mirror' \in {mirror, Snapshot}
        /\ timers' \subseteq Nat
        /\ Publish("comm", doc, o) \/ UNCHANGED <<retained, wire, unsent>>
  <2>0. NoDoc \in Docs
    BY SnapshotShape DEF WebInv
  <2>1. CASE ComposeExpire(o)
    BY <2>0, <2>1 DEF ComposeExpire, WebInv, WebShape
  <2>2. CASE \E e \in timers : TimerFires(e, o)
    BY <2>0, <2>2 DEF TimerFires, WebInv, WebShape
  <2>3. ASSUME NEW e \in 1 .. Never, NEW s \in {"active", "expired"}, NEW edit \in BOOLEAN,
               ComposeSave(s, e, edit, o)
        PROVE  \E doc \in Docs :
                 /\ UNCHANGED <<handler, excuse>> /\ mirror' \in {mirror, Snapshot}
                 /\ timers' \subseteq Nat
                 /\ Publish("comm", doc, o) \/ UNCHANGED <<retained, wire, unsent>>
    <3>1. Doc(s, 0, e) \in Docs /\ e \in Nat
      BY ComposeAssumption DEF Doc, Docs, Never
    <3>2. timers' \subseteq Nat
      BY <2>3, <3>1 DEF ComposeSave, WebInv, WebShape
    <3> QED BY <2>3, <3>1, <3>2 DEF ComposeSave
  <2> QED BY <2>1, <2>2, <2>3
<1>2. /\ retained' \in [Topics -> Docs]
      /\ wire' \in Seq([topic : Topics, doc : Docs])
      /\ unsent' \in Seq([topic : Topics, doc : Docs])
      /\ retained'["net"] = retained["net"] /\ retained'["alarm"] = retained["alarm"]
      /\ Late' => Late
  BY <1>1, PublishLeaves DEF WebInv, WebShape, Topics, Late
<1>3. WebShape'
  BY <1>1, <1>2, SnapshotShape DEF WebInv, WebShape
<1> QED BY <1>1, <1>2, <1>3, ElsewhereStep

LEMMA MirrorFrameStep ==
    ASSUME WebInv, FrameMirrored \/ Clock PROVE WebInv'
<1>1. UNCHANGED <<retained, unsent, handler, timers, excuse>> /\ (Late' => Late)
  BY DEF FrameMirrored, Clock, Late
<1>2. CASE FrameMirrored
  <2>1. wire # <<>> /\ wire' = Tail(wire)
    BY <1>2 DEF FrameMirrored
  <2>2. Head(wire) \in [topic : Topics, doc : Docs]
        /\ wire' \in Seq([topic : Topics, doc : Docs])
    <3> DEFINE Frames == [topic : Topics, doc : Docs]
    <3>1. wire \in Seq(Frames)
      BY DEF WebInv, WebShape
    <3> HIDE DEF Frames
    <3>2. Head(wire) \in Frames /\ Tail(wire) \in Seq(Frames)
      BY <2>1, <3>1
    <3> QED BY <2>1, <3>2 DEF Frames
  <2>3. mirror' \in [Topics -> Docs]
    BY <1>2, <2>2, SnapshotShape DEF FrameMirrored, WebInv, WebShape
  <2>4. WebShape'
    BY <1>1, <2>2, <2>3 DEF WebInv, WebShape
  <2> QED BY <1>1, <2>4, ElsewhereStep
<1>3. CASE Clock
  <2>1. WebShape'
    BY <1>3 DEF Clock, WebInv, WebShape
  <2> QED BY <1>1, <2>1, ElsewhereStep
<1> QED BY <1>2, <1>3

(* What the client delivers late is of a communication, or excused.           *)
LEMMA LateDeliveryStep ==
    ASSUME WebInv, LateDelivery PROVE WebInv'
<1> DEFINE Frames == [topic : Topics, doc : Docs]
           f == Head(unsent)
<1>1. /\ unsent # <<>> /\ unsent' = Tail(unsent) /\ wire' = Append(wire, f)
      /\ retained' = [retained EXCEPT ![f.topic] = f.doc]
      /\ UNCHANGED <<mirror, handler, timers, excuse>>
  BY DEF LateDelivery
<1>2. unsent \in Seq(Frames) /\ wire \in Seq(Frames)
  BY DEF WebInv, WebShape
<1>3. f.topic \in Topics /\ f.doc \in Docs /\ f \in Frames
  <2> HIDE DEF Frames, f
  <2>1. f \in Frames
    <3> USE DEF f
    <3> QED BY <1>1, <1>2
  <2> QED BY <2>1 DEF Frames
<1>4. WebShape'
  <2>1. retained' \in [Topics -> Docs]
    <3> HIDE DEF f
    <3> QED BY <1>1, <1>3 DEF WebInv, WebShape
  <2>2. unsent' \in Seq(Frames) /\ wire' \in Seq(Frames)
    <3> HIDE DEF Frames
    <3> QED BY <1>1, <1>2, <1>3
  <2> QED BY <1>1, <2>1, <2>2 DEF WebInv, WebShape
<1>5. CASE excuse = {}
  <2>1. ~ Late
    BY <1>5 DEF WebInv, LateExcused
  <2>2. 1 \in DOMAIN unsent /\ f = unsent[1]
    <3> HIDE DEF Frames
    <3> QED BY <1>1, <1>2
  <2>3. f.topic = "comm"
    BY <2>1, <2>2 DEF Late
  <2>4. retained'["net"] = retained["net"] /\ retained'["alarm"] = retained["alarm"]
    <3> HIDE DEF f
    <3> QED BY <1>1, <2>3 DEF WebInv, WebShape, Topics
  <2>5. ASSUME NEW i \in DOMAIN unsent' PROVE i + 1 \in DOMAIN unsent /\ unsent'[i] = unsent[i + 1]
    <3> HIDE DEF Frames
    <3> QED BY <1>1, <1>2, <2>5
  <2>6. Late' => Late
    BY <2>5 DEF Late
  <2> QED BY <1>1, <1>4, <2>4, <2>6, ElsewhereStep
<1>6. CASE excuse # {}
  BY <1>1, <1>4, <1>6 DEF WebInv, AloneAndCurrent, LateExcused, AlarmFollowsLevel
<1> QED BY <1>5, <1>6

(* Between requests the alarm of a network is the one of its level, unless a  *)
(* publication failed, requests overlapped or a handler decided by a mirror    *)
(* that lagged (handleEmcomSetLevel, handleEmcomDelete; emcom.go:541).         *)
THEOREM AlarmAgreesWithLevel == WebSpec => []AlarmFollowsLevel
<1>1. WebInit => WebInv
  <2>1. SUFFICES ASSUME WebInit PROVE WebInv
    OBVIOUS
  <2>2. NoDoc \in Docs
    BY ComposeAssumption DEF NoDoc, Doc, Docs, Never
  <2>3. WebShape
    <3>1. <<>> \in Seq([topic : Topics, doc : Docs])
      OBVIOUS
    <3> QED BY <2>1, <2>2, <3>1 DEF WebInit, WebShape
  <2>4. Busy = {} /\ Agree(retained)
    BY <2>1 DEF WebInit, Busy, Agree, Topics
  <2>5. ~ Late
    BY <2>1 DEF WebInit, Late
  <2> QED BY <2>3, <2>4, <2>5 DEF WebInv, AloneAndCurrent, LateExcused, AlarmFollowsLevel
<1>2. WebInv /\ [WebNext]_webVars => WebInv'
  <2>1. SUFFICES ASSUME WebInv, [WebNext]_webVars PROVE WebInv'
    OBVIOUS
  <2>2. CASE ComposeNext
    BY <2>1, <2>2, MirrorFrameStep, LateDeliveryStep, CommunicationStep DEF ComposeNext
  <2>3. CASE EmcomNext
    BY <2>1, <2>3, MirrorFrameStep, LateDeliveryStep, AddStep, LevelStep, AlarmStep DEF EmcomNext
  <2>4. CASE UNCHANGED webVars
    <3>1. WebShape' /\ UNCHANGED <<retained, handler, excuse>> /\ (Late' => Late)
      BY <2>1, <2>4 DEF webVars, WebInv, WebShape, Late
    <3> QED BY <2>1, <3>1, ElsewhereStep
  <2> QED BY <2>1, <2>2, <2>3, <2>4 DEF WebNext
<1>3. WebInv => AlarmFollowsLevel
  BY DEF WebInv
<1> QED BY <1>1, <1>2, <1>3, PTL DEF WebSpec

-----------------------------------------------------------------------------
(***************************************************************************)
(* The auxiliary snapshots.                                                *)
(***************************************************************************)

(* A poll and a callback are records of their fields. *)
InfoShape ==
    /\ DOMAIN src = InfoSources /\ src = [s \in InfoSources |-> src[s]]
    /\ \A s \in InfoSources :
          src[s] = [at |-> src[s].at, todo |-> src[s].todo,
                    good |-> src[s].good, bad |-> src[s].bad]
    /\ call = [kind |-> call.kind, topic |-> call.topic, snap |-> call.snap,
               at |-> call.at, expired |-> call.expired]

(* The worker holds an information callback only while it waits for it. *)
CallIsAwaited == call.kind = "info" => aux = "call"

WakeInv == InfoShape /\ CallIsAwaited /\ NoLostWakeup

Awake == \E s \in InfoSources : src[s].at = "wake"

(* A poll that is not at its wakeup moves: the wakeups still to come stay.     *)
LEMMA PollMoves ==
    ASSUME WakeInv, NEW s \in InfoSources, NEW r, Becomes(s, r),
           r = [at |-> r.at, todo |-> r.todo, good |-> r.good, bad |-> r.bad],
           src[s].at # "wake"
    PROVE  /\ src' = [t \in InfoSources |-> src'[t]] /\ DOMAIN src' = InfoSources
           /\ \A t \in InfoSources :
                 src'[t] = [at |-> src'[t].at, todo |-> src'[t].todo,
                            good |-> src'[t].good, bad |-> src'[t].bad]
           /\ src'[s] = r /\ (Awake => Awake')
<1>1. src' = [src EXCEPT ![s] = r] /\ DOMAIN src = InfoSources
  BY DEF Becomes, WakeInv, InfoShape
<1>2. \A t \in InfoSources : src'[t] = IF t = s THEN r ELSE src[t]
  BY <1>1
<1>3. DOMAIN src' = InfoSources /\ src' = [t \in InfoSources |-> src'[t]]
  BY <1>1
<1> QED BY <1>2, <1>3 DEF WakeInv, InfoShape, Awake

(* Steps that only move polls short of their wakeup.                          *)
LEMMA QuietPollStep ==
    ASSUME WakeInv, NEW s \in InfoSources, NEW r, Becomes(s, r),
           r = [at |-> r.at, todo |-> r.todo, good |-> r.good, bad |-> r.bad],
           src[s].at # "wake", UNCHANGED <<queueSide, workerSide>>
    PROVE  WakeInv'
<1>1. InfoShape' /\ (Awake => Awake')
  BY PollMoves DEF WakeInv, InfoShape, workerSide
<1>2. Waiting' = Waiting
  BY DEF Waiting, queueSide
<1> QED BY <1>1, <1>2 DEF WakeInv, CallIsAwaited, NoLostWakeup, Awake, queueSide, workerSide

PollRecord(r) == r = [at |-> r.at, todo |-> r.todo, good |-> r.good, bad |-> r.bad]

(* An update of named fields leaves a record of the same fields.              *)
LEMMA FieldMoves ==
    ASSUME NEW r, PollRecord(r), NEW v
    PROVE  /\ PollRecord([r EXCEPT !.at = v]) /\ [r EXCEPT !.at = v].at = v
           /\ PollRecord([r EXCEPT !.todo = v])
           /\ PollRecord([r EXCEPT !.good = v])
           /\ PollRecord([r EXCEPT !.bad = v])
<1>1. PICK a, t, g, b : r = [at |-> a, todo |-> t, good |-> g, bad |-> b]
  BY DEF PollRecord
<1>2. [r EXCEPT !.at = v] = [at |-> v, todo |-> t, good |-> g, bad |-> b]
  BY <1>1
<1>3. [r EXCEPT !.todo = v] = [at |-> a, todo |-> v, good |-> g, bad |-> b]
  BY <1>1
<1>4. [r EXCEPT !.good = v] = [at |-> a, todo |-> t, good |-> v, bad |-> b]
  BY <1>1
<1>5. [r EXCEPT !.bad = v] = [at |-> a, todo |-> t, good |-> g, bad |-> v]
  BY <1>1
<1> QED BY <1>2, <1>3, <1>4, <1>5 DEF PollRecord

LEMMA RecordMoves ==
    ASSUME NEW r, PollRecord(r), NEW at, NEW todo, NEW good, NEW bad
    PROVE  /\ PollRecord([r EXCEPT !.at = at]) /\ [r EXCEPT !.at = at].at = at
           /\ PollRecord([r EXCEPT !.todo = todo])
           /\ PollRecord([r EXCEPT !.at = at, !.todo = todo])
           /\ PollRecord([r EXCEPT !.at = at, !.good = good])
           /\ PollRecord([r EXCEPT !.at = at, !.todo = todo, !.good = good, !.bad = bad])
<1> DEFINE r1 == [r EXCEPT !.at = at]
           r2 == [r1 EXCEPT !.todo = todo]
           r3 == [r2 EXCEPT !.good = good]
           r4 == [r3 EXCEPT !.bad = bad]
           r5 == [r1 EXCEPT !.good = good]
<1>1. /\ [r EXCEPT !.at = at, !.todo = todo] = r2
      /\ [r EXCEPT !.at = at, !.good = good] = r5
      /\ [r EXCEPT !.at = at, !.todo = todo, !.good = good, !.bad = bad] = r4
  OBVIOUS
<1>2. PollRecord(r1) /\ r1.at = at
  BY FieldMoves
<1>3. PollRecord(r2) /\ PollRecord(r5)
  <2> HIDE DEF r1
  <2> QED BY <1>2, FieldMoves
<1>4. PollRecord(r3)
  <2> HIDE DEF r2
  <2> QED BY <1>3, FieldMoves
<1>5. PollRecord(r4)
  <2> HIDE DEF r3
  <2> QED BY <1>4, FieldMoves
<1>6. PollRecord([r EXCEPT !.todo = todo])
  BY FieldMoves
<1> HIDE DEF r2, r4, r5
<1> QED BY <1>1, <1>2, <1>3, <1>5, <1>6 DEF r1

LEMMA PollRecords ==
    ASSUME WakeInv, NEW s \in InfoSources
    PROVE  /\ PollRecord(IdlePoll)
           /\ \A at, todo : PollRecord([IdlePoll EXCEPT !.at = at, !.todo = todo])
           /\ \A at : PollRecord([src[s] EXCEPT !.at = at])
           /\ \A todo : PollRecord([src[s] EXCEPT !.todo = todo])
           /\ \A at, good : PollRecord([src[s] EXCEPT !.at = at, !.good = good])
           /\ \A good, bad : PollRecord(After(s, good, bad))
<1>1. PollRecord(src[s])
  BY DEF WakeInv, InfoShape, PollRecord
<1>2. PollRecord(IdlePoll)
  BY DEF PollRecord, IdlePoll
<1>3. \A at, todo : PollRecord([IdlePoll EXCEPT !.at = at, !.todo = todo])
  BY <1>2, RecordMoves
<1>4. ASSUME NEW good, NEW bad PROVE PollRecord(After(s, good, bad))
  <2> DEFINE left == Tail(src[s].todo)
             anyGood == src[s].good \/ good
             anyBad == src[s].bad \/ bad
  <2>1. After(s, good, bad)
        = [src[s] EXCEPT !.at = "fetch", !.todo = left, !.good = anyGood, !.bad = anyBad]
    BY DEF After
  <2> DEFINE r == src[s]
  <2>2. PollRecord(r)
    BY <1>1
  <2>3. After(s, good, bad)
        = [r EXCEPT !.at = "fetch", !.todo = left, !.good = anyGood, !.bad = anyBad]
    BY <2>1
  <2> HIDE DEF left, anyGood, anyBad, r
  <2>4. PollRecord([r EXCEPT !.at = "fetch", !.todo = left, !.good = anyGood, !.bad = anyBad])
    BY <2>2, RecordMoves
  <2> QED BY <2>3, <2>4
<1> QED BY <1>1, <1>2, <1>3, <1>4, RecordMoves

(* The steps of the providers and the polls.                                  *)
LEMMA PollStep ==
    ASSUME WakeInv,
           \/ ProviderNext
           \/ \E s \in InfoSources : InfoPollBegins(s) \/ PollCancelled(s)
                                     \/ EmitRefused(s) \/ InfoPollEnds(s)
    PROVE  WakeInv'
<1>1. PICK s \in InfoSources : \E r :
        /\ Becomes(s, r) /\ PollRecord(r) /\ src[s].at # "wake"
        /\ UNCHANGED <<queueSide, workerSide>>
  <2> DEFINE Goal == \E s \in InfoSources : \E r :
                        /\ Becomes(s, r) /\ PollRecord(r) /\ src[s].at # "wake"
                        /\ UNCHANGED <<queueSide, workerSide>>
  <2>0. "metar" \in InfoSources /\ "adsb" \in InfoSources /\ "giosaq" \in InfoSources
        /\ "openmeteo" \in InfoSources
    BY DEF InfoSources
  <2>1. ASSUME NEW s \in InfoSources, NEW ok \in BOOLEAN, BatchAnswer(s, ok) PROVE Goal
    <3>1. /\ src[s].at # "wake" /\ UNCHANGED <<queueSide, workerSide>>
          /\ \/ Becomes(s, [src[s] EXCEPT !.at = "fetch"])
             \/ Becomes(s, IdlePoll)
      BY <2>1 DEF BatchAnswer
    <3> QED BY <3>1, PollRecords
  <2>2. ASSUME NEW ok \in BOOLEAN, RefreshStations(ok) PROVE Goal
    <3>1. /\ src["giosaq"].at # "wake" /\ UNCHANGED <<queueSide, workerSide>>
          /\ \/ Becomes("giosaq", [src["giosaq"] EXCEPT !.at = "fetch"])
             \/ Becomes("giosaq", IdlePoll)
      BY <2>2 DEF RefreshStations
    <3> QED BY <2>0, <3>1, PollRecords
  <2>3. ASSUME NEW s \in InfoSources, Fetching(s), UNCHANGED <<queueSide, workerSide>>,
               \/ \E counted \in BOOLEAN : Made(s, counted)
               \/ \E bad \in BOOLEAN : PassedOver(s, bad)
        PROVE  Goal
    <3>1. src[s].at # "wake"
      BY <2>3 DEF Fetching
    <3>2. CASE \E counted \in BOOLEAN : Made(s, counted)
      BY <2>3, <3>1, <3>2, PollRecords DEF Made
    <3>3. CASE \E bad \in BOOLEAN : PassedOver(s, bad)
      BY <2>3, <3>1, <3>3, PollRecords DEF PassedOver
    <3> QED BY <2>3, <3>2, <3>3
  <2>4. CASE ProviderNext
    <3>1. CASE \E ok \in BOOLEAN : FetchReports(ok) \/ FetchTargets(ok) \/ RefreshStations(ok)
      BY <2>0, <2>1, <2>2, <3>1 DEF FetchReports, FetchTargets
    <3>2. CASE \E ok \in BOOLEAN : FetchLocation(ok) \/ FetchAirQuality(ok)
      BY <2>0, <2>3, <3>2 DEF FetchLocation, FetchAirQuality
    <3>3. CASE \E report \in {"ok", "none", "bad"} : NormalizeReport(report)
      <4>1. PICK report \in {"ok", "none", "bad"} : NormalizeReport(report)
        BY <3>3
      <4>2. (report = "bad") \in BOOLEAN
        OBVIOUS
      <4> QED BY <2>0, <2>3, <4>1, <4>2 DEF NormalizeReport
    <3>4. CASE BuildSnapshot \/ SkipStation \/ AqSnapshot
      BY <2>0, <2>3, <3>4 DEF BuildSnapshot, SkipStation, AqSnapshot
    <3> QED BY <2>4, <3>1, <3>2, <3>3, <3>4 DEF ProviderNext
  <2>5. ASSUME NEW s \in InfoSources, InfoPollBegins(s) PROVE Goal
    <3>1. PICK at : /\ src[s].at # "wake" /\ UNCHANGED <<queueSide, workerSide>>
                    /\ Becomes(s, [IdlePoll EXCEPT !.at = at, !.todo = SnapKeys[s]])
      BY <2>5 DEF InfoPollBegins
    <3> QED BY <3>1, PollRecords
  <2>6. ASSUME NEW s \in InfoSources, PollCancelled(s) PROVE Goal
    <3>1. /\ src[s].at # "wake" /\ UNCHANGED <<queueSide, workerSide>>
          /\ \/ Becomes(s, [src[s] EXCEPT !.todo = <<>>])
             \/ Becomes(s, IdlePoll)
      BY <2>6 DEF PollCancelled, Fetching
    <3> QED BY <3>1, PollRecords
  <2>7. ASSUME NEW s \in InfoSources, EmitRefused(s) PROVE Goal
    <3>1. /\ src[s].at # "wake" /\ UNCHANGED <<queueSide, workerSide>>
          /\ Becomes(s, After(s, FALSE, s \in {"metar", "adsb"}))
      BY <2>7 DEF EmitRefused
    <3> QED BY <3>1, PollRecords
  <2>8. ASSUME NEW s \in InfoSources, InfoPollEnds(s) PROVE Goal
    <3>1. /\ src[s].at # "wake" /\ UNCHANGED <<queueSide, workerSide>>
          /\ Becomes(s, IdlePoll)
      BY <2>8 DEF InfoPollEnds
    <3> QED BY <3>1, PollRecords
  <2> QED BY <2>4, <2>5, <2>6, <2>7, <2>8
<1> QED BY <1>1, QuietPollStep DEF PollRecord

(* enqueueInfo's write, and the wakeup that follows it.                       *)
LEMMA EmitStep ==
    ASSUME WakeInv, NEW s \in InfoSources, EmitInformation(s) \/ WakeWorker(s)
    PROVE  WakeInv'
<1>1. UNCHANGED workerSide
  BY DEF EmitInformation, WakeWorker
<1>2. CASE EmitInformation(s)
  <2>1. PICK r : Becomes(s, r) /\ PollRecord(r) /\ r.at = "wake" /\ src[s].at # "wake"
    <3>1. /\ src[s].at = "emit"
          /\ Becomes(s, [After(s, s \in {"metar", "adsb"}, FALSE) EXCEPT !.at = "wake"])
      BY <1>2 DEF EmitInformation
    <3>2. PollRecord(After(s, s \in {"metar", "adsb"}, FALSE))
      BY PollRecords
    <3>3. /\ PollRecord([After(s, s \in {"metar", "adsb"}, FALSE) EXCEPT !.at = "wake"])
          /\ [After(s, s \in {"metar", "adsb"}, FALSE) EXCEPT !.at = "wake"].at = "wake"
      BY <3>2, RecordMoves
    <3> QED BY <3>1, <3>3
  <2>2. InfoShape' /\ src'[s].at = "wake"
    BY <1>1, <2>1, PollMoves DEF PollRecord, WakeInv, InfoShape, workerSide
  <2> QED BY <1>1, <2>2 DEF WakeInv, CallIsAwaited, NoLostWakeup, workerSide
<1>3. CASE WakeWorker(s)
  <2>1. notify' = TRUE /\ src' = [src EXCEPT ![s] = [src[s] EXCEPT !.at = "fetch"]]
    BY <1>3 DEF WakeWorker, Becomes
  <2>2. InfoShape'
    <3>1. PollRecord([src[s] EXCEPT !.at = "fetch"])
      BY PollRecords
    <3>2. \A t \in InfoSources : PollRecord(src'[t])
      BY <2>1, <3>1 DEF WakeInv, InfoShape, PollRecord
    <3>3. DOMAIN src' = InfoSources /\ src' = [t \in InfoSources |-> src'[t]]
      BY <2>1 DEF WakeInv, InfoShape
    <3> QED BY <1>1, <3>2, <3>3 DEF WakeInv, InfoShape, PollRecord, workerSide
  <2> QED BY <1>1, <2>1, <2>2 DEF WakeInv, CallIsAwaited, NoLostWakeup, workerSide
<1> QED BY <1>2, <1>3

(* The worker's loop and its callback.                                        *)
LEMMA WorkerStep ==
    ASSUME WakeInv,
           \/ TakeInfo \/ HeartbeatDue \/ \E stalled \in BOOLEAN : HealthCollected(stalled)
           \/ CallExpires \/ CallReturns \/ CallAbandoned \/ Rearm \/ CallProceeds
    PROVE  WakeInv'
<1> USE DEF WakeInv, InfoShape, CallIsAwaited, NoLostWakeup, queueSide, sourceSide
<1>1. UNCHANGED src
  BY DEF TakeInfo, HeartbeatDue, HealthCollected, CallExpires, CallReturns, CallAbandoned,
         Abandoned, Rearm, CallProceeds
<1>2. CASE TakeInfo
  <2>1. aux = "loop" /\ UNCHANGED infoOff
    BY <1>2 DEF TakeInfo
  <2>2. CASE (infoOff \/ Waiting = {}) /\ UNCHANGED <<queued, aux, call>>
    BY <1>1, <2>1, <2>2 DEF Waiting
  <2>3. ASSUME NEW k \in Waiting, aux' = "call",
               call' = [kind |-> "info", topic |-> k, snap |-> queued[k],
                        at |-> "connect", expired |-> FALSE]
        PROVE  WakeInv'
    BY <1>1, <2>3
  <2> QED BY <1>2, <2>2, <2>3 DEF TakeInfo
<1>3. CASE HeartbeatDue
  BY <1>1, <1>3 DEF HeartbeatDue, Waiting
<1>4. CASE \E stalled \in BOOLEAN : HealthCollected(stalled)
  BY <1>1, <1>4 DEF HealthCollected, Waiting
<1>5. CASE CallExpires \/ CallProceeds
  <2>1. /\ aux = "call" /\ UNCHANGED <<queued, notify, infoOff, aux>>
        /\ \/ call' = [call EXCEPT !.expired = TRUE]
           \/ \E at \in {"publish", "wait", "done"} : call' = [call EXCEPT !.at = at]
    BY <1>5 DEF CallExpires, CallProceeds, NextOf
  <2>2. /\ call'.kind = call.kind
        /\ call' = [kind |-> call'.kind, topic |-> call'.topic, snap |-> call'.snap,
                    at |-> call'.at, expired |-> call'.expired]
    BY <2>1
  <2> QED BY <1>1, <2>1, <2>2 DEF Waiting
<1>6. CASE CallReturns
  BY <1>1, <1>6 DEF CallReturns, NoCallback, Waiting
<1>7. CASE CallAbandoned
  <2>1. /\ aux' = "loop" /\ call' = NoCallback /\ UNCHANGED <<queued, notify>>
        /\ infoOff' = (infoOff \/ call.kind = "info") /\ aux = "call"
    BY <1>7 DEF CallAbandoned, Abandoned
  <2>2. Waiting' = Waiting
    BY <2>1 DEF Waiting
  <2>3. NoLostWakeup'
    BY <1>1, <2>1, <2>2
  <2> QED BY <1>1, <2>1, <2>3 DEF NoCallback
<1>8. CASE Rearm
  <2>1. /\ aux' = "loop" /\ notify' = (notify \/ Waiting # {})
        /\ UNCHANGED <<queued, infoOff, call>> /\ aux = "rearm"
    BY <1>8 DEF Rearm
  <2>2. Waiting' = Waiting
    BY <2>1 DEF Waiting
  <2> QED BY <1>1, <2>1, <2>2
<1> QED BY <1>2, <1>3, <1>4, <1>5, <1>6, <1>7, <1>8

LEMMA WakeInit == InfoInit => WakeInv
<1>1. SUFFICES ASSUME InfoInit PROVE WakeInv
  OBVIOUS
<1>2. InfoShape /\ CallIsAwaited
  BY <1>1 DEF InfoInit, InfoShape, CallIsAwaited, IdlePoll, NoCallback
<1>3. Waiting = {}
  BY <1>1 DEF InfoInit, Waiting
<1> QED BY <1>2, <1>3 DEF WakeInv, NoLostWakeup

LEMMA WakeStep == WakeInv /\ [InfoNext]_infoVars => WakeInv'
<1>1. SUFFICES ASSUME WakeInv, [InfoNext]_infoVars PROVE WakeInv'
  OBVIOUS
<1>2. CASE ProviderNext \/ \E s \in InfoSources : SourceNext(s)
  BY <1>1, <1>2, PollStep, EmitStep DEF SourceNext
<1>3. CASE \/ TakeInfo \/ HeartbeatDue \/ \E stalled \in BOOLEAN : HealthCollected(stalled)
           \/ CallExpires \/ CallReturns \/ CallAbandoned \/ Rearm \/ CallProceeds
  BY <1>1, <1>3, WorkerStep
<1>4. CASE \/ StrayProceeds \/ BrokerAcks \/ LinkBreaks \/ LinkReturns \/ Shutdown
           \/ CloseOutput \/ Disconnect \/ UNCHANGED infoVars
  <2>1. /\ UNCHANGED <<src, queued, notify, infoOff, call>>
        /\ (UNCHANGED aux \/ call.kind # "info") /\ (aux' = aux \/ aux # "rearm")
    BY <1>1, <1>4
       DEF StrayProceeds, BrokerAcks, LinkBreaks, LinkReturns, Shutdown, CloseOutput,
           Disconnect, infoVars, sourceSide, queueSide, workerSide, WakeInv, CallIsAwaited
  <2>2. Waiting' = Waiting
    BY <2>1 DEF Waiting
  <2> QED BY <1>1, <2>1, <2>2 DEF WakeInv, InfoShape, CallIsAwaited, NoLostWakeup
<1> QED BY <1>1, <1>2, <1>3, <1>4 DEF InfoNext

(* A snapshot that waits keeps its wakeup, by the order of enqueueInfo's two  *)
(* steps and the re-arm of deliverPendingInfo (output_worker.go:127, 272).    *)
THEOREM WakeupsAreKept == InfoSpec => []NoLostWakeup
<1>1. WakeInv => NoLostWakeup
  BY DEF WakeInv
<1> QED BY <1>1, WakeInit, WakeStep, PTL DEF InfoSpec

(* The order of the snapshots.  What has been sent of a topic is never newer   *)
(* than what is still to be sent of it: the callback in flight, then what     *)
(* waits in the queue, then what the source's poll will emit.                 *)
Owned(s) == {SnapKeys[s][i] : i \in DOMAIN SnapKeys[s]}
Callbacks == strays \cup {call}
Unsent(c) == c.kind = "info" /\ c.at \in {"connect", "publish"}

(* v is no older than anything sent of topic k, or about to be. *)
Ahead(k, v) ==
    kept[k] <= v /\ \A i \in DOMAIN unacked : unacked[i].topic = k => unacked[i].snap <= v
Beyond(k, v) ==
    Ahead(k, v) /\ \A c \in Callbacks : Unsent(c) /\ c.topic = k => c.snap <= v

Stages == {"connect", "publish", "wait", "done"}
InfoCallbacks ==
    [kind : {"info"}, topic : InfoTopics, snap : Nat, at : Stages, expired : BOOLEAN]
StatusCallbacks ==
    [kind : {"status"}, topic : {"status"}, snap : Nat, at : Stages, expired : BOOLEAN]
Messages == [topic : InfoTopics \cup {"status"}, snap : Nat]

TodoOK(s, r) == r.todo \in Seq(Owned(s)) /\ (r.at = "emit" => r.todo # <<>>)

FlowShape ==
    /\ rounds \in [InfoSources -> Nat] /\ queued \in [InfoTopics -> Nat]
    /\ kept \in [InfoTopics -> Nat] /\ beats \in Nat /\ unacked \in Seq(Messages)
    /\ call \in InfoCallbacks \cup StatusCallbacks \cup {NoCallback}
    /\ aux = "call" => call # NoCallback
    /\ strays \subseteq InfoCallbacks \cup StatusCallbacks
    /\ \A s \in InfoSources : TodoOK(s, src[s])

(* An abandoned callback with a snapshot is the last one: the capability is    *)
(* off, so nothing newer is taken while it may still reach the broker.        *)
OneInFlight ==
    \A c \in strays : c.kind = "info" =>
        infoOff /\ call.kind # "info" /\ \A d \in strays : d.kind = "info" => d = c

SentInOrder ==
    \A i \in DOMAIN unacked : unacked[i].topic # "status" =>
        /\ kept[unacked[i].topic] <= unacked[i].snap
        /\ \A j \in DOMAIN unacked :
              i < j /\ unacked[j].topic = unacked[i].topic => unacked[i].snap <= unacked[j].snap

NewestLast ==
    /\ \A c \in Callbacks : Unsent(c) => Ahead(c.topic, c.snap)
    /\ \A k \in InfoTopics : queued[k] # 0 => Beyond(k, queued[k])
    /\ \A s \in InfoSources : \A k \in Owned(s) : queued[k] <= rounds[s] /\ Beyond(k, rounds[s])

FlowOrder == SentInOrder /\ NewestLast
FlowInv == WakeInv /\ FlowShape /\ OneInFlight /\ FlowOrder

LEMMA OwnedTopics ==
    /\ \A s \in InfoSources : SnapKeys[s] \in Seq(Owned(s)) /\ Owned(s) \subseteq InfoTopics
    /\ \A s, t \in InfoSources : s # t => Owned(s) \cap Owned(t) = {}
<1>1. ASSUME NEW s \in InfoSources PROVE SnapKeys[s] \in Seq(Owned(s)) /\ Owned(s) \subseteq InfoTopics
  <2>1. SnapKeys[s] \in Seq(InfoTopics)
    BY InfoAssumption
  <2>2. \A i \in 1 .. Len(SnapKeys[s]) : SnapKeys[s][i] \in Owned(s)
    BY <2>1 DEF Owned
  <2>3. SnapKeys[s] = [i \in 1 .. Len(SnapKeys[s]) |-> SnapKeys[s][i]] /\ Len(SnapKeys[s]) \in Nat
    BY <2>1
  <2>4. SnapKeys[s] \in Seq(Owned(s))
    BY <2>2, <2>3
  <2> QED BY <2>4 DEF Owned, InfoTopics
<1>2. ASSUME NEW s \in InfoSources, NEW t \in InfoSources, s # t PROVE Owned(s) \cap Owned(t) = {}
  BY <1>2, InfoAssumption DEF Owned
<1> QED BY <1>1, <1>2

LEMMA SnapsAreNat ==
    ASSUME FlowShape
    PROVE  /\ \A i \in DOMAIN unacked : unacked[i] \in Messages /\ unacked[i].snap \in Nat
           /\ \A c \in Callbacks : c.snap \in Nat /\ (c.kind = "info" => c.topic \in InfoTopics)
<1>1. \A i \in DOMAIN unacked : unacked[i] \in Messages
  BY DEF FlowShape
<1>2. \A m \in Messages : m.snap \in Nat
  BY DEF Messages
<1>3. \A c \in InfoCallbacks \cup StatusCallbacks \cup {NoCallback} :
        c.snap \in Nat /\ (c.kind = "info" => c.topic \in InfoTopics)
  BY DEF InfoCallbacks, StatusCallbacks, NoCallback
<1>4. Callbacks \subseteq InfoCallbacks \cup StatusCallbacks \cup {NoCallback}
  BY DEF FlowShape, Callbacks
<1> QED BY <1>1, <1>2, <1>3, <1>4

(* A step that sends nothing, starts no callback and takes no snapshot in.    *)
LEMMA NothingSent ==
    ASSUME FlowInv, FlowShape', UNCHANGED <<kept, unacked>>,
           \A c \in Callbacks' : Unsent(c) =>
              \E d \in Callbacks : Unsent(d) /\ d.topic = c.topic /\ d.snap = c.snap,
           \A k \in InfoTopics : queued'[k] \in {0, queued[k]},
           \A s \in InfoSources : rounds[s] <= rounds'[s]
    PROVE  FlowOrder'
<1>1. SentInOrder'
  BY DEF FlowInv, FlowOrder, SentInOrder
<1>2. \A k, v : Ahead(k, v)' <=> Ahead(k, v)
  BY DEF Ahead
<1>3. \A k, v : Beyond(k, v) => Beyond(k, v)'
  BY <1>2 DEF Beyond
<1>4. ASSUME NEW c \in Callbacks', Unsent(c) PROVE Ahead(c.topic, c.snap)'
  BY <1>2, <1>4 DEF FlowInv, FlowOrder, NewestLast
<1>5. ASSUME NEW k \in InfoTopics, queued'[k] # 0 PROVE Beyond(k, queued[k])'
  <2>1. queued'[k] = queued[k] /\ Beyond(k, queued[k])
    BY <1>5 DEF FlowInv, FlowOrder, NewestLast
  <2> DEFINE v == queued[k]
  <2>2. Beyond(k, v) /\ queued'[k] = v
    BY <2>1
  <2>3. v \in Nat
    BY DEF FlowInv, FlowShape
  <2>4. kept'[k] <= queued'[k] /\ \A i \in DOMAIN unacked' : unacked'[i].topic = k => unacked'[i].snap <= queued'[k]
    BY <2>2 DEF Beyond, Ahead
  <2>5. \A c \in Callbacks' : Unsent(c) /\ c.topic = k => c.snap <= queued'[k]
    BY <2>2 DEF Beyond
  <2> QED BY <2>4, <2>5 DEF Beyond, Ahead
<1>6. ASSUME NEW s \in InfoSources, NEW k \in Owned(s)
      PROVE  (queued[k] <= rounds[s] /\ Beyond(k, rounds[s]))'
  <2>1. k \in InfoTopics
    BY OwnedTopics
  <2>2. queued[k] <= rounds[s] /\ Beyond(k, rounds[s])
    BY DEF FlowInv, FlowOrder, NewestLast
  <2>3. rounds[s] \in Nat /\ rounds'[s] \in Nat /\ queued[k] \in Nat /\ rounds[s] <= rounds'[s]
    BY <2>1 DEF FlowInv, FlowShape
  <2>4. queued'[k] <= rounds'[s]
    BY <2>1, <2>2, <2>3
  <2>5. \A v, w \in Nat : Beyond(k, v) /\ v <= w => Beyond(k, w)
    <3>1. /\ kept[k] \in Nat
          /\ \A i \in DOMAIN unacked : unacked[i].snap \in Nat
          /\ \A c \in Callbacks : Unsent(c) => c.snap \in Nat
      BY <2>1, SnapsAreNat DEF FlowInv, FlowShape
    <3> QED BY <3>1 DEF Beyond, Ahead
  <2> QED BY <1>3, <2>2, <2>3, <2>4, <2>5
<1> QED BY <1>1, <1>4, <1>5, <1>6 DEF FlowOrder, NewestLast

LEMMA TodoMoves ==
    ASSUME NEW r, PollRecord(r), NEW at, NEW todo, NEW good, NEW bad
    PROVE  /\ [r EXCEPT !.at = at].todo = r.todo /\ [r EXCEPT !.at = at].at = at
           /\ [r EXCEPT !.todo = todo].todo = todo /\ [r EXCEPT !.todo = todo].at = r.at
           /\ [r EXCEPT !.at = at, !.good = good].todo = r.todo
           /\ [r EXCEPT !.at = at, !.todo = todo].todo = todo
           /\ [r EXCEPT !.at = at, !.todo = todo].at = at
           /\ [r EXCEPT !.at = at, !.todo = todo, !.good = good, !.bad = bad].todo = todo
           /\ [r EXCEPT !.at = at, !.todo = todo, !.good = good, !.bad = bad].at = at
<1>1. PICK a, t, g, b : r = [at |-> a, todo |-> t, good |-> g, bad |-> b]
  BY DEF PollRecord
<1>2. [r EXCEPT !.at = at] = [at |-> at, todo |-> t, good |-> g, bad |-> b]
  BY <1>1
<1>3. [r EXCEPT !.todo = todo] = [at |-> a, todo |-> todo, good |-> g, bad |-> b]
  BY <1>1
<1> DEFINE r1 == [at |-> at, todo |-> t, good |-> g, bad |-> b]
           r2 == [at |-> at, todo |-> todo, good |-> g, bad |-> b]
           r3 == [at |-> at, todo |-> todo, good |-> good, bad |-> b]
<1>4. [r EXCEPT !.at = at, !.good = good] = [at |-> at, todo |-> t, good |-> good, bad |-> b]
  <2>1. [r EXCEPT !.at = at, !.good = good] = [[r EXCEPT !.at = at] EXCEPT !.good = good]
    OBVIOUS
  <2>2. [r1 EXCEPT !.good = good] = [at |-> at, todo |-> t, good |-> good, bad |-> b]
    OBVIOUS
  <2> QED BY <1>2, <2>1, <2>2
<1>5. [r EXCEPT !.at = at, !.todo = todo] = r2
  <2>1. [r EXCEPT !.at = at, !.todo = todo] = [[r EXCEPT !.at = at] EXCEPT !.todo = todo]
    OBVIOUS
  <2>2. [r1 EXCEPT !.todo = todo] = r2
    OBVIOUS
  <2> QED BY <1>2, <2>1, <2>2
<1>6. [r EXCEPT !.at = at, !.todo = todo, !.good = good, !.bad = bad]
      = [at |-> at, todo |-> todo, good |-> good, bad |-> bad]
  <2>1. [r EXCEPT !.at = at, !.todo = todo, !.good = good, !.bad = bad]
        = [[[r EXCEPT !.at = at, !.todo = todo] EXCEPT !.good = good] EXCEPT !.bad = bad]
    OBVIOUS
  <2>2. [r2 EXCEPT !.good = good] = r3
    OBVIOUS
  <2>3. [r3 EXCEPT !.bad = bad] = [at |-> at, todo |-> todo, good |-> good, bad |-> bad]
    OBVIOUS
  <2> HIDE DEF r2, r3
  <2> QED BY <1>5, <2>1, <2>2, <2>3
<1>7. r.todo = t /\ r.at = a
  BY <1>1
<1> QED BY <1>2, <1>3, <1>4, <1>5, <1>6, <1>7

(* What a poll may become leaves it a list of topics of its own.               *)
LEMMA PollTodos ==
    ASSUME FlowInv, NEW s \in InfoSources
    PROVE  /\ TodoOK(s, IdlePoll)
           /\ \A at \in {"fetch", "batch"} : TodoOK(s, [IdlePoll EXCEPT !.at = at, !.todo = SnapKeys[s]])
           /\ TodoOK(s, [src[s] EXCEPT !.at = "fetch"])
           /\ src[s].at # "emit" => TodoOK(s, [src[s] EXCEPT !.todo = <<>>])
           /\ \A good : Fetching(s) => TodoOK(s, [src[s] EXCEPT !.at = "emit", !.good = good])
           /\ src[s].todo # <<>> =>
                \A good, bad : /\ TodoOK(s, After(s, good, bad))
                               /\ TodoOK(s, [After(s, good, bad) EXCEPT !.at = "wake"])
<1>1. PollRecord(src[s]) /\ PollRecord(IdlePoll) /\ TodoOK(s, src[s])
  BY PollRecords DEF FlowInv, WakeInv, InfoShape, PollRecord, FlowShape
<1>2. IdlePoll.todo = <<>> /\ IdlePoll.at = "idle" /\ <<>> \in Seq(Owned(s))
  BY DEF IdlePoll
<1>3. SnapKeys[s] \in Seq(Owned(s))
  BY OwnedTopics
<1>4. TodoOK(s, IdlePoll)
  BY <1>2 DEF TodoOK
<1>5. \A at \in {"fetch", "batch"} : TodoOK(s, [IdlePoll EXCEPT !.at = at, !.todo = SnapKeys[s]])
  BY <1>1, <1>3, TodoMoves DEF TodoOK
<1>6. /\ TodoOK(s, [src[s] EXCEPT !.at = "fetch"])
      /\ src[s].at # "emit" => TodoOK(s, [src[s] EXCEPT !.todo = <<>>])
  <2> DEFINE r == src[s]
  <2>1. PollRecord(r) /\ TodoOK(s, r)
    BY <1>1
  <2> HIDE DEF r
  <2>2. /\ TodoOK(s, [r EXCEPT !.at = "fetch"])
        /\ r.at # "emit" => TodoOK(s, [r EXCEPT !.todo = <<>>])
    BY <1>2, <2>1, TodoMoves DEF TodoOK
  <2> QED BY <2>2 DEF r
<1>7. ASSUME NEW good, Fetching(s) PROVE TodoOK(s, [src[s] EXCEPT !.at = "emit", !.good = good])
  <2> DEFINE r == src[s]
  <2>1. PollRecord(r) /\ TodoOK(s, r) /\ r.todo # <<>>
    BY <1>1, <1>7 DEF Fetching
  <2> HIDE DEF r
  <2>2. [r EXCEPT !.at = "emit", !.good = good].todo = r.todo
    BY <2>1, TodoMoves
  <2>3. TodoOK(s, [r EXCEPT !.at = "emit", !.good = good])
    BY <2>1, <2>2 DEF TodoOK
  <2> QED BY <2>3 DEF r
<1>8. ASSUME src[s].todo # <<>>, NEW good, NEW bad
      PROVE  /\ TodoOK(s, After(s, good, bad))
             /\ TodoOK(s, [After(s, good, bad) EXCEPT !.at = "wake"])
  <2> DEFINE r == src[s]
             left == Tail(r.todo)
             anyGood == r.good \/ good
             anyBad == r.bad \/ bad
             a == After(s, good, bad)
  <2>1. a = [r EXCEPT !.at = "fetch", !.todo = left, !.good = anyGood, !.bad = anyBad]
    BY DEF After
  <2>2. PollRecord(r) /\ left \in Seq(Owned(s))
    BY <1>1, <1>8 DEF TodoOK
  <2>3. PollRecord(a)
    BY PollRecords DEF FlowInv
  <2> HIDE DEF r, left, anyGood, anyBad, a
  <2>4. a.todo = left /\ a.at = "fetch"
    BY <2>1, <2>2, TodoMoves
  <2>5. [a EXCEPT !.at = "wake"].todo = a.todo /\ [a EXCEPT !.at = "wake"].at = "wake"
    BY <2>3, TodoMoves
  <2>6. TodoOK(s, a) /\ TodoOK(s, [a EXCEPT !.at = "wake"])
    BY <2>2, <2>4, <2>5 DEF TodoOK
  <2> QED BY <2>6 DEF a
<1> QED BY <1>4, <1>5, <1>6, <1>7, <1>8

(* A poll moves, and nothing else but the count of its rounds.                *)
LEMMA PollFlows ==
    ASSUME FlowInv, NEW s \in InfoSources, NEW r, Becomes(s, r), TodoOK(s, r),
           UNCHANGED <<queued, infoOff, workerSide, brokerSide>>,
           rounds' = rounds \/ rounds' = [rounds EXCEPT ![s] = @ + 1]
    PROVE  FlowShape' /\ OneInFlight' /\ FlowOrder'
<1>1. UNCHANGED <<aux, call, strays, beats, unacked, kept>>
  BY DEF workerSide, brokerSide
<1>2. rounds' \in [InfoSources -> Nat] /\ \A t \in InfoSources : rounds[t] <= rounds'[t]
  <2>1. rounds \in [InfoSources -> Nat]
    BY DEF FlowInv, FlowShape
  <2>2. CASE rounds' = rounds
    BY <2>1, <2>2
  <2>3. CASE rounds' = [rounds EXCEPT ![s] = @ + 1]
    <3>1. \A t \in InfoSources : rounds'[t] = IF t = s THEN rounds[t] + 1 ELSE rounds[t]
      BY <2>1, <2>3
    <3>2. rounds' \in [InfoSources -> Nat]
      BY <2>1, <2>3
    <3> QED BY <2>1, <3>1, <3>2
  <2> QED BY <2>2, <2>3
<1>3. \A t \in InfoSources : TodoOK(t, src'[t])
  <2>1. \A t \in InfoSources : src'[t] = IF t = s THEN r ELSE src[t]
    BY DEF Becomes, FlowInv, WakeInv, InfoShape
  <2> QED BY <2>1 DEF FlowInv, FlowShape
<1>4. FlowShape'
  BY <1>1, <1>2, <1>3 DEF FlowInv, FlowShape, TodoOK
<1>5. OneInFlight'
  BY <1>1 DEF FlowInv, OneInFlight
<1>6. Callbacks' = Callbacks
  BY <1>1 DEF Callbacks
<1>7. FlowOrder'
  BY <1>1, <1>2, <1>4, <1>6, NothingSent DEF FlowInv, FlowShape
<1> QED BY <1>4, <1>5, <1>7

LEMMA PollFlowStep ==
    ASSUME FlowInv,
           \/ ProviderNext
           \/ \E s \in InfoSources : InfoPollBegins(s) \/ PollCancelled(s)
                                     \/ EmitRefused(s) \/ InfoPollEnds(s) \/ WakeWorker(s)
    PROVE  FlowShape' /\ OneInFlight' /\ FlowOrder'
<1> DEFINE Moves(s, r) == /\ Becomes(s, r) /\ TodoOK(s, r)
                          /\ UNCHANGED <<queued, infoOff, workerSide, brokerSide>>
                          /\ rounds' = rounds \/ rounds' = [rounds EXCEPT ![s] = @ + 1]
<1> SUFFICES \E s \in InfoSources : \E r : Moves(s, r)
  BY PollFlows
<1>0. "metar" \in InfoSources /\ "adsb" \in InfoSources /\ "giosaq" \in InfoSources
      /\ "openmeteo" \in InfoSources
  BY DEF InfoSources
<1>1. ASSUME NEW s \in InfoSources, NEW ok \in BOOLEAN, BatchAnswer(s, ok) PROVE \E r : Moves(s, r)
  BY <1>1, PollTodos DEF BatchAnswer, queueSide
<1>2. ASSUME NEW ok \in BOOLEAN, RefreshStations(ok) PROVE \E r : Moves("giosaq", r)
  BY <1>0, <1>2, PollTodos DEF RefreshStations, queueSide
<1>3. ASSUME NEW s \in InfoSources, Fetching(s), UNCHANGED <<rounds, queueSide, workerSide, brokerSide>>,
             \/ \E counted \in BOOLEAN : Made(s, counted)
             \/ \E bad \in BOOLEAN : PassedOver(s, bad)
      PROVE  \E r : Moves(s, r)
  <2>1. CASE \E counted \in BOOLEAN : Made(s, counted)
    BY <1>3, <2>1, PollTodos DEF Made, queueSide
  <2>2. CASE \E bad \in BOOLEAN : PassedOver(s, bad)
    BY <1>3, <2>2, PollTodos DEF PassedOver, queueSide, Fetching
  <2> QED BY <1>3, <2>1, <2>2
<1>4. CASE ProviderNext
  <2>1. CASE \E ok \in BOOLEAN : FetchReports(ok) \/ FetchTargets(ok) \/ RefreshStations(ok)
    BY <1>0, <1>1, <1>2, <2>1 DEF FetchReports, FetchTargets
  <2>2. CASE \E ok \in BOOLEAN : FetchLocation(ok) \/ FetchAirQuality(ok)
    BY <1>0, <1>3, <2>2 DEF FetchLocation, FetchAirQuality
  <2>3. CASE \E report \in {"ok", "none", "bad"} : NormalizeReport(report)
    <3>1. PICK report \in {"ok", "none", "bad"} : NormalizeReport(report)
      BY <2>3
    <3>2. (report = "bad") \in BOOLEAN
      OBVIOUS
    <3> QED BY <1>0, <1>3, <3>1, <3>2 DEF NormalizeReport
  <2>4. CASE BuildSnapshot \/ SkipStation \/ AqSnapshot
    BY <1>0, <1>3, <2>4 DEF BuildSnapshot, SkipStation, AqSnapshot
  <2> QED BY <1>4, <2>1, <2>2, <2>3, <2>4 DEF ProviderNext
<1>5. ASSUME NEW s \in InfoSources, InfoPollBegins(s) PROVE \E r : Moves(s, r)
  BY <1>5, PollTodos DEF InfoPollBegins, queueSide
<1>6. ASSUME NEW s \in InfoSources, PollCancelled(s) PROVE \E r : Moves(s, r)
  BY <1>6, PollTodos DEF PollCancelled, Fetching, queueSide
<1>7. ASSUME NEW s \in InfoSources, EmitRefused(s) PROVE \E r : Moves(s, r)
  <2>1. src[s].todo # <<>>
    BY <1>7 DEF EmitRefused, FlowInv, FlowShape, TodoOK
  <2> QED BY <1>7, <2>1, PollTodos DEF EmitRefused, queueSide
<1>8. ASSUME NEW s \in InfoSources, InfoPollEnds(s) \/ WakeWorker(s) PROVE \E r : Moves(s, r)
  BY <1>8, PollTodos DEF InfoPollEnds, WakeWorker, queueSide
<1> QED BY <1>4, <1>5, <1>6, <1>7, <1>8

(* A callback goes through its stages with its topic and snapshot.            *)
LEMMA CallbackFields ==
    ASSUME NEW c \in InfoCallbacks \cup StatusCallbacks
    PROVE  /\ [c EXCEPT !.expired = TRUE] \in InfoCallbacks \cup StatusCallbacks
           /\ \A a \in Stages : /\ [c EXCEPT !.at = a] \in InfoCallbacks \cup StatusCallbacks
                                /\ [c EXCEPT !.at = a].at = a
           /\ \A d \in {[c EXCEPT !.expired = TRUE]} \cup {[c EXCEPT !.at = a] : a \in Stages} :
                /\ d.kind = c.kind /\ d.topic = c.topic /\ d.snap = c.snap /\ d # NoCallback
                /\ d = [c EXCEPT !.expired = TRUE] => d.at = c.at
           /\ c # NoCallback
<1> DEFINE Fields(k, t, n, a, e) == [kind |-> k, topic |-> t, snap |-> n, at |-> a, expired |-> e]
<1>1. PICK k, t, n, a, e :
        /\ c = Fields(k, t, n, a, e) /\ n \in Nat /\ a \in Stages
        /\ (k = "info" /\ t \in InfoTopics) \/ (k = "status" /\ t = "status")
  <2>1. c = Fields(c.kind, c.topic, c.snap, c.at, c.expired)
    <3>1. CASE c \in InfoCallbacks
      BY <3>1 DEF InfoCallbacks
    <3>2. CASE c \in StatusCallbacks
      BY <3>2 DEF StatusCallbacks
    <3> QED BY <3>1, <3>2
  <2>2. /\ c.snap \in Nat /\ c.at \in Stages
        /\ (c.kind = "info" /\ c.topic \in InfoTopics) \/ (c.kind = "status" /\ c.topic = "status")
    <3>1. CASE c \in InfoCallbacks
      BY <3>1 DEF InfoCallbacks
    <3>2. CASE c \in StatusCallbacks
      BY <3>2 DEF StatusCallbacks
    <3> QED BY <3>1, <3>2
  <2> QED BY <2>1, <2>2
<1>2. \A b \in Stages, f \in {e, TRUE} : Fields(k, t, n, b, f) \in InfoCallbacks \cup StatusCallbacks
  <2>1. e \in BOOLEAN
    <3>1. c.expired \in BOOLEAN
      BY DEF InfoCallbacks, StatusCallbacks
    <3> QED BY <1>1, <3>1
  <2>2. CASE k = "info" /\ t \in InfoTopics
    BY <1>1, <2>1, <2>2 DEF InfoCallbacks
  <2>3. CASE k = "status" /\ t = "status"
    BY <1>1, <2>1, <2>3 DEF StatusCallbacks
  <2> QED BY <1>1, <2>2, <2>3
<1>3. [c EXCEPT !.expired = TRUE] = Fields(k, t, n, a, TRUE)
  <2>1. \A f : [Fields(k, t, n, a, e) EXCEPT !.expired = f] = Fields(k, t, n, a, f)
    OBVIOUS
  <2> HIDE DEF Fields
  <2> QED BY <1>1, <2>1
<1>4. ASSUME NEW b PROVE [c EXCEPT !.at = b] = Fields(k, t, n, b, e)
  <2>1. [Fields(k, t, n, a, e) EXCEPT !.at = b] = Fields(k, t, n, b, e)
    OBVIOUS
  <2> HIDE DEF Fields
  <2> QED BY <1>1, <2>1
<1>5. ASSUME NEW b, NEW f
      PROVE  /\ Fields(k, t, n, b, f) # NoCallback
             /\ Fields(k, t, n, b, f).kind = k /\ Fields(k, t, n, b, f).topic = t
             /\ Fields(k, t, n, b, f).snap = n /\ Fields(k, t, n, b, f).at = b
  <2>1. Fields(k, t, n, b, f).kind # NoCallback.kind
    BY <1>1 DEF NoCallback
  <2> QED BY <2>1
<1> HIDE DEF Fields
<1>6. c.kind = k /\ c.topic = t /\ c.snap = n /\ c.at = a /\ c # NoCallback
  BY <1>1, <1>5
<1>7. /\ [c EXCEPT !.expired = TRUE] \in InfoCallbacks \cup StatusCallbacks
      /\ \A b \in Stages : /\ [c EXCEPT !.at = b] \in InfoCallbacks \cup StatusCallbacks
                           /\ [c EXCEPT !.at = b].at = b
  <2>1. [c EXCEPT !.expired = TRUE] \in InfoCallbacks \cup StatusCallbacks
    BY <1>1, <1>2, <1>3
  <2>2. ASSUME NEW b \in Stages
        PROVE  /\ [c EXCEPT !.at = b] \in InfoCallbacks \cup StatusCallbacks
               /\ [c EXCEPT !.at = b].at = b
    <3>1. [c EXCEPT !.at = b] = Fields(k, t, n, b, e)
      BY <1>4
    <3>2. Fields(k, t, n, b, e) \in InfoCallbacks \cup StatusCallbacks
      BY <1>2
    <3>3. Fields(k, t, n, b, e).at = b
      BY <1>5
    <3> QED BY <3>1, <3>2, <3>3
  <2> QED BY <2>1, <2>2
<1>8. ASSUME NEW d \in {[c EXCEPT !.expired = TRUE]} \cup {[c EXCEPT !.at = b] : b \in Stages}
      PROVE  d.kind = c.kind /\ d.topic = c.topic /\ d.snap = c.snap /\ d # NoCallback
  <2>1. PICK b, f : d = Fields(k, t, n, b, f)
    <3>1. CASE d = [c EXCEPT !.expired = TRUE]
      BY <1>3, <3>1
    <3>2. CASE \E b \in Stages : d = [c EXCEPT !.at = b]
      BY <1>4, <3>2
    <3> QED BY <3>1, <3>2
  <2> QED BY <1>5, <1>6, <2>1
<1>9. [c EXCEPT !.expired = TRUE].at = c.at
  BY <1>3, <1>5, <1>6
<1> QED BY <1>6, <1>7, <1>8, <1>9

LEMMA NoCallbackIsOver == ~Unsent(NoCallback) /\ NoCallback.kind = "none"
BY DEF Unsent, NoCallback

(* The worker starts a heartbeat, gives a call up or ends it.                 *)
LEMMA WorkerFlows ==
    ASSUME FlowInv,
           \/ HeartbeatDue \/ \E stalled \in BOOLEAN : HealthCollected(stalled)
           \/ CallExpires \/ CallReturns \/ CallAbandoned \/ Rearm
    PROVE  FlowShape' /\ OneInFlight' /\ FlowOrder'
<1>0. UNCHANGED <<src, rounds, queued, unacked, kept>>
  BY DEF HeartbeatDue, HealthCollected, CallExpires, CallReturns, CallAbandoned, Abandoned, Rearm,
         sourceSide, queueSide, brokerSide
<1>1. /\ beats \in Nat /\ call \in InfoCallbacks \cup StatusCallbacks \cup {NoCallback}
      /\ aux = "call" => call # NoCallback
      /\ strays \subseteq InfoCallbacks \cup StatusCallbacks
      /\ OneInFlight
      /\ call.kind = "info" => aux = "call"
  BY DEF FlowInv, FlowShape, WakeInv, CallIsAwaited
<1>2. /\ beats' \in Nat /\ call' \in InfoCallbacks \cup StatusCallbacks \cup {NoCallback}
      /\ aux' = "call" => call' # NoCallback
      /\ strays' \subseteq InfoCallbacks \cup StatusCallbacks
      /\ OneInFlight'
      /\ \A c \in Callbacks' : Unsent(c) =>
           \E d \in Callbacks : Unsent(d) /\ d.topic = c.topic /\ d.snap = c.snap
  <2>1. CASE HeartbeatDue
    BY <1>1, <2>1 DEF HeartbeatDue, OneInFlight, queueSide, Callbacks
  <2>2. CASE \E stalled \in BOOLEAN : HealthCollected(stalled)
    <3>1. PICK stalled \in BOOLEAN : HealthCollected(stalled)
      BY <2>2
    <3>2. /\ call' = [kind |-> "status", topic |-> "status", snap |-> beats,
                      at |-> "connect", expired |-> stalled]
          /\ UNCHANGED <<beats, strays, infoOff>>
      BY <3>1 DEF HealthCollected, queueSide
    <3>3. call' \in StatusCallbacks /\ call'.kind = "status"
      BY <1>1, <3>2 DEF StatusCallbacks, Stages
    <3>4. call' # NoCallback /\ ~Unsent(call')
      BY <3>3, CallbackFields DEF Unsent
    <3> QED BY <1>1, <3>2, <3>3, <3>4 DEF OneInFlight, Callbacks
  <2>3. CASE CallExpires
    <3>1. aux = "call" /\ call' = [call EXCEPT !.expired = TRUE] /\ UNCHANGED <<beats, strays, infoOff, aux>>
      BY <2>3 DEF CallExpires, queueSide
    <3>2. call \in InfoCallbacks \cup StatusCallbacks
      BY <1>1, <3>1
    <3>3. /\ call' \in InfoCallbacks \cup StatusCallbacks /\ call' # NoCallback
          /\ call'.kind = call.kind /\ call'.topic = call.topic /\ call'.snap = call.snap
          /\ call'.at = call.at
      BY <3>1, <3>2, CallbackFields
    <3>4. OneInFlight'
      BY <1>1, <3>1, <3>3 DEF OneInFlight
    <3> QED BY <1>1, <3>1, <3>3, <3>4 DEF Callbacks, Unsent
  <2>4. CASE CallReturns
    <3>1. /\ call' = NoCallback /\ aux' # "call" /\ UNCHANGED <<beats, strays, infoOff>>
      BY <2>4 DEF CallReturns, queueSide
    <3> QED BY <1>1, <3>1, NoCallbackIsOver DEF OneInFlight, Callbacks
  <2>5. CASE CallAbandoned
    <3>1. /\ call' = NoCallback /\ aux = "call" /\ aux' = "loop" /\ UNCHANGED beats
          /\ strays' = (IF call.at = "done" THEN strays ELSE strays \cup {call})
          /\ infoOff' = (infoOff \/ call.kind = "info")
      BY <2>5 DEF CallAbandoned, Abandoned
    <3>2. strays' \subseteq InfoCallbacks \cup StatusCallbacks
      BY <1>1, <3>1
    <3>3. OneInFlight'
      <4>1. \A c \in strays' : c.kind = "info" => infoOff'
        BY <1>1, <3>1 DEF OneInFlight
      <4>2. \A c, d \in strays' : c.kind = "info" /\ d.kind = "info" => d = c
        BY <1>1, <3>1 DEF OneInFlight
      <4> QED BY <3>1, <4>1, <4>2, NoCallbackIsOver DEF OneInFlight
    <3>4. Callbacks' \subseteq Callbacks \cup {NoCallback}
      BY <3>1 DEF Callbacks
    <3> QED BY <1>1, <3>1, <3>2, <3>3, <3>4, NoCallbackIsOver
  <2>6. CASE Rearm
    BY <1>1, <2>6 DEF Rearm, OneInFlight, Callbacks
  <2> QED BY <2>1, <2>2, <2>3, <2>4, <2>5, <2>6
<1>3. FlowShape'
  BY <1>0, <1>2 DEF FlowInv, FlowShape, TodoOK
<1>4. FlowOrder'
  BY <1>0, <1>2, <1>3, NothingSent DEF FlowInv, FlowShape
<1> QED BY <1>2, <1>3, <1>4

(* A snapshot taken from the queue is no older than anything sent.            *)
LEMMA TakeFlows ==
    ASSUME FlowInv, TakeInfo
    PROVE  FlowShape' /\ OneInFlight' /\ FlowOrder'
<1>1. UNCHANGED <<src, rounds, unacked, kept, beats, strays, infoOff>> /\ aux = "loop"
  BY DEF TakeInfo, sourceSide, brokerSide
<1>2. CASE UNCHANGED <<queued, aux, call>>
  <2>1. FlowShape' /\ OneInFlight' /\ Callbacks' = Callbacks
    BY <1>1, <1>2 DEF FlowInv, FlowShape, TodoOK, OneInFlight, Callbacks
  <2> QED BY <1>1, <1>2, <2>1, NothingSent DEF FlowInv, FlowShape
<1>3. CASE ~(UNCHANGED <<queued, aux, call>>)
  <2>1. ~infoOff /\ aux' = "call"
    BY <1>3 DEF TakeInfo
  <2>2. PICK k \in Waiting :
          /\ queued' = [queued EXCEPT ![k] = 0]
          /\ call' = [kind |-> "info", topic |-> k, snap |-> queued[k], at |-> "connect", expired |-> FALSE]
    BY <1>3 DEF TakeInfo
  <2>3. k \in InfoTopics /\ queued[k] \in Nat /\ queued[k] # 0 /\ queued \in [InfoTopics -> Nat]
    BY DEF Waiting, FlowInv, FlowShape
  <2>4. call' \in InfoCallbacks /\ call'.topic = k /\ call'.snap = queued[k] /\ call' # NoCallback
    BY <2>2, <2>3, CallbackFields DEF InfoCallbacks, Stages
  <2>5. \A c \in strays : c.kind # "info"
    BY <2>1 DEF FlowInv, OneInFlight
  <2>6. OneInFlight'
    BY <1>1, <2>5 DEF OneInFlight
  <2>7. queued' \in [InfoTopics -> Nat] /\ \A j \in InfoTopics : queued'[j] = IF j = k THEN 0 ELSE queued[j]
    BY <2>2, <2>3
  <2>8. FlowShape'
    BY <1>1, <2>1, <2>4, <2>7 DEF FlowInv, FlowShape, TodoOK
  <2>9. \A c \in Callbacks' : Unsent(c) => c.topic = k /\ c.snap = queued[k]
    BY <1>1, <2>4, <2>5 DEF Callbacks, Unsent
  <2>10. Beyond(k, queued[k])
    BY <2>3 DEF FlowInv, FlowOrder, NewestLast
  <2>11. SentInOrder' /\ \A j, v : Ahead(j, v)' <=> Ahead(j, v)
    BY <1>1 DEF FlowInv, FlowOrder, SentInOrder, Ahead
  <2>12. ASSUME NEW c \in Callbacks', Unsent(c) PROVE Ahead(c.topic, c.snap)'
    <3>1. Ahead(k, queued[k])
      BY <2>10 DEF Beyond
    <3> QED BY <2>9, <2>11, <2>12, <3>1
  <2>13. ASSUME NEW j \in InfoTopics, queued'[j] # 0 PROVE Beyond(j, queued[j])'
    <3>1. j # k /\ queued'[j] = queued[j] /\ Beyond(j, queued[j])
      BY <2>7, <2>13 DEF FlowInv, FlowOrder, NewestLast
    <3>2. Ahead(j, queued[j])'
      BY <1>1, <3>1 DEF Beyond, Ahead
    <3> QED BY <2>9, <3>1, <3>2 DEF Beyond
  <2>14. ASSUME NEW s \in InfoSources, NEW j \in Owned(s)
         PROVE  (queued[j] <= rounds[s] /\ Beyond(j, rounds[s]))'
    <3>1. j \in InfoTopics /\ queued[j] <= rounds[s] /\ Beyond(j, rounds[s])
      BY OwnedTopics DEF FlowInv, FlowOrder, NewestLast
    <3>2. rounds[s] \in Nat
      BY DEF FlowInv, FlowShape
    <3>3. queued'[j] <= rounds'[s]
      BY <1>1, <2>7, <3>1, <3>2
    <3>4. Ahead(j, rounds[s])'
      BY <1>1, <3>1 DEF Beyond, Ahead
    <3>5. \A c \in Callbacks' : Unsent(c) /\ c.topic = j => c.snap <= rounds'[s]
      BY <1>1, <2>9, <3>1
    <3> QED BY <3>3, <3>4, <3>5 DEF Beyond
  <2> QED BY <2>6, <2>8, <2>11, <2>12, <2>13, <2>14 DEF FlowOrder, NewestLast
<1> QED BY <1>2, <1>3

(* enqueueInfo replaces what waits by the poll's own, newest snapshot.        *)
LEMMA EmitFlows ==
    ASSUME FlowInv, NEW s \in InfoSources, EmitInformation(s)
    PROVE  FlowShape' /\ OneInFlight' /\ FlowOrder'
<1> DEFINE k == Head(src[s].todo)
           r == [After(s, s \in {"metar", "adsb"}, FALSE) EXCEPT !.at = "wake"]
<1>1. /\ src[s].at = "emit" /\ queued' = [queued EXCEPT ![k] = rounds[s]] /\ Becomes(s, r)
      /\ UNCHANGED <<rounds, infoOff, aux, call, strays, beats, unacked, kept>>
  BY DEF EmitInformation, workerSide, brokerSide
<1>2. src[s].todo \in Seq(Owned(s)) /\ src[s].todo # <<>>
  BY <1>1 DEF FlowInv, FlowShape, TodoOK
<1>3. k \in Owned(s) /\ k \in InfoTopics
  BY <1>2, OwnedTopics
<1>4. TodoOK(s, r)
  BY <1>2, PollTodos
<1>5. \A t \in InfoSources : TodoOK(t, src'[t])
  <2>1. \A t \in InfoSources : src'[t] = IF t = s THEN r ELSE src[t]
    BY <1>1 DEF Becomes, FlowInv, WakeInv, InfoShape
  <2> QED BY <1>4, <2>1 DEF FlowInv, FlowShape
<1> HIDE DEF k, r
<1>6. /\ queued \in [InfoTopics -> Nat] /\ rounds \in [InfoSources -> Nat]
      /\ queued' \in [InfoTopics -> Nat]
      /\ \A j \in InfoTopics : queued'[j] = IF j = k THEN rounds[s] ELSE queued[j]
  BY <1>1, <1>3 DEF FlowInv, FlowShape
<1>7. FlowShape' /\ OneInFlight'
  BY <1>1, <1>5, <1>6 DEF FlowInv, FlowShape, TodoOK, OneInFlight
<1>8. /\ SentInOrder' /\ Callbacks' = Callbacks
      /\ \A j, v : (Ahead(j, v)' <=> Ahead(j, v)) /\ (Beyond(j, v)' <=> Beyond(j, v))
  BY <1>1 DEF FlowInv, FlowOrder, SentInOrder, Callbacks, Ahead, Beyond
<1>9. \A c \in Callbacks' : Unsent(c) => Ahead(c.topic, c.snap)'
  BY <1>8 DEF FlowInv, FlowOrder, NewestLast
<1>10. ASSUME NEW j \in InfoTopics, queued'[j] # 0 PROVE Beyond(j, queued[j])'
  <2>1. Beyond(j, queued'[j])
    BY <1>3, <1>6, <1>10 DEF FlowInv, FlowOrder, NewestLast
  <2> QED BY <1>1, <2>1 DEF Beyond, Ahead, Callbacks
<1>11. ASSUME NEW t \in InfoSources, NEW j \in Owned(t)
       PROVE  (queued[j] <= rounds[t] /\ Beyond(j, rounds[t]))'
  <2>1. j \in InfoTopics /\ queued[j] <= rounds[t] /\ Beyond(j, rounds[t])
    BY OwnedTopics DEF FlowInv, FlowOrder, NewestLast
  <2>2. j = k => t = s
    BY <1>3, OwnedTopics
  <2>3. queued'[j] <= rounds'[t]
    BY <1>1, <1>6, <2>1, <2>2
  <2>4. Beyond(j, rounds[t])'
    BY <1>1, <2>1 DEF Beyond, Ahead, Callbacks
  <2> QED BY <2>3, <2>4
<1> QED BY <1>7, <1>8, <1>9, <1>10, <1>11 DEF FlowOrder, NewestLast

LEMMA AppendedAlone ==
    ASSUME NEW S, NEW q \in Seq(S), NEW e \in S
    PROVE  /\ DOMAIN q = 1 .. Len(q) /\ DOMAIN Append(q, e) = 1 .. Len(q) + 1
           /\ Append(q, e)[Len(q) + 1] = e
           /\ \A i \in DOMAIN q : Append(q, e)[i] = q[i]
<1>1. Append(q, e) \in Seq(S) /\ Len(Append(q, e)) = Len(q) + 1
  OBVIOUS
<1>2. DOMAIN q = 1 .. Len(q) /\ DOMAIN Append(q, e) = 1 .. Len(q) + 1
  BY <1>1
<1> QED BY <1>2

(* The client takes a message that is the newest of its topic.                *)
LEMMA AppendFlows ==
    ASSUME FlowInv, FlowShape', NEW m \in Messages, unacked' = Append(unacked, m),
           UNCHANGED <<kept, queued, rounds>>,
           \A c \in Callbacks' : Unsent(c) => c \in Callbacks,
           m.topic \in InfoTopics =>
             /\ Ahead(m.topic, m.snap)
             /\ \A c \in Callbacks' : ~Unsent(c)
             /\ queued[m.topic] # 0 => m.snap <= queued[m.topic]
             /\ \A s \in InfoSources : m.topic \in Owned(s) => m.snap <= rounds[s]
    PROVE  FlowOrder'
<1>1. unacked \in Seq(Messages) /\ Len(unacked) \in Nat
  BY DEF FlowInv, FlowShape
<1>2. /\ DOMAIN unacked = 1 .. Len(unacked) /\ DOMAIN unacked' = 1 .. Len(unacked) + 1
      /\ unacked'[Len(unacked) + 1] = m
      /\ \A i \in DOMAIN unacked : unacked'[i] = unacked[i]
  BY <1>1, AppendedAlone
<1>3. \A j, v : Ahead(j, v)' <=> Ahead(j, v) /\ (j = m.topic => m.snap <= v)
  <2> TAKE j, v
  <2>1. ASSUME Ahead(j, v)' PROVE Ahead(j, v) /\ (j = m.topic => m.snap <= v)
    BY <1>1, <1>2, <2>1 DEF Ahead
  <2>2. ASSUME Ahead(j, v), j = m.topic => m.snap <= v PROVE Ahead(j, v)'
    <3>1. \A i \in DOMAIN unacked' : i \in DOMAIN unacked \/ i = Len(unacked) + 1
      BY <1>1, <1>2
    <3> QED BY <1>2, <2>2, <3>1 DEF Ahead
  <2> QED BY <2>1, <2>2
<1>4. SentInOrder'
  <2> SUFFICES ASSUME NEW i \in DOMAIN unacked', unacked'[i].topic # "status"
               PROVE  /\ kept[unacked'[i].topic] <= unacked'[i].snap
                      /\ \A j \in DOMAIN unacked' :
                            i < j /\ unacked'[j].topic = unacked'[i].topic
                              => unacked'[i].snap <= unacked'[j].snap
    BY DEF SentInOrder
  <2>1. CASE i \in DOMAIN unacked
    <3>1. /\ unacked'[i] = unacked[i] /\ kept[unacked[i].topic] <= unacked[i].snap
          /\ \A j \in DOMAIN unacked :
                i < j /\ unacked[j].topic = unacked[i].topic => unacked[i].snap <= unacked[j].snap
      BY <1>2, <2>1 DEF FlowInv, FlowOrder, SentInOrder
    <3>2. ASSUME m.topic = unacked[i].topic PROVE unacked[i].snap <= m.snap
      <4>1. m.topic \in InfoTopics
        BY <3>1, <3>2 DEF Messages
      <4> QED BY <2>1, <3>2, <4>1 DEF Ahead
    <3>3. \A j \in DOMAIN unacked' : j \in DOMAIN unacked \/ j = Len(unacked) + 1
      BY <1>1, <1>2
    <3> QED BY <1>2, <3>1, <3>2, <3>3
  <2>2. CASE i \notin DOMAIN unacked
    <3>1. i = Len(unacked) + 1 /\ unacked'[i] = m
      BY <1>1, <1>2, <2>2
    <3>2. m.topic \in InfoTopics
      BY <3>1 DEF Messages
    <3>3. \A j \in DOMAIN unacked' : ~(i < j)
      BY <1>1, <1>2, <3>1
    <3> QED BY <3>1, <3>2, <3>3 DEF Ahead
  <2> QED BY <2>1, <2>2
<1>5. ASSUME NEW c \in Callbacks', Unsent(c) PROVE Ahead(c.topic, c.snap)'
  <2>1. c \in Callbacks /\ m.topic \notin InfoTopics
    BY <1>5
  <2>2. c.topic \in InfoTopics
    BY <1>5, <2>1, SnapsAreNat DEF FlowInv, Unsent
  <2> QED BY <1>3, <1>5, <2>1, <2>2 DEF FlowInv, FlowOrder, NewestLast
<1>6. ASSUME NEW j \in InfoTopics, queued'[j] # 0 PROVE Beyond(j, queued[j])'
  <2>1. Beyond(j, queued[j]) /\ queued'[j] = queued[j]
    BY <1>6 DEF FlowInv, FlowOrder, NewestLast
  <2>2. j = m.topic => m.snap <= queued[j]
    BY <1>6, <2>1
  <2> DEFINE v == queued[j]
  <2>3. Ahead(j, v) /\ (j = m.topic => m.snap <= v) /\ v = queued'[j]
    BY <2>1, <2>2 DEF Beyond
  <2>4. \A c \in Callbacks' : Unsent(c) /\ c.topic = j => c.snap <= v
    BY <2>1 DEF Beyond
  <2>5. PICK w : w = queued[j]
    OBVIOUS
  <2>6. Ahead(j, w)'
    BY <1>3, <2>3, <2>5
  <2> QED BY <2>3, <2>4, <2>5, <2>6 DEF Beyond, Ahead
<1>7. ASSUME NEW s \in InfoSources, NEW j \in Owned(s)
      PROVE  (queued[j] <= rounds[s] /\ Beyond(j, rounds[s]))'
  <2>1. j \in InfoTopics /\ queued[j] <= rounds[s] /\ Beyond(j, rounds[s])
    BY OwnedTopics DEF FlowInv, FlowOrder, NewestLast
  <2>2. j = m.topic => m.snap <= rounds[s]
    BY <2>1
  <2>3. PICK w : w = rounds[s]
    OBVIOUS
  <2>4. Ahead(j, w)'
    BY <1>3, <2>1, <2>2, <2>3 DEF Beyond
  <2>5. \A c \in Callbacks' : Unsent(c) /\ c.topic = j => c.snap <= w
    BY <2>1, <2>3 DEF Beyond
  <2> QED BY <2>1, <2>3, <2>4, <2>5 DEF Beyond, Ahead
<1> QED BY <1>4, <1>5, <1>6, <1>7 DEF FlowOrder, NewestLast

(* A callback connects, hands its message to the client or ends.              *)
LEMMA CallbackFlows ==
    ASSUME FlowInv, FlowShape', NEW c \in Callbacks, c \in InfoCallbacks \cup StatusCallbacks,
           NEW d \in NextOf(c), CallbackStep(c, d), UNCHANGED <<queued, rounds>>,
           \A e \in Callbacks' : e = d \/ (e \in Callbacks /\ e # c) \/ ~Unsent(e),
           c.kind = "info" => \A e \in Callbacks \ {c} : e.kind # "info"
    PROVE  FlowOrder'
<1>1. /\ d.kind = c.kind /\ d.topic = c.topic /\ d.snap = c.snap
      /\ \E a \in {"publish", "wait", "done"} : d = [c EXCEPT !.at = a] /\ d.at = a
  <2>1. PICK a \in {"publish", "wait", "done"} : d = [c EXCEPT !.at = a]
    BY DEF NextOf
  <2>2. a \in Stages
    BY DEF Stages
  <2> QED BY <2>1, <2>2, CallbackFields
<1>2. CASE UNCHANGED unacked
  <2>1. Unsent(d) => Unsent(c)
    <3>1. CASE c.at \in {"connect", "publish"}
      BY <1>1, <3>1 DEF Unsent
    <3>2. CASE c.at \notin {"connect", "publish"}
      <4>1. d = [c EXCEPT !.at = "done"]
        BY <3>2 DEF CallbackStep, EnsureConnected, PublishSnapshot, AwaitToken
      <4>2. d.at = "done"
        BY <4>1, CallbackFields DEF Stages
      <4> QED BY <4>2 DEF Unsent
    <3> QED BY <3>1, <3>2
  <2>2. UNCHANGED kept
    BY DEF CallbackStep, EnsureConnected, PublishSnapshot, AwaitToken, brokerSide
  <2>3. \A e \in Callbacks' : Unsent(e) =>
          \E f \in Callbacks : Unsent(f) /\ f.topic = e.topic /\ f.snap = e.snap
    BY <1>1, <2>1
  <2>4. /\ \A k \in InfoTopics : queued'[k] \in {0, queued[k]}
        /\ \A s \in InfoSources : rounds[s] <= rounds'[s]
    BY DEF FlowInv, FlowShape
  <2> QED BY <1>2, <2>2, <2>3, <2>4, NothingSent
<1>3. CASE ~(UNCHANGED unacked)
  <2> DEFINE m == Message(c)
  <2>1. c.at = "publish" /\ unacked' = Append(unacked, m) /\ d.at = "wait" /\ UNCHANGED kept
    <3>1. PublishSnapshot(c, d)
      BY <1>3 DEF CallbackStep, EnsureConnected, AwaitToken, brokerSide
    <3>2. /\ c.at = "publish" /\ unacked' = Append(unacked, m) /\ d = [c EXCEPT !.at = "wait"]
          /\ UNCHANGED kept
      BY <1>3, <3>1 DEF PublishSnapshot
    <3> QED BY <3>2, CallbackFields DEF Stages
  <2>2. m \in Messages /\ m.topic = c.topic /\ m.snap = c.snap
    <3>1. c.snap \in Nat /\ c.topic \in InfoTopics \cup {"status"}
      BY DEF InfoCallbacks, StatusCallbacks
    <3> QED BY <3>1 DEF Messages, Message
  <2>3. ~Unsent(d)
    BY <2>1 DEF Unsent
  <2>4. \A e \in Callbacks' : Unsent(e) => e \in Callbacks
    BY <2>3
  <2>5. ASSUME m.topic \in InfoTopics
        PROVE  /\ Ahead(m.topic, m.snap)
               /\ \A e \in Callbacks' : ~Unsent(e)
               /\ queued[m.topic] # 0 => m.snap <= queued[m.topic]
               /\ \A s \in InfoSources : m.topic \in Owned(s) => m.snap <= rounds[s]
    <3>1. c.kind = "info"
      BY <2>2, <2>5, InfoAssumption DEF InfoCallbacks, StatusCallbacks
    <3>2. Unsent(c)
      BY <2>1, <3>1 DEF Unsent
    <3>3. \A e \in Callbacks' : ~Unsent(e)
      BY <2>3, <3>1 DEF Unsent
    <3>4. Ahead(c.topic, c.snap)
      BY <3>2 DEF FlowInv, FlowOrder, NewestLast
    <3>5. queued[c.topic] # 0 => c.snap <= queued[c.topic]
      BY <2>2, <2>5, <3>2 DEF FlowInv, FlowOrder, NewestLast, Beyond
    <3>6. \A s \in InfoSources : c.topic \in Owned(s) => c.snap <= rounds[s]
      BY <3>2 DEF FlowInv, FlowOrder, NewestLast, Beyond
    <3> QED BY <2>2, <3>3, <3>4, <3>5, <3>6
  <2> HIDE DEF m
  <2> QED BY <2>1, <2>2, <2>4, <2>5, AppendFlows
<1> QED BY <1>2, <1>3

LEMMA CallFlows ==
    ASSUME FlowInv, CallProceeds \/ StrayProceeds
    PROVE  FlowShape' /\ OneInFlight' /\ FlowOrder'
<1>1. UNCHANGED <<src, rounds, queued, infoOff, aux, beats>>
  BY DEF CallProceeds, StrayProceeds, sourceSide, queueSide
<1>2. PICK c, d : /\ c \in Callbacks /\ d \in NextOf(c) /\ CallbackStep(c, d)
                  /\ \/ c = call /\ call' = d /\ strays' = strays /\ aux = "call"
                     \/ /\ c \in strays /\ call' = call
                        /\ strays' = (strays \ {c}) \cup (IF d.at = "done" THEN {} ELSE {d})
  BY DEF CallProceeds, StrayProceeds, Callbacks
<1>3. c \in InfoCallbacks \cup StatusCallbacks
  BY <1>2 DEF FlowInv, FlowShape
<1>4. /\ d \in InfoCallbacks \cup StatusCallbacks /\ d # NoCallback
      /\ d.kind = c.kind /\ d.topic = c.topic /\ d.snap = c.snap
  <2>1. PICK a \in {"publish", "wait", "done"} : d = [c EXCEPT !.at = a]
    BY <1>2 DEF NextOf
  <2>2. a \in Stages
    BY DEF Stages
  <2> QED BY <1>3, <2>1, <2>2, CallbackFields
<1>5. kept' \in [InfoTopics -> Nat] /\ unacked' \in Seq(Messages)
  <2>1. kept' = kept
    BY <1>2 DEF CallbackStep, EnsureConnected, PublishSnapshot, AwaitToken, brokerSide
  <2>2. Message(c) \in Messages
    <3>1. c.snap \in Nat /\ c.topic \in InfoTopics \cup {"status"}
      BY <1>3 DEF InfoCallbacks, StatusCallbacks
    <3> QED BY <3>1 DEF Messages, Message
  <2>3. unacked' \in {unacked, Append(unacked, Message(c))}
    BY <1>2 DEF CallbackStep, EnsureConnected, PublishSnapshot, AwaitToken, brokerSide
  <2>4. kept \in [InfoTopics -> Nat] /\ unacked \in Seq(Messages)
    BY DEF FlowInv, FlowShape
  <2>5. Append(unacked, Message(c)) \in Seq(Messages)
    BY <2>2, <2>4
  <2> QED BY <2>1, <2>3, <2>4, <2>5
<1>6. FlowShape'
  <2>1. /\ call' \in InfoCallbacks \cup StatusCallbacks \cup {NoCallback}
        /\ aux' = "call" => call' # NoCallback
        /\ strays' \subseteq InfoCallbacks \cup StatusCallbacks
    BY <1>1, <1>2, <1>3, <1>4 DEF FlowInv, FlowShape
  <2> QED BY <1>1, <1>5, <2>1 DEF FlowInv, FlowShape, TodoOK
<1>7. c.kind = "info" => \A e \in Callbacks \ {c} : e.kind # "info"
  BY <1>2 DEF FlowInv, OneInFlight, Callbacks
<1>8. OneInFlight'
  <2>1. CASE c = call /\ call' = d /\ strays' = strays
    BY <1>1, <1>4, <2>1 DEF FlowInv, OneInFlight
  <2>2. CASE c \in strays /\ call' = call /\ strays' \subseteq (strays \ {c}) \cup {d}
    <3>1. ASSUME NEW e \in strays', e.kind = "info"
          PROVE  infoOff /\ call.kind # "info" /\ \A f \in strays' : f.kind = "info" => f = e
      <4>1. CASE e = d
        <5>1. \A f \in strays \ {c} : f.kind # "info"
          BY <1>4, <1>7, <3>1, <4>1 DEF Callbacks
        <5> QED BY <1>4, <2>2, <3>1, <4>1, <5>1 DEF FlowInv, OneInFlight
      <4>2. CASE e # d
        <5>1. e \in strays \ {c} /\ c.kind # "info"
          BY <2>2, <3>1, <4>2 DEF FlowInv, OneInFlight
        <5> QED BY <1>4, <2>2, <3>1, <5>1 DEF FlowInv, OneInFlight
      <4> QED BY <4>1, <4>2
    <3> QED BY <1>1, <2>2, <3>1 DEF OneInFlight
  <2>3. strays' = (strays \ {c}) \cup (IF d.at = "done" THEN {} ELSE {d})
          => strays' \subseteq (strays \ {c}) \cup {d}
    OBVIOUS
  <2> QED BY <1>2, <2>1, <2>2, <2>3
<1>9. \A e \in Callbacks' : e = d \/ (e \in Callbacks /\ e # c) \/ ~Unsent(e)
  <2>1. CASE c \in strays /\ call' = call /\ strays' \subseteq (strays \ {c}) \cup {d}
    <3>1. call = c => ~Unsent(call)
      BY <2>1 DEF FlowInv, OneInFlight, Unsent
    <3> QED BY <2>1, <3>1 DEF Callbacks
  <2>2. CASE c = call /\ call' = d /\ strays' = strays
    <3>1. c \in strays => ~Unsent(c)
      BY <2>2 DEF FlowInv, OneInFlight, Unsent
    <3> QED BY <2>2, <3>1 DEF Callbacks
  <2>3. strays' = (strays \ {c}) \cup (IF d.at = "done" THEN {} ELSE {d})
          => strays' \subseteq (strays \ {c}) \cup {d}
    OBVIOUS
  <2> QED BY <1>2, <2>1, <2>2, <2>3
<1>10. FlowOrder'
  BY <1>1, <1>2, <1>3, <1>6, <1>7, <1>9, CallbackFlows
<1> QED BY <1>6, <1>8, <1>10

(* A step of the broker that only moves what was sent to where it is kept.    *)
LEMMA BrokerFlows ==
    ASSUME FlowInv, UNCHANGED <<src, rounds, queued, infoOff, aux, call, strays, beats>>,
           kept' \in [InfoTopics -> Nat], unacked' \in Seq(Messages), SentInOrder',
           \A k \in InfoTopics : \A v : Ahead(k, v) => Ahead(k, v)'
    PROVE  FlowShape' /\ OneInFlight' /\ FlowOrder'
<1>1. FlowShape' /\ OneInFlight' /\ Callbacks' = Callbacks
  BY DEF FlowInv, FlowShape, TodoOK, OneInFlight, Callbacks
<1>2. \A k \in InfoTopics : \A v : Beyond(k, v) => Beyond(k, v)'
  BY <1>1 DEF Beyond
<1>3. ASSUME NEW c \in Callbacks', Unsent(c) PROVE Ahead(c.topic, c.snap)'
  <2>1. c.topic \in InfoTopics
    BY <1>1, <1>3, SnapsAreNat DEF FlowInv, Unsent
  <2> QED BY <1>1, <1>3, <2>1 DEF FlowInv, FlowOrder, NewestLast
<1>4. ASSUME NEW k \in InfoTopics, queued'[k] # 0 PROVE Beyond(k, queued[k])'
  <2>1. PICK v : v = queued[k]
    OBVIOUS
  <2>2. Beyond(k, v)'
    BY <1>2, <1>4, <2>1 DEF FlowInv, FlowOrder, NewestLast
  <2> QED BY <2>1, <2>2 DEF Beyond, Ahead
<1>5. ASSUME NEW s \in InfoSources, NEW k \in Owned(s)
      PROVE  (queued[k] <= rounds[s] /\ Beyond(k, rounds[s]))'
  <2>1. k \in InfoTopics /\ queued[k] <= rounds[s] /\ Beyond(k, rounds[s])
    BY OwnedTopics DEF FlowInv, FlowOrder, NewestLast
  <2>2. PICK v : v = rounds[s]
    OBVIOUS
  <2>3. Beyond(k, v)'
    BY <1>2, <2>1, <2>2
  <2> QED BY <2>1, <2>2, <2>3 DEF Beyond, Ahead
<1> QED BY <1>1, <1>3, <1>4, <1>5 DEF FlowOrder, NewestLast

(* The broker keeps the oldest message the client has sent: the rest of its   *)
(* topic is newer.                                                            *)
LEMMA AckFlows ==
    ASSUME FlowInv, BrokerAcks \/ LinkBreaks
    PROVE  /\ FlowShape' /\ OneInFlight' /\ FlowOrder'
           /\ \A k \in InfoTopics : kept'[k] >= kept[k]
<1>1. UNCHANGED <<src, rounds, queued, infoOff, aux, call, strays, beats>>
  BY DEF BrokerAcks, LinkBreaks, sourceSide, queueSide, workerSide
<1>2. unacked \in Seq(Messages) /\ kept \in [InfoTopics -> Nat]
  BY DEF FlowInv, FlowShape
<1>3. CASE UNCHANGED <<kept, unacked>>
  <2>1. SentInOrder' /\ \A k, v : Ahead(k, v) => Ahead(k, v)'
    BY <1>3 DEF FlowInv, FlowOrder, SentInOrder, Ahead
  <2>2. FlowShape' /\ OneInFlight' /\ FlowOrder'
    BY <1>1, <1>2, <1>3, <2>1, BrokerFlows
  <2>3. \A k \in InfoTopics : kept'[k] >= kept[k]
    BY <1>2, <1>3
  <2> QED BY <2>2, <2>3
<1>4. CASE ~(UNCHANGED <<kept, unacked>>)
  <2> DEFINE m == unacked[1]
  <2>1. unacked # <<>> /\ Head(unacked) = m
    BY <1>2, <1>4 DEF BrokerAcks, LinkBreaks
  <2>2. /\ (kept' = kept /\ m.topic = "status") \/ kept' = [kept EXCEPT ![m.topic] = m.snap]
        /\ unacked' = unacked \/ unacked' = Tail(unacked)
        /\ unacked' = unacked => m.topic \in InfoTopics
    BY <1>4, <2>1 DEF BrokerAcks, LinkBreaks, Retains
  <2>3. 1 \in DOMAIN unacked /\ m \in Messages /\ m.snap \in Nat
        /\ DOMAIN unacked = 1 .. Len(unacked) /\ Len(unacked) \in Nat \ {0}
    <3>1. DOMAIN unacked = 1 .. Len(unacked) /\ Len(unacked) \in Nat
      BY <1>2
    <3>2. Len(unacked) # 0
      BY <1>2, <2>1
    <3>3. 1 \in DOMAIN unacked
      BY <3>1, <3>2
    <3> QED BY <3>1, <3>2, <3>3, SnapsAreNat DEF FlowInv
  <2>4. \A k \in InfoTopics : kept'[k] = kept[k] \/ (m.topic = k /\ kept'[k] = m.snap)
    BY <1>2, <2>2
  <2>5. kept' \in [InfoTopics -> Nat]
    BY <1>2, <2>2, <2>3
  <2>6. PICK n \in {0, 1} : /\ unacked' \in Seq(Messages) /\ Len(unacked') = Len(unacked) - n
                            /\ DOMAIN unacked' = 1 .. Len(unacked) - n
                            /\ \A i \in DOMAIN unacked' : unacked'[i] = unacked[i + n]
    <3>1. CASE unacked' = unacked
      <4>1. \A i \in DOMAIN unacked : i + 0 = i
        BY <2>3
      <4>2. Len(unacked) - 0 = Len(unacked)
        BY <2>3
      <4>3. /\ unacked' \in Seq(Messages) /\ Len(unacked') = Len(unacked) - 0
            /\ DOMAIN unacked' = 1 .. Len(unacked) - 0
            /\ \A i \in DOMAIN unacked' : unacked'[i] = unacked[i + 0]
        BY <1>2, <2>3, <3>1, <4>1, <4>2
      <4> QED BY <4>3
    <3>2. CASE unacked' = Tail(unacked)
      <4>1. /\ Tail(unacked) \in Seq(Messages) /\ Len(Tail(unacked)) = Len(unacked) - 1
            /\ DOMAIN Tail(unacked) = 1 .. Len(unacked) - 1
            /\ \A i \in 1 .. Len(unacked) - 1 : Tail(unacked)[i] = unacked[i + 1]
        BY <1>2, <2>1, <2>3
      <4> QED BY <3>2, <4>1
    <3> QED BY <2>2, <3>1, <3>2
  <2>7. /\ \A i \in DOMAIN unacked' : i + n \in DOMAIN unacked /\ unacked'[i] = unacked[i + n]
        /\ \A i, j \in DOMAIN unacked' : i < j => i + n < j + n
    BY <2>3, <2>6
  <2>8. /\ m.topic \in InfoTopics => kept[m.topic] <= m.snap
        /\ \A i \in DOMAIN unacked :
              unacked[i].topic = m.topic /\ m.topic \in InfoTopics => m.snap <= unacked[i].snap
    <3>1. m.topic \in InfoTopics => m.topic # "status"
      BY InfoAssumption
    <3>2. m.topic \in InfoTopics => kept[m.topic] <= m.snap
      BY <2>3, <3>1 DEF FlowInv, FlowOrder, SentInOrder
    <3>3. ASSUME NEW i \in DOMAIN unacked, unacked[i].topic = m.topic, m.topic \in InfoTopics
          PROVE  m.snap <= unacked[i].snap
      <4>1. CASE i = 1
        BY <2>3, <4>1
      <4>2. CASE i # 1
        <5>1. 1 < i
          BY <2>3, <4>2
        <5> QED BY <2>3, <3>1, <3>3, <5>1 DEF FlowInv, FlowOrder, SentInOrder
      <4> QED BY <4>1, <4>2
    <3> QED BY <3>2, <3>3
  <2>9. ASSUME NEW k \in InfoTopics, NEW v, Ahead(k, v) PROVE Ahead(k, v)'
    <3>1. kept[k] <= v /\ (m.topic = k => m.snap <= v)
      BY <2>3, <2>9 DEF Ahead
    <3>2. kept'[k] <= v
      BY <2>4, <3>1
    <3>3. \A i \in DOMAIN unacked' : unacked'[i].topic = k => unacked'[i].snap <= v
      BY <2>7, <2>9 DEF Ahead
    <3> QED BY <3>2, <3>3 DEF Ahead
  <2>10. SentInOrder'
    <3> SUFFICES ASSUME NEW i \in DOMAIN unacked', unacked'[i].topic # "status"
                 PROVE  /\ kept'[unacked'[i].topic] <= unacked'[i].snap
                        /\ \A j \in DOMAIN unacked' :
                              i < j /\ unacked'[j].topic = unacked'[i].topic
                                => unacked'[i].snap <= unacked'[j].snap
      BY DEF SentInOrder
    <3>1. i + n \in DOMAIN unacked /\ unacked'[i] = unacked[i + n]
      BY <2>7
    <3>2. /\ kept[unacked[i + n].topic] <= unacked[i + n].snap
          /\ \A j \in DOMAIN unacked :
                i + n < j /\ unacked[j].topic = unacked[i + n].topic
                  => unacked[i + n].snap <= unacked[j].snap
      BY <3>1 DEF FlowInv, FlowOrder, SentInOrder
    <3>3. unacked[i + n].topic \in InfoTopics
      <4>1. unacked[i + n] \in Messages
        BY <3>1, SnapsAreNat DEF FlowInv
      <4> QED BY <3>1, <4>1 DEF Messages
    <3>4. kept'[unacked'[i].topic] <= unacked'[i].snap
      BY <2>4, <2>8, <3>1, <3>2, <3>3
    <3>5. \A j \in DOMAIN unacked' :
            i < j /\ unacked'[j].topic = unacked'[i].topic => unacked'[i].snap <= unacked'[j].snap
      BY <2>7, <3>1, <3>2
    <3> QED BY <3>4, <3>5
  <2>11. \A k \in InfoTopics : kept'[k] >= kept[k]
    BY <1>2, <2>3, <2>4, <2>8
  <2>12. FlowShape' /\ OneInFlight' /\ FlowOrder'
    BY <1>1, <2>5, <2>6, <2>9, <2>10, BrokerFlows
  <2> QED BY <2>11, <2>12
<1> QED BY <1>3, <1>4

(* The end of the worker: the offline status, and the connection closed.      *)
LEMMA CloseFlows ==
    ASSUME FlowInv, CloseOutput \/ Disconnect \/ LinkReturns \/ Shutdown \/ UNCHANGED infoVars
    PROVE  FlowShape' /\ OneInFlight' /\ FlowOrder' /\ UNCHANGED kept
<1>1. UNCHANGED <<src, rounds, queued, infoOff, call, strays, beats, kept>>
  BY DEF CloseOutput, Disconnect, LinkReturns, Shutdown, infoVars, sourceSide, queueSide, workerSide, brokerSide
<1>2. /\ aux' = aux \/ aux' \in {"closing", "closed"}
      /\ unacked' \in {unacked, <<>>, Append(unacked, Offline)}
  BY DEF CloseOutput, Disconnect, LinkReturns, Shutdown, infoVars, workerSide, brokerSide
<1>3. Offline \in Messages /\ Offline.topic \notin InfoTopics
  BY InfoAssumption DEF Offline, Messages
<1>4. unacked \in Seq(Messages)
  BY DEF FlowInv, FlowShape
<1>5. unacked' \in Seq(Messages)
  <2>1. Append(unacked, Offline) \in Seq(Messages) /\ <<>> \in Seq(Messages)
    BY <1>3, <1>4
  <2> QED BY <1>2, <1>4, <2>1
<1>6. FlowShape'
  BY <1>1, <1>2, <1>5 DEF FlowInv, FlowShape, TodoOK
<1>7. OneInFlight' /\ Callbacks' = Callbacks
  BY <1>1 DEF FlowInv, OneInFlight, Callbacks
<1>8. CASE unacked' = unacked
  <2>1. /\ \A k \in InfoTopics : queued'[k] \in {0, queued[k]}
        /\ \A s \in InfoSources : rounds[s] <= rounds'[s]
    BY <1>1 DEF FlowInv, FlowShape
  <2> QED BY <1>1, <1>6, <1>7, <1>8, <2>1, NothingSent
<1>9. CASE unacked' = Append(unacked, Offline)
  <2>1. FlowOrder'
    BY <1>1, <1>3, <1>6, <1>7, <1>9, AppendFlows
  <2> QED BY <1>1, <1>6, <1>7, <2>1
<1>10. CASE unacked' = <<>>
  <2>1. SentInOrder' /\ \A k, v : Ahead(k, v) => Ahead(k, v)'
    BY <1>1, <1>10 DEF SentInOrder, Ahead
  <2>2. \A k, v : Beyond(k, v) => Beyond(k, v)'
    BY <1>7, <2>1 DEF Beyond
  <2>3. \A c \in Callbacks' : Unsent(c) => Ahead(c.topic, c.snap)'
    BY <1>7, <2>1 DEF FlowInv, FlowOrder, NewestLast
  <2>4. ASSUME NEW k \in InfoTopics, queued'[k] # 0 PROVE Beyond(k, queued[k])'
    <3>1. PICK v : v = queued[k]
      OBVIOUS
    <3>2. Beyond(k, v)'
      BY <1>1, <2>2, <2>4, <3>1 DEF FlowInv, FlowOrder, NewestLast
    <3> QED BY <1>1, <3>1, <3>2 DEF Beyond, Ahead
  <2>5. ASSUME NEW s \in InfoSources, NEW k \in Owned(s)
        PROVE  (queued[k] <= rounds[s] /\ Beyond(k, rounds[s]))'
    <3>1. PICK v : v = rounds[s]
      OBVIOUS
    <3>2. Beyond(k, v)' /\ queued[k] <= v
      BY <2>2, <3>1 DEF FlowInv, FlowOrder, NewestLast
    <3> QED BY <1>1, <3>1, <3>2 DEF Beyond, Ahead
  <2> QED BY <1>1, <1>6, <1>7, <2>1, <2>3, <2>4, <2>5 DEF FlowOrder, NewestLast
<1> QED BY <1>2, <1>8, <1>9, <1>10

LEMMA FlowInit == InfoInit => FlowInv
<1> SUFFICES ASSUME InfoInit PROVE FlowInv
  OBVIOUS
<1>1. FlowShape
  <2>1. \A s \in InfoSources : TodoOK(s, src[s])
    <3> SUFFICES ASSUME NEW s \in InfoSources PROVE TodoOK(s, src[s])
      OBVIOUS
    <3>1. src[s] = IdlePoll
      BY DEF InfoInit
    <3>2. IdlePoll.todo = <<>> /\ IdlePoll.at = "idle"
      BY DEF IdlePoll
    <3>3. <<>> \in Seq(Owned(s))
      OBVIOUS
    <3> QED BY <3>1, <3>2, <3>3 DEF TodoOK
  <2> QED BY <2>1 DEF InfoInit, FlowShape
<1>2. Callbacks = {NoCallback} /\ OneInFlight /\ unacked = <<>>
  BY DEF InfoInit, Callbacks, OneInFlight
<1>3. \A k \in InfoTopics : \A v \in Nat : Beyond(k, v)
  BY <1>2, NoCallbackIsOver DEF InfoInit, Beyond, Ahead
<1>4. NewestLast
  <2>1. \A s \in InfoSources : \A k \in Owned(s) : k \in InfoTopics
    BY OwnedTopics
  <2> QED BY <1>2, <1>3, <2>1, NoCallbackIsOver DEF InfoInit, NewestLast
<1>5. SentInOrder
  BY <1>2 DEF SentInOrder
<1> QED BY <1>1, <1>2, <1>4, <1>5, WakeInit DEF FlowInv, FlowOrder

LEMMA FlowStep ==
    ASSUME FlowInv, [InfoNext]_infoVars
    PROVE  FlowInv' /\ \A k \in InfoTopics : kept'[k] >= kept[k]
<1>1. WakeInv'
  BY WakeStep DEF FlowInv
<1>2. kept' = kept => \A k \in InfoTopics : kept'[k] >= kept[k]
  BY DEF FlowInv, FlowShape
<1>3. CASE ProviderNext \/ \E s \in InfoSources : SourceNext(s)
  <2>1. kept' = kept
    BY <1>3 DEF ProviderNext, FetchReports, FetchTargets, BatchAnswer, RefreshStations, FetchLocation,
                FetchAirQuality, NormalizeReport, BuildSnapshot, SkipStation, AqSnapshot, SourceNext,
                InfoPollBegins, PollCancelled, EmitInformation, EmitRefused, WakeWorker, InfoPollEnds,
                brokerSide
  <2>2. FlowShape' /\ OneInFlight' /\ FlowOrder'
    BY <1>3, PollFlowStep, EmitFlows DEF SourceNext
  <2> QED BY <1>1, <1>2, <2>1, <2>2 DEF FlowInv
<1>4. CASE \/ TakeInfo \/ HeartbeatDue \/ \E stalled \in BOOLEAN : HealthCollected(stalled)
           \/ CallExpires \/ CallReturns \/ CallAbandoned \/ Rearm
  <2>1. kept' = kept
    BY <1>4 DEF TakeInfo, HeartbeatDue, HealthCollected, CallExpires, CallReturns, CallAbandoned,
                Abandoned, Rearm, brokerSide
  <2>2. FlowShape' /\ OneInFlight' /\ FlowOrder'
    BY <1>4, TakeFlows, WorkerFlows
  <2> QED BY <1>1, <1>2, <2>1, <2>2 DEF FlowInv
<1>5. CASE CallProceeds \/ StrayProceeds
  <2>1. kept' = kept
    BY <1>5 DEF CallProceeds, StrayProceeds, CallbackStep, EnsureConnected, PublishSnapshot, AwaitToken,
                brokerSide
  <2> QED BY <1>1, <1>2, <1>5, <2>1, CallFlows DEF FlowInv
<1>6. CASE BrokerAcks \/ LinkBreaks
  BY <1>1, <1>6, AckFlows DEF FlowInv
<1>7. CASE CloseOutput \/ Disconnect \/ LinkReturns \/ Shutdown \/ UNCHANGED infoVars
  BY <1>1, <1>2, <1>7, CloseFlows DEF FlowInv
<1> QED BY <1>3, <1>4, <1>5, <1>6, <1>7 DEF InfoNext

(* A retained snapshot is only ever replaced by one no older, although an      *)
(* abandoned callback may still publish (output_worker.go:254): the switched-  *)
(* off capability lets nothing newer out before it.                           *)
THEOREM SnapshotsOnlyAdvance == InfoSpec => NeverBackInTime
<1>1. FlowInv /\ [InfoNext]_infoVars
        => FlowInv' /\ [\A k \in InfoTopics : kept'[k] >= kept[k]]_infoVars
  BY FlowStep
<1> QED BY <1>1, FlowInit, PTL DEF InfoSpec, NeverBackInTime

-----------------------------------------------------------------------------
(***************************************************************************)
(* The polling hazard sources.                                             *)
(***************************************************************************)
Asked == Feeds \cup UNION {FeedsOf(k) : k \in Kinds}
Lists == SUBSET (Warnings \X (Versions \cup {0}))

SnapshotPolls ==
    [step : {"idle", "fetch", "emit", "cancel", "settled"}, left : SUBSET Asked,
     at : Nat, got : Lists, doubtful : SUBSET Warnings, unread : SUBSET Warnings,
     complete : BOOLEAN, keys : SUBSET Warnings, todo : Lists, gone : SUBSET Warnings,
     page : Nat, served : Lists, blank : SUBSET Warnings, passed : SUBSET Warnings]

PollShape ==
    /\ kind \in Kinds
    /\ poll \in SnapshotPolls
    /\ day \in Nat /\ provider \in [Warnings -> Versions \cup {0}]

(* Why an item that was listed may be missing from a complete snapshot.      *)
Missed == poll.unread \cup poll.blank \cup poll.passed

(* Every item a response listed is in the combined snapshot, or missing for  *)
(* one of the known causes, or the snapshot is not complete, or GIOS has     *)
(* pages left to read.                                                       *)
NothingLost ==
    poll.step \in {"fetch", "emit", "cancel"} /\ poll.complete =>
        \/ poll.step = "fetch" /\ kind = "gios" /\ poll.left # {}
        \/ \A item \in poll.served : item \in poll.got \/ item[1] \in Missed

(* An unreadable warning leaves a snapshot complete only where it counts as  *)
(* out of scope, or where nothing is concluded from absence; only RSO and    *)
(* GIOS take an answer without its list; only GIOS turns pages.              *)
MissedByKind ==
    poll.step \in {"fetch", "emit", "cancel"} /\ poll.complete =>
        /\ poll.unread # {} => kind \in {"gddkia", "gios", "giosaq"}
        /\ poll.blank # {} => kind \in {"rso", "gios"}
        /\ poll.passed # {} => kind = "gios"

(* Past the comparison of identities, a complete snapshot keeps every item in *)
(* scope under the keys the reconciliation spares.                           *)
KeysKept ==
    poll.step \in {"emit", "cancel"} /\ poll.complete =>
        \A item \in InScope(poll.got) : item[1] \in poll.keys

GoneIsAbsent ==
    poll.step = "cancel" => /\ poll.complete /\ kind # "giosaq"
                            /\ poll.gone \cap poll.keys = {}

PollInv == PollShape /\ NothingLost /\ MissedByKind /\ KeysKept /\ GoneIsAbsent

(* A step that changes only what a poll still has to emit or to cancel.        *)
LEMMA PollRestStep ==
    ASSUME PollInv, UNCHANGED kind, day' \in Nat,
           provider' \in [Warnings -> Versions \cup {0}],
           \/ poll' = poll
           \/ \E items \in SUBSET poll.todo : poll' = [poll EXCEPT !.todo = items]
           \/ \E warnings \in SUBSET poll.gone : poll' = [poll EXCEPT !.gone = warnings]
    PROVE  PollInv'
<1> USE DEF PollInv, PollShape
<1>1. /\ poll'.step = poll.step /\ poll'.complete = poll.complete
      /\ poll'.got = poll.got /\ poll'.served = poll.served /\ poll'.left = poll.left
      /\ poll'.keys = poll.keys /\ poll'.gone \subseteq poll.gone
      /\ poll'.unread = poll.unread /\ poll'.blank = poll.blank /\ poll'.passed = poll.passed
  BY DEF SnapshotPolls
<1>2. PollShape'
  <2>1. ASSUME NEW items \in SUBSET poll.todo, poll' = [poll EXCEPT !.todo = items]
        PROVE  PollShape'
    BY <2>1 DEF Lists, SnapshotPolls
  <2>2. ASSUME NEW warnings \in SUBSET poll.gone, poll' = [poll EXCEPT !.gone = warnings]
        PROVE  PollShape'
    BY <2>2 DEF SnapshotPolls
  <2>3. CASE poll' = poll
    BY <2>3
  <2> QED BY <2>1, <2>2, <2>3
<1>3. NothingLost' /\ MissedByKind' /\ KeysKept'
  BY <1>1 DEF NothingLost, MissedByKind, KeysKept, InScope, Missed
<1>4. GoneIsAbsent'
  BY <1>1 DEF GoneIsAbsent
<1> QED BY <1>2, <1>3, <1>4

(* A page that is not full is the last one.                                    *)
LEMMA LastPage ==
    ASSUME PollInv, NEW f \in Feeds
    PROVE  /\ kind # "gios" => \A w \in Register(f) : Page(f, w) = poll.page
           /\ ~ FullPage(f) => \A w \in Register(f) : Page(f, w) <= poll.page
           /\ \A w \in Register(f) : Page(f, w) \in Nat
           /\ Register(f) \in SUBSET Warnings
           /\ FullPage(f) => kind = "gios"
<1>1. Register(f) \in SUBSET Warnings
  BY DEF Register
<1>2. poll.page \in Nat
  BY DEF PollInv, PollShape, SnapshotPolls
<1>3. CASE kind # "gios"
  BY <1>1, <1>2, <1>3 DEF Page, FullPage
<1>4. CASE kind = "gios"
  <2>1. ASSUME NEW w \in Register(f)
        PROVE  PageIn[Register(f)][w] \in Nat
    BY <1>1, <2>1, PagesAreFilled
  <2>2. ASSUME NEW w \in Register(f), poll.page < PageIn[Register(f)][w] PROVE FullPage(f)
    <3>1. poll.page \in 0 .. PageIn[Register(f)][w] - 1
      BY <1>2, <2>1, <2>2
    <3>2. Cardinality({x \in Register(f) : PageIn[Register(f)][x] = poll.page}) >= PageSize
      BY <1>1, <2>2, <3>1, PagesAreFilled
    <3> QED BY <1>4, <3>2 DEF FullPage
  <2> QED BY <1>1, <1>2, <1>4, <2>1, <2>2 DEF Page
<1> QED BY <1>3, <1>4

Answers == [got : Lists, doubtful : SUBSET Warnings, unread : SUBSET Warnings,
            blank : SUBSET Warnings, complete : BOOLEAN, more : BOOLEAN]

(* A response lists what its page announces, less what it says it could not    *)
(* read; only where that counts as out of scope it stays complete.             *)
LEMMA ResponseShape ==
    ASSUME PollInv, NEW f \in Feeds, NEW r \in Responses(f)
    PROVE  /\ r \in Answers
           /\ r.complete => \A item \in OnPage(f) :
                               item \in r.got \/ item[1] \in r.unread \/ item[1] \in r.blank
           /\ r.complete /\ ~ r.more => \A item \in Listed(f) :
                               Page(f, item[1]) <= poll.page \/ item[1] \in r.blank
           /\ r.complete /\ r.unread # {} => kind \in {"gddkia", "gios", "giosaq"}
           /\ r.complete /\ r.blank # {} => kind \in {"rso", "gios"}
           /\ r.more => kind = "gios"
           /\ r.got \subseteq OnPage(f)
<1>1. /\ Listed(f) \in Lists /\ OnPage(f) \subseteq Listed(f) /\ Entry(f) \subseteq Warnings
      /\ \A item \in Listed(f) : item[1] \in Register(f)
      /\ \A w \in Register(f) : Page(f, w) \in Nat
      /\ Register(f) \in SUBSET Warnings /\ poll.page \in Nat
  <2>1. ASSUME NEW w \in Warnings PROVE <<w, provider[w]>> \in Warnings \X (Versions \cup {0})
    BY DEF PollInv, PollShape
  <2>2. Listed(f) \in Lists
    BY <2>1, LastPage DEF Listed, Lists
  <2>3. \A item \in Listed(f) : item[1] \in Register(f)
    BY DEF Listed
  <2>4. OnPage(f) \subseteq Listed(f)
    BY DEF OnPage
  <2>5. poll.page \in Nat
    BY DEF PollInv, PollShape, SnapshotPolls
  <2> QED BY <2>2, <2>3, <2>4, <2>5, LastPage DEF Entry
<1>2. FullPage(f) \in BOOLEAN
  BY DEF FullPage
<1>3. /\ Good(f) \in Answers
      /\ Good(f).got = OnPage(f) /\ Good(f).unread = {} /\ Good(f).blank = {}
      /\ Good(f).more <=> FullPage(f)
  BY <1>1, <1>2 DEF Good, Answers, Lists
<1> DEFINE Half == [Good(f) EXCEPT !.complete = FALSE]
           Faint == [Good(f) EXCEPT !.got = {}, !.complete = FALSE]
<1>4. /\ Faint \in Answers /\ ~ Faint.complete /\ Faint.got = {}
      /\ Faint.more <=> FullPage(f)
  BY <1>3 DEF Answers, Lists
<1>5. /\ Half \in Answers /\ ~ Half.complete /\ Half.got = OnPage(f)
      /\ Half.more <=> FullPage(f)
  BY <1>3 DEF Answers
<1>6. \A w \in Warnings : Without(f, w) \in Lists /\ Without(f, w) \subseteq OnPage(f)
  BY <1>1 DEF Without, Lists
<1>7. ASSUME NEW w \in Warnings, NEW spoils \in BOOLEAN
      PROVE  /\ Unreadable(f, w, spoils) \in Answers
             /\ Unreadable(f, w, spoils).got = Without(f, w)
             /\ ~ spoils => Unreadable(f, w, spoils).unread = {w}
             /\ Unreadable(f, w, spoils).blank = {}
             /\ Unreadable(f, w, spoils).complete <=> ~ spoils
             /\ Unreadable(f, w, spoils).more <=> FullPage(f)
  <2>1. (IF spoils THEN {} ELSE {w}) \in SUBSET Warnings /\ (~ spoils) \in BOOLEAN
    OBVIOUS
  <2> QED BY <1>3, <1>6, <2>1 DEF Unreadable, Answers
<1>8. ASSUME NEW w \in Warnings
      PROVE  /\ Twice(f, w) \in Answers /\ Twice(f, w).got = OnPage(f)
             /\ Twice(f, w).unread = {} /\ Twice(f, w).blank = {}
             /\ Twice(f, w).more <=> FullPage(f)
  BY <1>3 DEF Twice, Answers
<1>9. /\ Blank(f) \in Answers /\ Blank(f).got = {} /\ Blank(f).unread = {}
      /\ Blank(f).blank = {w \in Register(f) : Page(f, w) >= poll.page}
      /\ ~ Blank(f).more
  <2>1. {w \in Register(f) : Page(f, w) >= poll.page} \in SUBSET Warnings
    BY <1>1
  <2> QED BY <1>3, <2>1 DEF Blank, Answers, Lists
<1>10. \/ r \in {Good(f), Faint, Half}
       \/ \E w \in Entry(f) : r \in {Unreadable(f, w, TRUE), Twice(f, w)}
       \/ r = Blank(f) /\ kind \in {"rso", "gios"}
       \/ /\ kind \in {"gddkia", "gios", "giosaq"}
          /\ \E w \in Entry(f) : r = Unreadable(f, w, FALSE)
  <2>1. kind \in {"rso", "imgw", "gddkia", "gios", "giosaq"}
    BY SourcesAssumption DEF PollInv, PollShape
  <2>2. CASE kind = "rso"
    BY <2>2 DEF Responses, RsoFeed, RsoNews, Failed
  <2>3. CASE kind = "imgw"
    BY <2>3 DEF Responses, ImgwFeed, ImgwItem, Failed
  <2>4. CASE kind = "gddkia"
    BY <2>4 DEF Responses, GddkiaFeed, GddkiaEntry, AmbiguousEntry, Failed
  <2>5. CASE kind = "gios"
    BY <2>5 DEF Responses, GiosRegister, GiosRecord, GiosGeocode, AmbiguousEntry
  <2>6. CASE kind = "giosaq"
    BY <2>6 DEF Responses, GiosaqPage, Failed
  <2> QED BY <2>1, <2>2, <2>3, <2>4, <2>5, <2>6
<1> HIDE DEF Half, Faint
<1>11. /\ FullPage(f) => kind = "gios"
       /\ ~ FullPage(f) => \A item \in Listed(f) : Page(f, item[1]) <= poll.page
  BY <1>1, LastPage
<1>12. CASE r \in {Good(f), Faint, Half}
  BY <1>1, <1>3, <1>4, <1>5, <1>11, <1>12
<1>13. CASE \E w \in Entry(f) : r \in {Unreadable(f, w, TRUE), Twice(f, w)}
  <2>1. PICK w \in Entry(f) : r = Unreadable(f, w, TRUE) \/ r = Twice(f, w)
    BY <1>13
  <2>2. w \in Warnings /\ TRUE \in BOOLEAN
    BY <1>1
  <2>3. CASE r = Unreadable(f, w, TRUE)
    <3>1. r \in Answers /\ r.got \subseteq OnPage(f) /\ ~ r.complete /\ (r.more <=> FullPage(f))
      BY <1>6, <1>7, <2>2, <2>3
    <3> QED BY <1>11, <3>1
  <2>4. CASE r = Twice(f, w)
    <3>1. /\ r \in Answers /\ r.got = OnPage(f) /\ r.unread = {} /\ r.blank = {}
          /\ r.more <=> FullPage(f)
      BY <1>8, <2>2, <2>4
    <3> QED BY <1>11, <3>1
  <2> QED BY <2>1, <2>3, <2>4
<1>14. CASE r = Blank(f) /\ kind \in {"rso", "gios"}
  <2>1. \A item \in Listed(f) : item[1] \in r.blank \/ Page(f, item[1]) <= poll.page
    BY <1>1, <1>9, <1>14
  <2>2. \A item \in OnPage(f) : item[1] \in r.blank
    BY <1>1, <1>9, <1>14 DEF OnPage
  <2> QED BY <1>9, <1>14, <2>1, <2>2
<1>15. CASE /\ kind \in {"gddkia", "gios", "giosaq"}
            /\ \E w \in Entry(f) : r = Unreadable(f, w, FALSE)
  <2>1. PICK w \in Entry(f) : r = Unreadable(f, w, FALSE)
    BY <1>15
  <2>2. w \in Warnings /\ FALSE \in BOOLEAN
    BY <1>1
  <2>3. r.got = Without(f, w) /\ r.unread = {w} /\ r.blank = {} /\ (r.more <=> FullPage(f))
    BY <1>7, <2>1, <2>2
  <2>4. \A item \in OnPage(f) : item \in r.got \/ item[1] \in r.unread
    BY <2>3 DEF Without
  <2> QED BY <1>6, <1>7, <1>11, <1>15, <2>1, <2>2, <2>3, <2>4
<1> QED BY <1>10, <1>12, <1>13, <1>14, <1>15

(* What one request adds to the poll.                                          *)
Fetched(f, r) ==
    [poll EXCEPT !.left = IF r.more THEN @ ELSE @ \ {f}, !.page = @ + 1,
                 !.got = @ \cup r.got,
                 !.doubtful = @ \cup r.doubtful \cup Repeated(r.got),
                 !.unread = @ \cup r.unread, !.complete = @ /\ r.complete,
                 !.at = IF kind = "gddkia" THEN day ELSE @,
                 !.served = IF kind # "gios" THEN @ \cup Listed(f)
                            ELSE {i \in Listed(f) : poll.page = 0 \/ i \in @},
                 !.blank = @ \cup r.blank, !.passed = @ \cup Passed(f)]

LEMMA FetchedFields ==
    ASSUME PollInv, NEW f \in Feeds, NEW r \in Responses(f)
    PROVE  LET p == Fetched(f, r)
           IN /\ p \in SnapshotPolls /\ p.step = poll.step
              /\ p.left = IF r.more THEN poll.left ELSE poll.left \ {f}
              /\ p.page = poll.page + 1 /\ p.got = poll.got \cup r.got
              /\ p.unread = poll.unread \cup r.unread /\ p.blank = poll.blank \cup r.blank
              /\ p.passed = poll.passed \cup Passed(f)
              /\ p.complete <=> (poll.complete /\ r.complete)
              /\ p.served = IF kind # "gios" THEN poll.served \cup Listed(f)
                            ELSE {i \in Listed(f) : poll.page = 0 \/ i \in poll.served}
              /\ p.at \in {day, poll.at} /\ p.todo = poll.todo /\ p.gone = poll.gone
<1>1. /\ r \in Answers /\ Listed(f) \in Lists /\ poll \in SnapshotPolls
      /\ Passed(f) \in SUBSET Warnings /\ Repeated(r.got) \in SUBSET Warnings /\ day \in Nat
  <2>1. ASSUME NEW w \in Warnings PROVE <<w, provider[w]>> \in Warnings \X (Versions \cup {0})
    BY DEF PollInv, PollShape
  <2>2. Listed(f) \in Lists
    BY <2>1 DEF Listed, Register, Lists
  <2>3. Passed(f) \in SUBSET Warnings
    BY <2>2 DEF Passed, Lists
  <2>4. Repeated(r.got) \in SUBSET Warnings
    BY DEF Repeated
  <2> QED BY <2>2, <2>3, <2>4, ResponseShape DEF PollInv, PollShape
<1> DEFINE left == IF r.more THEN poll.left ELSE poll.left \ {f}
           doubtful == poll.doubtful \cup r.doubtful \cup Repeated(r.got)
           complete == poll.complete /\ r.complete
           at == IF kind = "gddkia" THEN day ELSE poll.at
           served == IF kind # "gios" THEN poll.served \cup Listed(f)
                     ELSE {i \in Listed(f) : poll.page = 0 \/ i \in poll.served}
<1>2. /\ left \in SUBSET Asked /\ poll.page + 1 \in Nat /\ poll.got \cup r.got \in Lists
      /\ doubtful \in SUBSET Warnings /\ poll.unread \cup r.unread \in SUBSET Warnings
      /\ at \in Nat /\ served \in Lists
      /\ poll.blank \cup r.blank \in SUBSET Warnings
      /\ poll.passed \cup Passed(f) \in SUBSET Warnings
  BY <1>1 DEF SnapshotPolls, Answers, Lists
<1>3. complete \in BOOLEAN
  OBVIOUS
<1>4. Fetched(f, r) = [poll EXCEPT !.left = left, !.page = poll.page + 1,
                 !.got = poll.got \cup r.got, !.doubtful = doubtful,
                 !.unread = poll.unread \cup r.unread, !.complete = complete,
                 !.at = at, !.served = served,
                 !.blank = poll.blank \cup r.blank, !.passed = poll.passed \cup Passed(f)]
  BY DEF Fetched
<1>5. at \in {day, poll.at}
  OBVIOUS
<1> HIDE DEF left, doubtful, complete, at, served
<1>6. Fetched(f, r) \in SnapshotPolls
  <2>1. poll = [step |-> poll.step, left |-> poll.left, at |-> poll.at, got |-> poll.got,
                doubtful |-> poll.doubtful, unread |-> poll.unread,
                complete |-> poll.complete, keys |-> poll.keys, todo |-> poll.todo,
                gone |-> poll.gone, page |-> poll.page, served |-> poll.served,
                blank |-> poll.blank, passed |-> poll.passed]
    BY <1>1 DEF SnapshotPolls
  <2>2. Fetched(f, r) =
               [step |-> poll.step, left |-> left, at |-> at, got |-> poll.got \cup r.got,
                doubtful |-> doubtful, unread |-> poll.unread \cup r.unread,
                complete |-> complete, keys |-> poll.keys, todo |-> poll.todo,
                gone |-> poll.gone, page |-> poll.page + 1, served |-> served,
                blank |-> poll.blank \cup r.blank, passed |-> poll.passed \cup Passed(f)]
    BY <1>4, <2>1
  <2>3. /\ poll.step \in {"idle", "fetch", "emit", "cancel", "settled"}
        /\ poll.keys \in SUBSET Warnings /\ poll.todo \in Lists /\ poll.gone \in SUBSET Warnings
    BY <1>1 DEF SnapshotPolls
  <2> QED BY <1>2, <1>3, <2>2, <2>3 DEF SnapshotPolls
<1>7. LET p == Fetched(f, r)
      IN /\ p.step = poll.step /\ p.left = left
         /\ p.page = poll.page + 1 /\ p.got = poll.got \cup r.got
         /\ p.unread = poll.unread \cup r.unread /\ p.blank = poll.blank \cup r.blank
         /\ p.passed = poll.passed \cup Passed(f) /\ p.served = served
         /\ p.at = at /\ p.todo = poll.todo /\ p.gone = poll.gone
  BY <1>1, <1>4 DEF SnapshotPolls
<1>8. Fetched(f, r).complete = complete
  BY <1>1, <1>4 DEF SnapshotPolls
<1> QED BY <1>5, <1>6, <1>7, <1>8 DEF left, complete, served

(* One request: what its response lost is lost to the combined snapshot, and   *)
(* so is its completeness.                                                     *)
LEMMA FetchStep ==
    ASSUME PollInv, NEW f \in Feeds, Fetch(f) PROVE PollInv'
<1>1. PICK r \in Responses(f) : poll' = Fetched(f, r)
  BY DEF Fetch, Fetched
<1>2. /\ r.complete => \A item \in OnPage(f) :
                          item \in r.got \/ item[1] \in r.unread \/ item[1] \in r.blank
      /\ r.complete /\ ~ r.more => \A item \in Listed(f) :
                          Page(f, item[1]) <= poll.page \/ item[1] \in r.blank
      /\ r.complete /\ r.unread # {} => kind \in {"gddkia", "gios", "giosaq"}
      /\ r.complete /\ r.blank # {} => kind \in {"rso", "gios"}
      /\ r.more => kind = "gios"
  BY ResponseShape
<1>3. poll.step = "fetch" /\ f \in poll.left /\ UNCHANGED <<kind, provider, day>>
  BY DEF Fetch
<1>4. /\ poll' \in SnapshotPolls /\ poll'.step = "fetch"
      /\ poll'.left = IF r.more THEN poll.left ELSE poll.left \ {f}
      /\ poll'.got = poll.got \cup r.got
      /\ poll'.unread = poll.unread \cup r.unread /\ poll'.blank = poll.blank \cup r.blank
      /\ poll'.passed = poll.passed \cup Passed(f)
      /\ poll'.complete <=> (poll.complete /\ r.complete)
      /\ poll'.served = IF kind # "gios" THEN poll.served \cup Listed(f)
                        ELSE {i \in Listed(f) : poll.page = 0 \/ i \in poll.served}
  BY <1>1, <1>3, FetchedFields
<1>5. PollShape'
  BY <1>3, <1>4 DEF PollInv, PollShape
<1>6. \A item \in Listed(f) : /\ item[1] \in Register(f) /\ Page(f, item[1]) \in Nat
                              /\ Page(f, item[1]) = poll.page => item \in OnPage(f)
                              /\ kind # "gios" => Page(f, item[1]) = poll.page
  BY LastPage DEF Listed, OnPage
<1>7. poll.page \in Nat
  BY DEF PollInv, PollShape, SnapshotPolls
<1>8. kind # "gios" => Passed(f) = {}
  BY <1>6, <1>7 DEF Passed
<1>9. NothingLost'
  <2>1. SUFFICES ASSUME poll'.complete, ~ (kind = "gios" /\ poll'.left # {}),
                        NEW item \in poll'.served
                 PROVE  item \in poll'.got \/ item[1] \in Missed'
    BY <1>3, <1>4 DEF NothingLost
  <2>2. ~ r.more /\ poll.complete /\ r.complete
    BY <1>2, <1>3, <1>4, <2>1
  <2>3. Missed' = Missed \cup r.unread \cup r.blank \cup Passed(f)
    BY <1>4 DEF Missed
  <2>4. CASE item \in Listed(f)
    <3>1. CASE Page(f, item[1]) = poll.page
      BY <1>2, <1>4, <1>6, <2>2, <2>3, <2>4, <3>1
    <3>2. CASE Page(f, item[1]) > poll.page
      BY <1>2, <1>6, <1>7, <2>2, <2>3, <2>4, <3>2
    <3>3. CASE Page(f, item[1]) < poll.page
      <4>1. item \in poll.got \/ item[1] \in Passed(f) \/ item[1] \in poll.unread
        BY <2>4, <3>3 DEF Passed
      <4> QED BY <1>4, <2>3, <4>1 DEF Missed
    <3> QED BY <1>6, <1>7, <2>4, <3>1, <3>2, <3>3
  <2>5. CASE item \notin Listed(f)
    <3>1. kind # "gios" /\ item \in poll.served
      BY <1>4, <2>1, <2>5
    <3>2. item \in poll.got \/ item[1] \in Missed
      BY <1>3, <2>2, <3>1 DEF PollInv, NothingLost
    <3> QED BY <1>4, <2>3, <3>2
  <2> QED BY <2>4, <2>5
<1>10. MissedByKind'
  BY <1>2, <1>3, <1>4, <1>8 DEF PollInv, MissedByKind
<1>11. KeysKept' /\ GoneIsAbsent'
  BY <1>4 DEF KeysKept, GoneIsAbsent
<1> QED BY <1>5, <1>9, <1>10, <1>11 DEF PollInv

(* The comparison of identities: an item whose identity is ambiguous has no    *)
(* key, and then the snapshot is not complete.                                 *)
LEMMA CombineStep ==
    ASSUME PollInv, Combine PROVE PollInv'
<1> DEFINE readable == InScope(poll.got)
           ambiguous == Ambiguous(readable)
           keys == {item[1] : item \in readable} \ ambiguous
           todo == {item \in readable : item[1] \in keys}
<1>1. /\ poll.step = "fetch" /\ poll.left = {} /\ UNCHANGED <<kind, provider, day>>
      /\ poll' = [poll EXCEPT !.step = "emit", !.keys = keys, !.todo = todo,
                              !.complete = @ /\ ambiguous = {}]
  BY DEF Combine
<1>2. keys \in SUBSET Warnings /\ todo \in Lists
  BY DEF PollInv, PollShape, SnapshotPolls, Lists, InScope
<1>3. \A item \in readable : item[1] \in keys \/ ambiguous # {}
  OBVIOUS
<1> HIDE DEF keys, todo, ambiguous, readable
<1>4. (poll.complete /\ ambiguous = {}) \in BOOLEAN
  OBVIOUS
<1>5. PollShape'
  BY <1>1, <1>2, <1>4 DEF PollInv, PollShape, SnapshotPolls
<1>6. /\ poll'.step = "emit" /\ poll'.keys = keys /\ poll'.got = poll.got
      /\ poll'.served = poll.served /\ poll'.unread = poll.unread /\ poll.left = {}
      /\ poll'.blank = poll.blank /\ poll'.passed = poll.passed
  BY <1>1 DEF PollInv, PollShape, SnapshotPolls
<1>7. poll'.complete = (poll.complete /\ ambiguous = {})
  BY <1>1 DEF PollInv, PollShape, SnapshotPolls
<1>8. NothingLost' /\ MissedByKind'
  BY <1>1, <1>6, <1>7 DEF PollInv, NothingLost, MissedByKind, Missed
<1>9. KeysKept'
  BY <1>3, <1>6, <1>7 DEF KeysKept, readable, InScope
<1>10. GoneIsAbsent'
  BY <1>6 DEF GoneIsAbsent
<1> QED BY <1>5, <1>8, <1>9, <1>10 DEF PollInv

(* The reconciliation, for a complete snapshot of a source that concludes.     *)
LEMMA ReconcileStep ==
    ASSUME PollInv, ReconcileReads PROVE PollInv'
<1>1. PICK gone \in SUBSET (Warnings \ poll.keys) :
        /\ poll' = [poll EXCEPT !.step = "cancel", !.gone = gone]
        /\ poll.step = "emit" /\ poll.complete /\ kind # "giosaq"
        /\ UNCHANGED <<kind, provider, day>>
  <2> DEFINE gone == {w \in Warnings \ poll.keys :
                         table[w].status = "active" /\ ~ Lapsed(table[w].version, poll.at)}
  <2>1. gone \in SUBSET (Warnings \ poll.keys)
    OBVIOUS
  <2>2. /\ poll' = [poll EXCEPT !.step = "cancel", !.gone = gone]
        /\ poll.step = "emit" /\ poll.complete /\ kind # "giosaq"
        /\ UNCHANGED <<kind, provider, day>>
    BY DEF ReconcileReads
  <2> HIDE DEF gone
  <2> QED BY <2>1, <2>2
<1>2. PollShape'
  BY <1>1 DEF PollInv, PollShape, SnapshotPolls
<1>3. /\ poll'.step = "cancel" /\ poll'.complete = poll.complete /\ poll'.gone = gone
      /\ poll'.got = poll.got /\ poll'.served = poll.served /\ poll'.unread = poll.unread
      /\ poll'.keys = poll.keys /\ poll'.blank = poll.blank /\ poll'.passed = poll.passed
  BY <1>1 DEF PollInv, PollShape, SnapshotPolls
<1>4. NothingLost' /\ MissedByKind' /\ KeysKept'
  BY <1>1, <1>3 DEF PollInv, NothingLost, MissedByKind, KeysKept, InScope, Missed
<1>5. GoneIsAbsent'
  BY <1>1, <1>3 DEF GoneIsAbsent
<1> QED BY <1>2, <1>4, <1>5 DEF PollInv

(* A poll begins, settles or ends: nothing has been concluded.                *)
LEMMA PollBoundStep ==
    ASSUME PollInv, PollBegins \/ PollSettled \/ PollEnds PROVE PollInv'
<1>1. UNCHANGED <<kind, provider, day>>
  BY DEF PollBegins, PollSettled, PollEnds
<1>2. /\ NoPoll \in SnapshotPolls /\ NoPoll.step = "idle" /\ NoPoll.served = {}
      /\ NoPoll.unread = {} /\ NoPoll.blank = {} /\ NoPoll.passed = {}
  BY DEF NoPoll, Lists, SnapshotPolls
<1>3. CASE PollBegins
  <2>1. poll' = [NoPoll EXCEPT !.step = "fetch", !.left = FeedsOf(kind), !.at = day]
    BY <1>3 DEF PollBegins
  <2>2. FeedsOf(kind) \in SUBSET Asked
    BY DEF Asked, PollInv, PollShape
  <2>3. PollShape'
    BY <1>1, <1>2, <2>1, <2>2 DEF PollInv, PollShape, SnapshotPolls
  <2>4. /\ poll'.step = "fetch" /\ poll'.served = {}
        /\ poll'.unread = {} /\ poll'.blank = {} /\ poll'.passed = {}
    BY <1>2, <2>1 DEF SnapshotPolls
  <2> QED BY <2>3, <2>4
          DEF PollInv, NothingLost, MissedByKind, KeysKept, GoneIsAbsent
<1>4. CASE PollSettled
  <2>1. poll' = [poll EXCEPT !.step = "settled"]
    BY <1>4 DEF PollSettled
  <2> QED BY <1>1, <2>1
          DEF PollInv, PollShape, SnapshotPolls, NothingLost, MissedByKind, KeysKept,
              GoneIsAbsent
<1>5. CASE PollEnds
  <2>1. poll' = NoPoll
    BY <1>5 DEF PollEnds
  <2> QED BY <1>1, <1>2, <2>1
          DEF PollInv, PollShape, SnapshotPolls, NothingLost, MissedByKind, KeysKept,
              GoneIsAbsent
<1> QED BY <1>3, <1>4, <1>5

(* The world beside the poll moves only the clock, the provider and the table. *)
LEMMA BesideStep ==
    ASSUME PollInv, DayPasses \/ \E w \in Warnings : ProviderEdits(w) \/ Expire(w)
    PROVE  PollInv'
<1>1. UNCHANGED <<kind, poll>>
  BY DEF DayPasses, ProviderEdits, Expire
<1>2. day' \in Nat /\ provider' \in [Warnings -> Versions \cup {0}]
  <2>1. CASE DayPasses
    BY <2>1 DEF DayPasses, PollInv, PollShape
  <2>2. ASSUME NEW w \in Warnings, ProviderEdits(w) PROVE day' \in Nat /\ provider' \in [Warnings -> Versions \cup {0}]
    BY <2>2 DEF ProviderEdits, PollInv, PollShape
  <2>3. ASSUME NEW w \in Warnings, Expire(w) PROVE day' \in Nat /\ provider' \in [Warnings -> Versions \cup {0}]
    BY <2>3 DEF Expire, PollInv, PollShape
  <2> QED BY <2>1, <2>2, <2>3
<1> QED BY <1>1, <1>2, PollRestStep

LEMMA PollInvAlways == SourcesSpec => []PollInv
<1>1. SourcesInit => PollInv
  BY DEF SourcesInit, NoPoll, Lists, PollInv, PollShape, SnapshotPolls, NothingLost,
         MissedByKind, KeysKept, GoneIsAbsent
<1>2. PollInv /\ [SourcesNext]_sourceVars => PollInv'
  <2>1. SUFFICES ASSUME PollInv, [SourcesNext]_sourceVars PROVE PollInv'
    OBVIOUS
  <2>2. CASE EmitOne
    <3>1. PICK item \in poll.todo : poll' = [poll EXCEPT !.todo = @ \ {item}]
      BY <2>2 DEF EmitOne
    <3>2. UNCHANGED <<kind, provider, day>> /\ poll.todo \ {item} \in SUBSET poll.todo
      BY <2>2 DEF EmitOne
    <3>3. day' \in Nat /\ provider' \in [Warnings -> Versions \cup {0}]
      BY <2>1, <3>2 DEF PollInv, PollShape, SnapshotPolls
    <3> QED BY <2>1, <3>1, <3>2, <3>3, PollRestStep
  <2>3. CASE CancelOne
    <3>1. PICK w \in poll.gone : poll' = [poll EXCEPT !.gone = @ \ {w}]
      BY <2>3 DEF CancelOne
    <3>2. UNCHANGED <<kind, provider, day>> /\ poll.gone \ {w} \in SUBSET poll.gone
      BY <2>3 DEF CancelOne
    <3>3. day' \in Nat /\ provider' \in [Warnings -> Versions \cup {0}]
      BY <2>1, <3>2 DEF PollInv, PollShape, SnapshotPolls
    <3> QED BY <2>1, <3>1, <3>2, <3>3, PollRestStep
  <2>4. CASE PollBegins \/ PollSettled \/ PollEnds
    BY <2>1, <2>4, PollBoundStep
  <2>5. CASE DayPasses \/ \E w \in Warnings : ProviderEdits(w) \/ Expire(w)
    BY <2>1, <2>5, BesideStep
  <2>6. CASE UNCHANGED sourceVars
    <3>1. UNCHANGED <<kind, poll, day, provider>>
      BY <2>6 DEF sourceVars
    <3>2. day' \in Nat /\ provider' \in [Warnings -> Versions \cup {0}]
      BY <2>1, <3>1 DEF PollInv, PollShape, SnapshotPolls
    <3> QED BY <2>1, <3>1, <3>2, PollRestStep
  <2> QED BY <2>1, <2>2, <2>3, <2>4, <2>5, <2>6, CombineStep, ReconcileStep, FetchStep
          DEF SourcesNext
<1> QED BY <1>1, <1>2, PTL DEF SourcesSpec

(* No source withdraws a warning it was served in scope: a response that lost   *)
(* one makes the snapshot incomplete, and an incomplete snapshot concludes      *)
(* nothing.  The exceptions are those of WithdrawnForCause, each for the        *)
(* sources that have it: an entry counted as out of scope, an answer without    *)
(* its list, a record that changed pages (ingestCombined, ingestSnapshot,       *)
(* pollOnce, FetchAwarie, Reconcile; rso/snapshot.go:27).                       *)
THEOREM OnlyAbsentWithdrawn == SourcesSpec => []WithdrawnForCause
<1>1. PollInv => WithdrawnForCause
  <2>1. SUFFICES ASSUME PollInv, poll.step = "cancel", NEW w \in poll.gone,
                        VersionsOf(InScope(poll.served), w) # {}
                 PROVE  \/ kind \in {"gddkia", "gios"} /\ w \in poll.unread
                        \/ kind \in {"rso", "gios"} /\ w \in poll.blank
                        \/ kind = "gios" /\ w \in poll.passed
    BY DEF WithdrawnForCause
  <2>2. PICK item \in InScope(poll.served) : item[1] = w
    BY <2>1 DEF VersionsOf
  <2>3. poll.complete /\ kind # "giosaq" /\ w \notin poll.keys
    BY <2>1 DEF PollInv, GoneIsAbsent
  <2>4. item \notin poll.got
    BY <2>1, <2>2, <2>3 DEF PollInv, KeysKept, InScope
  <2>5. w \in poll.unread \/ w \in poll.blank \/ w \in poll.passed
    BY <2>1, <2>2, <2>3, <2>4 DEF PollInv, NothingLost, InScope, Missed
  <2> QED BY <2>1, <2>3, <2>5 DEF PollInv, MissedByKind
<1> QED BY <1>1, PollInvAlways, PTL

-----------------------------------------------------------------------------
(***************************************************************************)
(* What a quiet, complete poll leaves in the table.                        *)
(***************************************************************************)

(* Rows have a version once they have been active; the poll's clock is never  *)
(* ahead, it asks only the feeds of its source, and a settled poll was        *)
(* complete.                                                                  *)
TableShape ==
    /\ table \in [Warnings -> [status : {"none", "active", "expired", "cancelled"},
                               version : Versions \cup {0}]]
    /\ \A w \in Warnings : table[w].status = "active" => table[w].version \in Versions
    /\ poll.at <= day
    /\ poll.left \subseteq FeedsOf(kind)
    /\ poll.step = "settled" => poll.complete /\ poll.gone = {}
    /\ poll.todo \subseteq Scope
    /\ poll.step \in {"cancel", "settled"} => poll.todo = {}

(* As long as nothing has changed, what has been read is what is announced,   *)
GotIsAnnounced ==
    poll.step \in {"fetch", "emit", "cancel"} /\ quiet =>
        \A item \in poll.got : /\ item[2] = provider[item[1]] /\ item[2] # 0
                               /\ Cover[item[1]] \cap FeedsOf(kind) # {}

(* and in a complete snapshot nothing of an answered feed is missing, but     *)
(* what could not be read or was left out of the answer, nor of an answered   *)
(* page.                                                                      *)
Unseen == poll.unread \cup poll.blank

AnnouncedIsGot ==
    poll.step = "fetch" /\ quiet /\ poll.complete =>
        \A w \in Warnings : \A f \in (Cover[w] \cap FeedsOf(kind)) \ poll.left :
            provider[w] # 0 => <<w, provider[w]>> \in poll.got \/ w \in Unseen

PagesAreRead ==
    poll.step = "fetch" /\ quiet /\ poll.complete /\ kind = "gios" =>
        \A w \in Warnings : \A f \in Cover[w] \cap FeedsOf(kind) :
            provider[w] # 0 /\ PageIn[Register(f)][w] < poll.page
                => <<w, provider[w]>> \in poll.got \/ w \in Unseen

(* The keys are the announced warnings in scope.                              *)
KeysAreAnnounced ==
    poll.step \in {"emit", "cancel", "settled"} /\ quiet /\ poll.complete =>
        /\ \A w \in poll.keys : Announced(w)
        /\ \A w \in Warnings \ Unseen : Announced(w) => w \in poll.keys

(* What is left to emit is of the keys, and what was emitted is stored.       *)
EmittedIsStored ==
    poll.step \in {"emit", "cancel", "settled"} /\ quiet =>
        /\ \A item \in poll.todo : item[1] \in poll.keys /\ item[2] = provider[item[1]]
        /\ \A w \in poll.keys : provider[w] \in Versions
        /\ \A w \in poll.keys :
              \/ <<w, provider[w]>> \in poll.todo
              \/ /\ table[w].version = provider[w]
                 /\ table[w].status = "active" \/ Lapsed(provider[w], day)

(* What has no key is to be cancelled, or not active, or past its expiry.     *)
RestIsWithdrawn ==
    poll.step \in {"cancel", "settled"} /\ quiet =>
        \A w \in Warnings \ poll.keys :
            \/ w \in poll.gone
            \/ table[w].status # "active"
            \/ Lapsed(table[w].version, poll.at)

SettleInv == /\ TableShape /\ GotIsAnnounced /\ AnnouncedIsGot /\ PagesAreRead
             /\ KeysAreAnnounced /\ EmittedIsStored /\ RestIsWithdrawn

Settling == PollInv /\ PollInv' /\ SettleInv

LEMMA LapsedStays ==
    ASSUME NEW v \in Versions, NEW early \in Nat, NEW late \in Nat, early <= late,
           Lapsed(v, early)
    PROVE  Lapsed(v, late)
<1>1. Due[v] \in Nat
  BY SourcesAssumption
<1> QED BY <1>1 DEF Lapsed

(* Once something has changed or failed, nothing more is claimed of the poll. *)
LEMMA DisturbedStep ==
    ASSUME Settling, TableShape', ~ quiet' PROVE SettleInv'
BY DEF SettleInv, GotIsAnnounced, AnnouncedIsGot, PagesAreRead, KeysAreAnnounced, EmittedIsStored,
       RestIsWithdrawn

LEMMA BoundSettles ==
    ASSUME Settling, PollBegins \/ PollEnds PROVE SettleInv'
<1>1. UNCHANGED <<kind, provider, table, day>>
  BY DEF PollBegins, PollEnds
<1>2. /\ poll'.step \in {"idle", "fetch"} /\ poll'.got = {} /\ poll'.at <= day
      /\ poll'.todo = {} /\ poll'.page = 0
      /\ poll'.step = "fetch" => poll'.left = FeedsOf(kind)
      /\ poll'.left \subseteq FeedsOf(kind)
  <2>1. CASE PollBegins
    <3>1. poll' = [NoPoll EXCEPT !.step = "fetch", !.left = FeedsOf(kind), !.at = day]
      BY <2>1 DEF PollBegins
    <3> QED BY <3>1 DEF NoPoll, Settling, PollInv, PollShape, SnapshotPolls
  <2>2. CASE PollEnds
    BY <2>2 DEF PollEnds, NoPoll, Settling, PollInv, PollShape, SnapshotPolls
  <2> QED BY <2>1, <2>2
<1>3. FeedsOf(kind)' = FeedsOf(kind)
  BY <1>1
<1>4. TableShape'
  BY <1>1, <1>2, <1>3 DEF Settling, SettleInv, TableShape
<1>5. PagesAreRead'
  <2>1. \A g \in Feeds, w \in Warnings : PageIn[Register(g)'][w] \in Nat
    BY <1>1, PagesAreFilled DEF Register
  <2>2. \A w \in Warnings : Cover[w] \subseteq Feeds
    BY SourcesAssumption
  <2> QED BY <1>1, <1>2, <2>1, <2>2 DEF PagesAreRead
<1> QED BY <1>1, <1>2, <1>3, <1>4, <1>5
        DEF SettleInv, GotIsAnnounced, AnnouncedIsGot, KeysAreAnnounced, EmittedIsStored,
            RestIsWithdrawn

LEMMA FetchSettles ==
    ASSUME Settling, NEW f \in Feeds, Fetch(f) PROVE SettleInv'
<1>1. PICK r \in Responses(f) : poll' = Fetched(f, r)
  BY DEF Fetch, Fetched
<1>2. /\ r.complete => \A item \in OnPage(f) :
                          item \in r.got \/ item[1] \in r.unread \/ item[1] \in r.blank
      /\ r.complete /\ ~ r.more => \A item \in Listed(f) :
                          Page(f, item[1]) <= poll.page \/ item[1] \in r.blank
      /\ r.got \subseteq OnPage(f) /\ OnPage(f) \subseteq Listed(f)
  BY ResponseShape DEF Settling, OnPage
<1>3. /\ poll.step = "fetch" /\ f \in poll.left
      /\ UNCHANGED <<kind, provider, table, day, quiet>>
  BY DEF Fetch
<1>4. /\ poll'.step = "fetch" /\ poll'.page = poll.page + 1
      /\ poll'.left = IF r.more THEN poll.left ELSE poll.left \ {f}
      /\ poll'.got = poll.got \cup r.got
      /\ poll'.unread = poll.unread \cup r.unread /\ poll'.blank = poll.blank \cup r.blank
      /\ poll'.complete <=> (poll.complete /\ r.complete)
      /\ poll'.at \in {day, poll.at} /\ poll'.todo = poll.todo
  BY <1>1, <1>3, FetchedFields DEF Settling
<1>5. FeedsOf(kind)' = FeedsOf(kind) /\ f \in FeedsOf(kind) /\ \A g \in Feeds : Register(g)' = Register(g)
  BY <1>3 DEF Settling, SettleInv, TableShape, Register
<1>6. poll.page \in Nat /\ kind \in Kinds
  BY DEF Settling, PollInv, PollShape, SnapshotPolls
<1>7. TableShape'
  BY <1>3, <1>4, <1>5 DEF Settling, SettleInv, TableShape, PollInv, PollShape, SnapshotPolls
<1>8. \A item \in Listed(f) :
         /\ item[2] = provider[item[1]] /\ item[2] # 0
         /\ Cover[item[1]] \cap FeedsOf(kind) # {}
  BY <1>5 DEF Listed, Register
<1>9. GotIsAnnounced'
  BY <1>2, <1>3, <1>4, <1>5, <1>8 DEF Settling, SettleInv, GotIsAnnounced
<1>10. Unseen' = Unseen \cup r.unread \cup r.blank
  BY <1>4 DEF Unseen
<1>11. ASSUME quiet, poll'.complete, NEW w \in Warnings, f \in Cover[w], provider[w] # 0,
              Page(f, w) <= poll.page
       PROVE  <<w, provider[w]>> \in poll'.got \/ w \in Unseen'
  <2>1. w \in Register(f) /\ <<w, provider[w]>> \in Listed(f)
    BY <1>11 DEF Register, Listed
  <2>2. Page(f, w) \in Nat
    BY <2>1, LastPage DEF Settling
  <2>3. CASE Page(f, w) = poll.page
    <3>1. <<w, provider[w]>> \in OnPage(f)
      BY <2>1, <2>3 DEF OnPage
    <3> QED BY <1>2, <1>4, <1>10, <1>11, <3>1
  <2>4. CASE Page(f, w) < poll.page
    <3>1. kind = "gios" /\ PageIn[Register(f)][w] < poll.page
      BY <1>6, <2>1, <2>4, LastPage DEF Settling, Page
    <3>2. <<w, provider[w]>> \in poll.got \/ w \in Unseen
      BY <1>3, <1>4, <1>5, <1>11, <3>1 DEF Settling, SettleInv, PagesAreRead
    <3> QED BY <1>4, <1>10, <3>2
  <2> QED BY <1>6, <1>11, <2>2, <2>3, <2>4
<1>12. AnnouncedIsGot'
  <2>1. SUFFICES ASSUME quiet, poll'.complete, NEW w \in Warnings,
                        NEW g \in (Cover[w] \cap FeedsOf(kind)) \ poll'.left,
                        provider[w] # 0
                 PROVE  <<w, provider[w]>> \in poll'.got \/ w \in Unseen'
    BY <1>3, <1>4, <1>5 DEF AnnouncedIsGot
  <2>2. CASE g = f
    <3>1. ~ r.more /\ r.complete
      BY <1>3, <1>4, <2>1, <2>2
    <3>2. <<w, provider[w]>> \in Listed(f)
      BY <2>1, <2>2 DEF Listed, Register
    <3>3. Page(f, w) <= poll.page \/ w \in r.blank
      BY <1>2, <3>1, <3>2
    <3> QED BY <1>10, <1>11, <2>1, <2>2, <3>3
  <2>3. CASE g # f
    <3>1. g \in (Cover[w] \cap FeedsOf(kind)) \ poll.left /\ poll.complete
      BY <1>4, <2>1, <2>3
    <3>2. <<w, provider[w]>> \in poll.got \/ w \in Unseen
      BY <1>3, <2>1, <3>1 DEF Settling, SettleInv, AnnouncedIsGot
    <3> QED BY <1>4, <1>10, <3>2
  <2> QED BY <2>2, <2>3
<1>13. PagesAreRead'
  <2>1. SUFFICES ASSUME quiet, poll'.complete, kind = "gios", NEW w \in Warnings,
                        NEW g \in Cover[w] \cap FeedsOf(kind),
                        provider[w] # 0, PageIn[Register(g)][w] < poll.page + 1
                 PROVE  <<w, provider[w]>> \in poll'.got \/ w \in Unseen'
    BY <1>3, <1>4, <1>5 DEF PagesAreRead, Register
  <2>2. g = f
    BY <1>5, <2>1 DEF FeedsOf
  <2>3. w \in Register(f)
    BY <2>1, <2>2 DEF Register
  <2>4. Page(f, w) \in Nat /\ Page(f, w) = PageIn[Register(f)][w]
    BY <2>1, <2>3, LastPage DEF Settling, Page
  <2>5. Page(f, w) <= poll.page
    BY <1>6, <2>1, <2>2, <2>4
  <2> QED BY <1>11, <2>1, <2>2, <2>5
<1> QED BY <1>4, <1>7, <1>9, <1>12, <1>13
        DEF SettleInv, KeysAreAnnounced, EmittedIsStored, RestIsWithdrawn

LEMMA CombineSettles ==
    ASSUME Settling, Combine PROVE SettleInv'
<1> DEFINE readable == InScope(poll.got)
           ambiguous == Ambiguous(readable)
           keys == {item[1] : item \in readable} \ ambiguous
           todo == {item \in readable : item[1] \in keys}
<1>1. /\ poll.step = "fetch" /\ poll.left = {}
      /\ UNCHANGED <<kind, provider, table, day, quiet>>
      /\ poll' = [poll EXCEPT !.step = "emit", !.keys = keys, !.todo = todo,
                              !.complete = @ /\ ambiguous = {}]
  BY DEF Combine
<1>2. /\ poll'.step = "emit" /\ poll'.keys = keys /\ poll'.todo = todo
      /\ poll'.got = poll.got /\ poll'.unread = poll.unread /\ poll'.left = {}
      /\ poll'.blank = poll.blank
      /\ poll'.at = poll.at /\ poll'.complete = (poll.complete /\ ambiguous = {})
  <2> HIDE DEF keys, todo, ambiguous, readable
  <2> QED BY <1>1 DEF Settling, PollInv, PollShape, SnapshotPolls
<1>3. FeedsOf(kind)' = FeedsOf(kind)
  BY <1>1
<1>4. readable \subseteq Scope /\ todo \subseteq readable /\ readable \subseteq poll.got
  BY DEF InScope
<1>5. TableShape'
  BY <1>1, <1>2, <1>3, <1>4 DEF Settling, SettleInv, TableShape
<1>6. GotIsAnnounced'
  BY <1>1, <1>2, <1>3 DEF Settling, SettleInv, GotIsAnnounced
<1>7. ASSUME quiet, NEW w \in keys
      PROVE  <<w, provider[w]>> \in readable /\ Announced(w) /\ provider[w] \in Versions
  <2>1. PICK item \in readable : item[1] = w
    OBVIOUS
  <2>2. item[2] = provider[w] /\ Cover[w] \cap FeedsOf(kind) # {}
    BY <1>1, <1>4, <1>7, <2>1 DEF Settling, SettleInv, GotIsAnnounced
  <2>3. item \in Scope /\ Scope \subseteq Warnings \X Versions
    BY <1>4, SourcesAssumption
  <2>4. item = <<w, provider[w]>> /\ provider[w] \in Versions
    BY <2>1, <2>2, <2>3
  <2> QED BY <2>1, <2>2, <2>3, <2>4 DEF Announced
<1>8. ASSUME quiet, poll.complete, ambiguous = {}, NEW w \in Warnings \ Unseen,
             Announced(w)
      PROVE  w \in keys
  <2>1. <<w, provider[w]>> \in Scope /\ provider[w] # 0
    BY <1>8, SourcesAssumption DEF Announced
  <2>2. PICK f \in Cover[w] \cap FeedsOf(kind) : TRUE
    BY <1>8 DEF Announced
  <2>3. <<w, provider[w]>> \in poll.got
    BY <1>1, <1>8, <2>1, <2>2 DEF Settling, SettleInv, AnnouncedIsGot
  <2>4. <<w, provider[w]>> \in readable
    BY <2>1, <2>3 DEF InScope
  <2>5. <<w, provider[w]>>[1] = w
    OBVIOUS
  <2>6. w \in {item[1] : item \in readable}
    BY <2>4, <2>5
  <2> QED BY <1>8, <2>6
<1>9. KeysAreAnnounced'
  <2>1. \A w \in Warnings : Announced(w)' = Announced(w)
    BY <1>1, <1>3 DEF Announced
  <2>2. keys \subseteq Warnings
    BY <1>4, SourcesAssumption
  <2> HIDE DEF keys, ambiguous, readable
  <2>3. Unseen' = Unseen
    BY <1>2 DEF Unseen
  <2> QED BY <1>1, <1>2, <1>7, <1>8, <2>1, <2>2, <2>3 DEF KeysAreAnnounced
<1>10. EmittedIsStored'
  <2>1. ASSUME quiet, NEW item \in todo
        PROVE  item[1] \in keys /\ item[2] = provider[item[1]]
    BY <1>1, <1>4, <2>1 DEF Settling, SettleInv, GotIsAnnounced
  <2>2. ASSUME quiet, NEW w \in keys PROVE <<w, provider[w]>> \in todo
    BY <1>7, <2>2
  <2> HIDE DEF keys, todo, readable
  <2> QED BY <1>1, <1>2, <1>7, <2>1, <2>2 DEF EmittedIsStored
<1> QED BY <1>2, <1>5, <1>6, <1>9, <1>10 DEF SettleInv, AnnouncedIsGot, PagesAreRead, RestIsWithdrawn

LEMMA EmitSettles ==
    ASSUME Settling, EmitOne PROVE SettleInv'
<1>1. PICK item \in poll.todo :
        /\ poll' = [poll EXCEPT !.todo = @ \ {item}]
        /\ \/ table' = [table EXCEPT ![item[1]] = Stored(item[1], item[2])] /\ UNCHANGED quiet
           \/ UNCHANGED table /\ quiet' = FALSE
  BY DEF EmitOne
<1>2. poll.step = "emit" /\ UNCHANGED <<kind, provider, day>>
  BY DEF EmitOne
<1>3. /\ poll'.step = "emit" /\ poll'.todo = poll.todo \ {item} /\ poll'.keys = poll.keys
      /\ poll'.got = poll.got /\ poll'.unread = poll.unread /\ poll'.blank = poll.blank /\ poll'.left = poll.left
      /\ poll'.at = poll.at /\ poll'.complete = poll.complete
  BY <1>1, <1>2 DEF Settling, PollInv, PollShape, SnapshotPolls
<1>4. item \in Scope /\ item[1] \in Warnings /\ item[2] \in Versions
  BY SourcesAssumption DEF Settling, SettleInv, TableShape
<1>5. /\ Stored(item[1], item[2]) \in [status : {"none", "active", "expired", "cancelled"},
                                       version : Versions \cup {0}]
      /\ Stored(item[1], item[2]).version = item[2]
      /\ Stored(item[1], item[2]).status = "active" \/ Lapsed(item[2], day)
  BY <1>4 DEF Stored
<1>6. FeedsOf(kind)' = FeedsOf(kind) /\ \A w \in Warnings : Announced(w)' = Announced(w)
  BY <1>2 DEF Announced
<1>7. TableShape'
  <2>1. table' \in [Warnings -> [status : {"none", "active", "expired", "cancelled"},
                                 version : Versions \cup {0}]]
        /\ \A w \in Warnings : table'[w].status = "active" => table'[w].version \in Versions
    BY <1>1, <1>4, <1>5 DEF Settling, SettleInv, TableShape
  <2> QED BY <1>2, <1>3, <1>6, <2>1 DEF Settling, SettleInv, TableShape
<1>8. CASE quiet' = FALSE
  BY <1>7, <1>8, DisturbedStep
<1>9. CASE table' = [table EXCEPT ![item[1]] = Stored(item[1], item[2])] /\ UNCHANGED quiet
  <2>1. GotIsAnnounced'
    BY <1>2, <1>3, <1>6, <1>9 DEF Settling, SettleInv, GotIsAnnounced
  <2>2. KeysAreAnnounced'
    BY <1>2, <1>3, <1>6, <1>9
       DEF Settling, SettleInv, KeysAreAnnounced, Unseen, PollInv, PollShape, SnapshotPolls
  <2>3. EmittedIsStored'
    <3>1. SUFFICES ASSUME quiet PROVE EmittedIsStored'
      BY <1>9 DEF EmittedIsStored
    <3>2. item[2] = provider[item[1]]
      BY <1>2, <3>1 DEF Settling, SettleInv, EmittedIsStored
    <3>3. ASSUME NEW w \in poll.keys
          PROVE  \/ <<w, provider[w]>> \in poll'.todo
                 \/ /\ table'[w].version = provider[w]
                    /\ table'[w].status = "active" \/ Lapsed(provider[w], day)
      <4>1. CASE w = item[1]
        <5>1. table'[w] = Stored(item[1], item[2])
          BY <1>4, <1>9, <4>1 DEF Settling, SettleInv, TableShape
        <5> QED BY <1>5, <3>2, <4>1, <5>1
      <4>2. CASE w # item[1]
        <5>1. table'[w] = table[w] /\ <<w, provider[w]>> # item
          BY <1>9, <4>2 DEF Settling, SettleInv, TableShape, PollInv, PollShape, SnapshotPolls
        <5> QED BY <1>2, <1>3, <3>1, <3>3, <5>1 DEF Settling, SettleInv, EmittedIsStored
      <4> QED BY <4>1, <4>2
    <3>4. /\ \A i \in poll'.todo : i[1] \in poll.keys /\ i[2] = provider[i[1]]
          /\ \A w \in poll.keys : provider[w] \in Versions
      BY <1>2, <1>3, <3>1 DEF Settling, SettleInv, EmittedIsStored
    <3> QED BY <1>2, <1>3, <3>3, <3>4 DEF EmittedIsStored, Lapsed
  <2> QED BY <1>3, <1>7, <2>1, <2>2, <2>3 DEF SettleInv, AnnouncedIsGot, PagesAreRead, RestIsWithdrawn
<1> QED BY <1>1, <1>8, <1>9

LEMMA ReconcileSettles ==
    ASSUME Settling, ReconcileReads \/ PollSettled PROVE SettleInv'
<1>1. UNCHANGED <<kind, provider, table, day, quiet>>
  BY DEF ReconcileReads, PollSettled
<1>2. /\ \/ poll'.step = "cancel" /\ poll.step = "emit"
         \/ poll'.step = "settled" /\ poll.step = "cancel"
      /\ poll.complete /\ poll'.complete /\ poll'.todo = {} /\ poll.todo = {}
      /\ poll'.got = poll.got /\ poll'.unread = poll.unread /\ poll'.blank = poll.blank /\ poll'.left = poll.left
      /\ poll'.at = poll.at /\ poll'.keys = poll.keys
      /\ poll'.step = "settled" => poll'.gone = {} /\ poll.gone = {}
      /\ poll'.step = "cancel" =>
            \A w \in Warnings \ poll.keys :
               \/ w \in poll'.gone
               \/ table[w].status # "active"
               \/ Lapsed(table[w].version, poll.at)
  <2>1. CASE ReconcileReads
    <3> DEFINE gone == {w \in Warnings \ poll.keys :
                           table[w].status = "active" /\ ~ Lapsed(table[w].version, poll.at)}
    <3>1. /\ poll' = [poll EXCEPT !.step = "cancel", !.gone = gone]
          /\ poll.step = "emit" /\ poll.complete /\ poll.todo = {}
      BY <2>1 DEF ReconcileReads
    <3>2. \A w \in Warnings \ poll.keys :
             w \in gone \/ table[w].status # "active" \/ Lapsed(table[w].version, poll.at)
      OBVIOUS
    <3> HIDE DEF gone
    <3> QED BY <3>1, <3>2 DEF Settling, PollInv, PollShape, SnapshotPolls
  <2>2. CASE PollSettled
    BY <2>2 DEF PollSettled, Settling, PollInv, PollShape, SnapshotPolls, GoneIsAbsent, SettleInv, TableShape
  <2> QED BY <2>1, <2>2
<1>3. FeedsOf(kind)' = FeedsOf(kind) /\ \A w \in Warnings : Announced(w)' = Announced(w)
  BY <1>1 DEF Announced
<1>4. TableShape'
  BY <1>1, <1>2, <1>3 DEF Settling, SettleInv, TableShape
<1>5. GotIsAnnounced'
  BY <1>1, <1>2, <1>3 DEF Settling, SettleInv, GotIsAnnounced
<1>6. KeysAreAnnounced'
  BY <1>1, <1>2, <1>3 DEF Settling, SettleInv, KeysAreAnnounced, Unseen, PollInv, PollShape, SnapshotPolls
<1>7. EmittedIsStored'
  BY <1>1, <1>2 DEF Settling, SettleInv, EmittedIsStored, Lapsed
<1>8. RestIsWithdrawn'
  BY <1>1, <1>2 DEF Settling, SettleInv, RestIsWithdrawn, Lapsed
<1> QED BY <1>2, <1>4, <1>5, <1>6, <1>7, <1>8 DEF SettleInv, AnnouncedIsGot, PagesAreRead

LEMMA CancelSettles ==
    ASSUME Settling, CancelOne PROVE SettleInv'
<1>1. PICK w0 \in poll.gone :
        /\ poll' = [poll EXCEPT !.gone = @ \ {w0}]
        /\ \/ table' = [table EXCEPT ![w0].status = "cancelled"] /\ UNCHANGED quiet
           \/ UNCHANGED table /\ quiet' = FALSE
  BY DEF CancelOne
<1>2. poll.step = "cancel" /\ UNCHANGED <<kind, provider, day>>
  BY DEF CancelOne
<1>3. /\ poll'.step = "cancel" /\ poll'.todo = poll.todo /\ poll'.keys = poll.keys
      /\ poll'.got = poll.got /\ poll'.unread = poll.unread /\ poll'.blank = poll.blank /\ poll'.left = poll.left
      /\ poll'.at = poll.at /\ poll'.complete = poll.complete
      /\ poll'.gone = poll.gone \ {w0}
  BY <1>1, <1>2 DEF Settling, PollInv, PollShape, SnapshotPolls
<1>4. w0 \in Warnings /\ w0 \notin poll.keys
  BY <1>2 DEF Settling, PollInv, PollShape, SnapshotPolls, GoneIsAbsent
<1>5. FeedsOf(kind)' = FeedsOf(kind) /\ \A w \in Warnings : Announced(w)' = Announced(w)
  BY <1>2 DEF Announced
<1>6. TableShape'
  <2>1. table' \in [Warnings -> [status : {"none", "active", "expired", "cancelled"},
                                 version : Versions \cup {0}]]
        /\ \A w \in Warnings : table'[w].status = "active" => table'[w].version \in Versions
    BY <1>1, <1>4 DEF Settling, SettleInv, TableShape
  <2> QED BY <1>2, <1>3, <1>5, <2>1 DEF Settling, SettleInv, TableShape
<1>7. CASE quiet' = FALSE
  BY <1>6, <1>7, DisturbedStep
<1>8. CASE table' = [table EXCEPT ![w0].status = "cancelled"] /\ UNCHANGED quiet
  <2>1. /\ table'[w0].status = "cancelled"
        /\ \A w \in Warnings \ {w0} : table'[w] = table[w]
    BY <1>4, <1>8 DEF Settling, SettleInv, TableShape
  <2>2. GotIsAnnounced'
    BY <1>2, <1>3, <1>5, <1>8 DEF Settling, SettleInv, GotIsAnnounced
  <2>3. KeysAreAnnounced'
    BY <1>2, <1>3, <1>5, <1>8 DEF Settling, SettleInv, KeysAreAnnounced, Unseen, PollInv, PollShape, SnapshotPolls
  <2>4. \A w \in poll.keys : w \in Warnings /\ table'[w] = table[w]
    BY <1>4, <2>1 DEF Settling, PollInv, PollShape, SnapshotPolls
  <2>5. EmittedIsStored'
    BY <1>2, <1>3, <1>8, <2>4 DEF Settling, SettleInv, EmittedIsStored, Lapsed
  <2>6. RestIsWithdrawn'
    BY <1>2, <1>3, <1>8, <2>1 DEF Settling, SettleInv, RestIsWithdrawn, Lapsed
  <2> QED BY <1>3, <1>6, <2>2, <2>3, <2>5, <2>6 DEF SettleInv, AnnouncedIsGot, PagesAreRead
<1> QED BY <1>1, <1>7, <1>8

LEMMA BesideSettles ==
    ASSUME Settling, DayPasses \/ \E w \in Warnings : ProviderEdits(w) \/ Expire(w)
    PROVE  SettleInv'
<1>1. UNCHANGED <<kind, poll>> /\ FeedsOf(kind)' = FeedsOf(kind)
  BY DEF DayPasses, ProviderEdits, Expire
<1>2. ASSUME NEW w \in Warnings, ProviderEdits(w) PROVE SettleInv'
  <2>1. UNCHANGED <<table, day>> /\ ~ quiet'
    BY <1>2 DEF ProviderEdits
  <2>2. TableShape'
    BY <1>1, <2>1 DEF Settling, SettleInv, TableShape
  <2> QED BY <2>1, <2>2, DisturbedStep
<1>3. CASE DayPasses
  <2>1. UNCHANGED <<provider, table, quiet>> /\ day' = day + 1 /\ day \in Nat /\ poll.at \in Nat
    BY <1>3 DEF DayPasses, Settling, PollInv, PollShape, SnapshotPolls
  <2>2. TableShape'
    BY <1>1, <2>1 DEF Settling, SettleInv, TableShape
  <2>3. /\ GotIsAnnounced' /\ AnnouncedIsGot' /\ PagesAreRead' /\ KeysAreAnnounced'
        /\ RestIsWithdrawn'
    BY <1>1, <2>1 DEF Settling, SettleInv, GotIsAnnounced, AnnouncedIsGot, PagesAreRead,
                      KeysAreAnnounced, RestIsWithdrawn, Announced, Lapsed, Unseen, Register
  <2>4. \A v \in Versions : Lapsed(v, day) => Lapsed(v, day')
    BY <2>1, LapsedStays
  <2>5. EmittedIsStored'
    BY <1>1, <2>1, <2>4 DEF Settling, SettleInv, EmittedIsStored
  <2> QED BY <2>2, <2>3, <2>5 DEF SettleInv
<1>4. ASSUME NEW w0 \in Warnings, Expire(w0) PROVE SettleInv'
  <2>1. /\ UNCHANGED <<provider, day, quiet>> /\ table[w0].status = "active"
        /\ Lapsed(table[w0].version, day)
        /\ table' = [table EXCEPT ![w0].status = "expired"]
    BY <1>4 DEF Expire
  <2>2. /\ table'[w0].status = "expired" /\ table'[w0].version = table[w0].version
        /\ \A w \in Warnings \ {w0} : table'[w] = table[w]
    BY <2>1 DEF Settling, SettleInv, TableShape
  <2>3. TableShape'
    <3>1. table' \in [Warnings -> [status : {"none", "active", "expired", "cancelled"},
                                   version : Versions \cup {0}]]
          /\ \A w \in Warnings : table'[w].status = "active"
                                 => table'[w].version \in Versions
      BY <2>1 DEF Settling, SettleInv, TableShape
    <3> QED BY <1>1, <2>1, <3>1 DEF Settling, SettleInv, TableShape
  <2>4. GotIsAnnounced' /\ AnnouncedIsGot' /\ PagesAreRead' /\ KeysAreAnnounced'
    BY <1>1, <2>1 DEF Settling, SettleInv, GotIsAnnounced, AnnouncedIsGot, PagesAreRead,
                      KeysAreAnnounced, Announced, Unseen, Register
  <2>5. EmittedIsStored'
    <3>1. \A w \in poll.keys : w \in Warnings
      BY DEF Settling, PollInv, PollShape, SnapshotPolls
    <3> QED BY <1>1, <2>1, <2>2, <3>1 DEF Settling, SettleInv, EmittedIsStored, Lapsed
  <2>6. RestIsWithdrawn'
    BY <1>1, <2>1, <2>2 DEF Settling, SettleInv, RestIsWithdrawn, Lapsed
  <2> QED BY <2>3, <2>4, <2>5, <2>6 DEF SettleInv
<1> QED BY <1>2, <1>3, <1>4

(* After a complete poll in which nothing changed or failed, the active rows    *)
(* are what the provider announces in scope on the feeds the source reads, at   *)
(* its version, whatever the expiration worker did meanwhile                    *)
(* (ingestCombined, reconcile).                                                 *)
THEOREM QuietPollSettles == SourcesSpec => []CompletePollSettles
<1>1. SourcesInit => SettleInv
  <2>1. SUFFICES ASSUME SourcesInit PROVE SettleInv
    OBVIOUS
  <2>2. TableShape
    BY <2>1 DEF SourcesInit, TableShape, NoPoll, NoRow
  <2>3. poll.step = "idle"
    BY <2>1 DEF SourcesInit, NoPoll
  <2> QED BY <2>2, <2>3 DEF SettleInv, GotIsAnnounced, AnnouncedIsGot, PagesAreRead,
                            KeysAreAnnounced, EmittedIsStored, RestIsWithdrawn
<1>2. PollInv /\ PollInv' /\ SettleInv /\ [SourcesNext]_sourceVars => SettleInv'
  <2>1. SUFFICES ASSUME Settling, [SourcesNext]_sourceVars PROVE SettleInv'
    BY DEF Settling
  <2>2. CASE UNCHANGED sourceVars
    <3>1. UNCHANGED <<kind, provider, table, poll, day, quiet>>
      BY <2>2 DEF sourceVars
    <3> QED BY <2>1, <3>1
            DEF Settling, SettleInv, TableShape, GotIsAnnounced, AnnouncedIsGot,
                PagesAreRead, KeysAreAnnounced, EmittedIsStored, RestIsWithdrawn,
                Announced, Lapsed, Unseen, Register
  <2> QED BY <2>1, <2>2, BoundSettles, FetchSettles, CombineSettles, EmitSettles,
             ReconcileSettles, CancelSettles, BesideSettles DEF SourcesNext
<1>3. PollInv /\ SettleInv => CompletePollSettles
  <2>1. SUFFICES ASSUME PollInv, SettleInv, poll.step = "settled", quiet,
                        NEW w \in Warnings \ Unseen
                 PROVE  \/ Announced(w) /\ Lapsed(provider[w], day)
                        \/ table[w].status = "active" /\ Lapsed(table[w].version, day)
                        \/ /\ (table[w].status = "active") <=> Announced(w)
                           /\ Announced(w) => table[w].version = provider[w]
    BY DEF CompletePollSettles, Unseen
  <2>2. poll.complete /\ poll.gone = {} /\ poll.todo = {}
    BY <2>1 DEF SettleInv, TableShape
  <2>3. CASE Announced(w)
    <3>1. w \in poll.keys
      BY <2>1, <2>2, <2>3 DEF SettleInv, KeysAreAnnounced
    <3>2. /\ table[w].version = provider[w]
          /\ table[w].status = "active" \/ Lapsed(provider[w], day)
      BY <2>1, <2>2, <3>1 DEF SettleInv, EmittedIsStored
    <3> QED BY <2>3, <3>2
  <2>4. CASE ~ Announced(w)
    <3>1. w \notin poll.keys
      BY <2>1, <2>2, <2>4 DEF SettleInv, KeysAreAnnounced
    <3>2. table[w].status # "active" \/ Lapsed(table[w].version, poll.at)
      BY <2>1, <2>2, <3>1 DEF SettleInv, RestIsWithdrawn
    <3>3. CASE table[w].status # "active"
      BY <2>4, <3>3
    <3>4. CASE table[w].status = "active"
      <4>1. /\ table[w].version \in Versions /\ poll.at \in Nat /\ day \in Nat
            /\ poll.at <= day
        BY <2>1, <3>4 DEF SettleInv, TableShape, PollInv, PollShape, SnapshotPolls
      <4> QED BY <3>2, <3>4, <4>1, LapsedStays
    <3> QED BY <3>3, <3>4
  <2> QED BY <2>3, <2>4
<1> QED BY <1>1, <1>2, <1>3, PollInvAlways, PTL DEF SourcesSpec

-----------------------------------------------------------------------------
(***************************************************************************)
(* A notification on its way through a channel.                            *)
(***************************************************************************)
ChanShape ==
    /\ channel \in ChannelKinds /\ members \in MemberLists
    /\ rest \subseteq Targets /\ faulty \in BOOLEAN
    /\ tries \in Nat /\ inbox \in [Boxes -> Nat]

Serving == stage \in {"open", "next", "pacing", "mail", "rcpt", "data"}
Posting == channel \in {"webhook", "discord"}

(* Who has to be there at a step is there.                                    *)
SomeoneIsDue ==
    /\ stage \in {"pacing", "mail", "rcpt", "data"} => rest # {}
    /\ stage = "open" /\ channel = "direct" => rest # {}
    /\ Posting => stage \in {"ready", "next", "over"} /\ (stage = "next" => rest = Targets)

(* No address has more than one message of an attempt: whoever is still to be *)
(* served has none of this one.                                               *)
OnePerAttempt ==
    /\ \A a \in Boxes : inbox[a] <= tries
    /\ Serving => \A i \in rest : inbox[Box(i)] < tries

(* As long as no error is collected, whoever is no longer to be served has it.*)
ServedSoFar ==
    /\ Serving /\ ~ faulty => \A i \in Targets \ rest : inbox[Box(i)] > 0
    /\ stage \in {"quit", "over"} /\ ~ faulty => \A i \in Targets : inbox[Box(i)] > 0
    /\ verdict = "delivered" => \A i \in Targets : inbox[Box(i)] > 0

ChanInv == ChanShape /\ SomeoneIsDue /\ OnePerAttempt /\ ServedSoFar
LEMMA FirstDue ==
  ASSUME NEW S \in SUBSET Nat, S # {}
  PROVE  Min(S) \in S
<1> DEFINE R == {p \in Nat \X Nat : p[1] < p[2]}
<1>1. IsWellFoundedOn(R, Nat)
  BY NatLessThanWellFounded, Zenon DEF OpToRel
<1>2. \A i, j \in Nat : <<j, i>> \notin R => i <= j
  OBVIOUS
<1> HIDE DEF R
<1>3. PICK i \in S : \A j \in S : i <= j
  BY <1>1, <1>2, WFMin
<1> QED
  BY <1>3, Zenon DEF Min

\* Of each address one spelling is served.
LEMMA TargetFacts ==
  ASSUME ChanShape
  PROVE  /\ Targets \subseteq Nat /\ \A i \in Targets : Box(i) \in Boxes
         /\ \A i, j \in Targets : Box(i) = Box(j) => i = j
         /\ Posting \/ channel = "direct" => Targets = {1}
<1>1. Addresses \in Seq(DOMAIN Lower)
  <2>1. CASE channel \in {"smtp", "aprs"}
    <3>1. Configured \in Seq(DOMAIN Lower) /\ members \in Seq(DOMAIN Lower)
      BY ChannelsAssumption DEF ChanShape
    <3>2. Configured \o members \in Seq(DOMAIN Lower)
      BY <3>1
    <3> QED BY <2>1, <3>2 DEF Addresses
  <2>2. CASE channel \notin {"smtp", "aprs"}
    <3>1. Configured \in Seq(DOMAIN Lower) /\ Configured # <<>>
      BY <2>2, ChannelsAssumption DEF ChanShape
    <3>2. <<Head(Configured)>> \in Seq(DOMAIN Lower)
      BY <3>1
    <3> QED BY <2>2, <3>2 DEF Addresses
  <2> QED BY <2>1, <2>2
<1>2. Targets \subseteq DOMAIN Addresses /\ DOMAIN Addresses \subseteq Nat
  BY <1>1 DEF Targets
<1>3. ASSUME NEW i \in Targets PROVE Box(i) \in Boxes
  BY <1>1, <1>2 DEF Box, Boxes
<1>4. ASSUME NEW i \in Targets, NEW j \in Targets, Box(i) = Box(j), i < j PROVE FALSE
  <2>1. i \in 1 .. j - 1
    BY <1>1, <1>2, <1>4
  <2>2. \A k \in 1 .. j - 1 : Box(k) # Box(j)
    BY DEF Targets
  <2> QED BY <1>4, <2>1, <2>2
<1>5. ASSUME NEW i \in Targets, NEW j \in Targets, Box(i) = Box(j) PROVE i = j
  <2>1. i < j \/ j < i \/ i = j
    BY <1>2
  <2> QED BY <1>4, <1>5, <2>1
<1>6. Posting \/ channel = "direct" => Targets = {1}
  <2> SUFFICES ASSUME Posting \/ channel = "direct" PROVE Targets = {1}
    OBVIOUS
  <2>1. Addresses = <<Head(Configured)>>
    BY DEF Posting, Addresses
  <2>2. DOMAIN Addresses = {1}
    BY <2>1
  <2>3. \A j \in 1 .. 1 - 1 : FALSE
    OBVIOUS
  <2> QED BY <2>2, <2>3 DEF Targets
<1> QED
  BY <1>2, <1>3, <1>5, <1>6

\* One address has one message more.
LEMMA ServedFacts ==
  ASSUME ChanInv, rest # {}
  PROVE  /\ DueNext \in rest /\ Served \in [Boxes -> Nat]
         /\ Served[Box(DueNext)] = inbox[Box(DueNext)] + 1
         /\ \A a \in Boxes : a # Box(DueNext) => Served[a] = inbox[a]
         /\ \A j \in Targets \ {DueNext} : Served[Box(j)] = inbox[Box(j)]
<1>1. DueNext \in rest /\ DueNext \in Targets
  BY TargetFacts, FirstDue DEF ChanInv, ChanShape, DueNext
<1>2. inbox \in [Boxes -> Nat] /\ \A j \in Targets : Box(j) \in Boxes
  BY TargetFacts DEF ChanInv, ChanShape
<1>3. PICK b \in Boxes : b = Box(DueNext)
  BY <1>1, <1>2
<1>4. Served = [inbox EXCEPT ![b] = inbox[b] + 1]
  BY <1>3 DEF Served
<1>5. \A j \in Targets : j # DueNext => Box(j) # b
  BY <1>1, <1>3, TargetFacts DEF ChanInv
<1> QED
  BY <1>1, <1>2, <1>3, <1>4, <1>5

\* What the steps of an attempt leave alone.
SameCall == UNCHANGED <<channel, members, tries, verdict>>
\* An error that was collected is kept.
ErrorStays == faulty' = faulty \/ faulty' = TRUE
\* A batch without an error ends when there is nobody left.
EndsWhenThrough ==
    stage' \in {"quit", "over"} /\ ~ faulty' => stage \in {"quit", "over"} \/ (Serving /\ rest = {})

LEMMA ErrorIsBoolean ==
  ASSUME ChanInv, ErrorStays
  PROVE  faulty' \in BOOLEAN /\ (faulty => faulty')
<1>1. faulty \in BOOLEAN
  BY DEF ChanInv, ChanShape
<1>2. CASE faulty' = faulty
  BY <1>1, <1>2
<1>3. CASE faulty' = TRUE
  BY <1>3
<1> QED
  BY <1>2, <1>3 DEF ErrorStays

LEMMA SameTargets ==
  ASSUME SameCall
  PROVE  /\ Targets' = Targets /\ \A i : Box(i)' = Box(i)
         /\ Posting' = Posting
BY DEF SameCall, Targets, Box, Addresses, Posting

LEMMA NobodyServed ==
  ASSUME ChanInv, SameCall, inbox' = inbox, rest' = rest, ErrorStays,
         Serving' => Serving, EndsWhenThrough, SomeoneIsDue'
  PROVE  ChanInv'
<1>1. /\ Targets' = Targets /\ \A i : Box(i)' = Box(i)
      /\ UNCHANGED <<channel, members, tries, verdict, inbox, rest>>
  BY SameTargets DEF SameCall
<1>2. ChanShape'
  <2>1. /\ channel \in ChannelKinds /\ members \in MemberLists /\ rest \subseteq Targets
        /\ tries \in Nat /\ inbox \in [Boxes -> Nat]
    BY DEF ChanInv, ChanShape
  <2>2. rest' \subseteq Targets'
    BY <1>1, <2>1
  <2> QED BY <1>1, <2>1, <2>2, ErrorIsBoolean DEF ChanShape, Boxes
<1>3. OnePerAttempt'
  BY <1>1 DEF ChanInv, OnePerAttempt, Boxes
<1>4. ServedSoFar'
  <2>1. \A i \in Targets' : inbox'[Box(i)'] = inbox[Box(i)]
    BY <1>1
  <2>2. ASSUME Serving', ~ faulty' PROVE \A i \in Targets \ rest : inbox[Box(i)] > 0
    BY <2>2, ErrorIsBoolean DEF ChanInv, ServedSoFar
  <2>3. ASSUME stage' \in {"quit", "over"}, ~ faulty' PROVE \A i \in Targets : inbox[Box(i)] > 0
    BY <2>3, ErrorIsBoolean DEF ChanInv, ServedSoFar, EndsWhenThrough
  <2>4. verdict = "delivered" => \A i \in Targets : inbox[Box(i)] > 0
    BY DEF ChanInv, ServedSoFar
  <2> QED BY <1>1, <2>1, <2>2, <2>3, <2>4 DEF ServedSoFar
<1> QED
  BY <1>2, <1>3, <1>4 DEF ChanInv

LEMMA OneSkipped ==
  ASSUME ChanInv, SameCall, inbox' = inbox, rest' = rest \ {DueNext}, faulty' = TRUE,
         Serving, stage' = "next", ~ Posting
  PROVE  ChanInv'
<1>1. /\ Targets' = Targets /\ \A i : Box(i)' = Box(i)
      /\ UNCHANGED <<channel, members, tries, verdict, inbox>> /\ Posting' = Posting
  BY SameTargets DEF SameCall
<1>2. rest' \subseteq rest
  OBVIOUS
<1>3. ChanShape'
  <2>1. /\ channel \in ChannelKinds /\ members \in MemberLists /\ rest \subseteq Targets
        /\ tries \in Nat /\ inbox \in [Boxes -> Nat]
    BY DEF ChanInv, ChanShape
  <2>2. rest' \subseteq Targets'
    BY <1>1, <1>2, <2>1
  <2> QED BY <1>1, <2>1, <2>2 DEF ChanShape, Boxes
<1>4. OnePerAttempt'
  BY <1>1, <1>2 DEF ChanInv, OnePerAttempt, Boxes
<1>5. ServedSoFar' /\ SomeoneIsDue'
  BY <1>1 DEF ChanInv, ServedSoFar, SomeoneIsDue
<1> QED
  BY <1>3, <1>4, <1>5 DEF ChanInv

LEMMA OneServed ==
  ASSUME ChanInv, SameCall, inbox' = Served, ErrorStays,
         Serving, rest # {},
         \/ rest' = rest \ {DueNext} /\ stage' = "next" /\ ~ Posting
         \/ rest' = rest /\ stage' = "over" /\ (faulty' \/ rest = {DueNext})
  PROVE  ChanInv'
<1>1. /\ Targets' = Targets /\ \A i : Box(i)' = Box(i)
      /\ UNCHANGED <<channel, members, tries, verdict>> /\ Posting' = Posting
  BY SameTargets DEF SameCall
<1>2. /\ DueNext \in rest /\ Served \in [Boxes -> Nat]
      /\ Served[Box(DueNext)] = inbox[Box(DueNext)] + 1
      /\ \A a \in Boxes : a # Box(DueNext) => Served[a] = inbox[a]
      /\ \A j \in Targets \ {DueNext} : Served[Box(j)] = inbox[Box(j)]
  BY ServedFacts
<1>3. /\ rest \subseteq Targets /\ inbox \in [Boxes -> Nat] /\ tries \in Nat
      /\ \A i \in Targets : Box(i) \in Boxes
  BY TargetFacts DEF ChanInv, ChanShape
<1>4. PICK i \in Targets : i = DueNext
  BY <1>2, <1>3
<1>5. ChanShape'
  <2>1. channel \in ChannelKinds /\ members \in MemberLists
    BY DEF ChanInv, ChanShape
  <2>2. rest' \subseteq Targets'
    BY <1>1, <1>3
  <2> QED BY <1>1, <1>2, <1>3, <2>1, <2>2, ErrorIsBoolean DEF ChanShape, Boxes
<1>6. OnePerAttempt'
  <2>1. inbox[Box(i)] < tries /\ \A a \in Boxes : inbox[a] <= tries
    BY <1>2, <1>4 DEF ChanInv, OnePerAttempt
  <2>2. \A a \in Boxes : Served[a] <= tries
    BY <1>2, <1>3, <1>4, <2>1
  <2>3. ASSUME stage' = "next", NEW j \in rest' PROVE Served[Box(j)] < tries
    <3>1. j \in rest /\ j # i /\ j \in Targets
      BY <1>3, <1>4, <2>3
    <3> QED BY <1>2, <1>4, <3>1 DEF ChanInv, OnePerAttempt
  <2>4. Serving' => stage' = "next"
    BY DEF Serving
  <2> QED BY <1>1, <2>2, <2>3, <2>4 DEF OnePerAttempt, Boxes
<1>7. ServedSoFar'
  <2>1. \A j \in Targets : inbox[Box(j)] > 0 => Served[Box(j)] > 0
    BY <1>2, <1>3
  <2>2. Served[Box(i)] > 0
    BY <1>2, <1>3, <1>4
  <2>3. ASSUME ~ faulty', NEW j \in Targets, j \notin rest \/ j = i PROVE Served[Box(j)] > 0
    <3>1. ~ faulty
      BY <2>3, ErrorIsBoolean
    <3> QED BY <2>1, <2>2, <2>3, <3>1 DEF ChanInv, ServedSoFar
  <2>4. CASE rest' = rest \ {DueNext} /\ stage' = "next"
    <3>1. verdict = "delivered" => \A j \in Targets : Served[Box(j)] > 0
      BY <2>1 DEF ChanInv, ServedSoFar
    <3>2. ~ faulty' => \A j \in Targets \ rest' : Served[Box(j)] > 0
      BY <1>4, <2>3, <2>4
    <3> QED BY <1>1, <2>4, <3>1, <3>2 DEF ServedSoFar
  <2>5. CASE stage' = "over" /\ (faulty' \/ rest = {DueNext})
    <3>1. verdict = "delivered" => \A j \in Targets : Served[Box(j)] > 0
      BY <2>1 DEF ChanInv, ServedSoFar
    <3>2. ~ faulty' => \A j \in Targets : Served[Box(j)] > 0
      BY <1>4, <2>3, <2>5
    <3> QED BY <1>1, <2>5, <3>1, <3>2 DEF ServedSoFar, Serving
  <2> QED BY <2>4, <2>5
<1>8. SomeoneIsDue'
  BY <1>1 DEF ChanInv, SomeoneIsDue
<1> QED
  BY <1>5, <1>6, <1>7, <1>8 DEF ChanInv

LEMMA AttemptBegins == ChanInv /\ ExecuteStarts => ChanInv'
<1> SUFFICES ASSUME ChanInv, ExecuteStarts PROVE ChanInv'
  OBVIOUS
<1>1. /\ UNCHANGED <<channel, members, inbox, verdict>> /\ tries' = tries + 1 /\ rest' = Targets
      /\ faulty' = (channel = "smtp" /\ Targets = {}) /\ verdict = ""
      /\ stage' = IF faulty' THEN "over"
                  ELSE IF channel \in {"smtp", "direct"} THEN "open" ELSE "next"
  BY DEF ExecuteStarts
<1>2. Targets' = Targets /\ (\A i : Box(i)' = Box(i)) /\ Posting' = Posting
  BY <1>1 DEF Targets, Box, Addresses, Posting
<1>3. ChanShape'
  <2>1. /\ channel \in ChannelKinds /\ members \in MemberLists
        /\ tries + 1 \in Nat /\ inbox \in [Boxes -> Nat]
    BY DEF ChanInv, ChanShape
  <2>2. faulty' \in BOOLEAN
    BY <1>1, Zenon
  <2>3. rest' \subseteq Targets'
    BY <1>1, <1>2
  <2> QED BY <1>1, <2>1, <2>2, <2>3 DEF ChanShape, Boxes
<1>4. OnePerAttempt'
  <2>1. tries \in Nat /\ inbox \in [Boxes -> Nat] /\ \A i \in Targets : Box(i) \in Boxes
    BY TargetFacts DEF ChanInv, ChanShape
  <2>2. \A a \in Boxes : inbox[a] < tries + 1
    BY <2>1 DEF ChanInv, OnePerAttempt
  <2>3. \A a \in Boxes : inbox[a] <= tries + 1
    BY <2>1, <2>2
  <2> QED BY <1>1, <1>2, <2>1, <2>2, <2>3 DEF OnePerAttempt, Boxes
<1>5. ServedSoFar'
  BY <1>1, <1>2 DEF ChanInv, ServedSoFar
<1>6. SomeoneIsDue'
  <2>1. Posting => channel \notin {"smtp", "direct"}
    BY DEF Posting
  <2>2. channel = "direct" => Targets # {}
    BY TargetFacts DEF ChanInv
  <2> QED BY <1>1, <1>2, <2>1, <2>2 DEF SomeoneIsDue
<1> QED
  BY <1>3, <1>4, <1>5, <1>6 DEF ChanInv

LEMMA AttemptIsReported == ChanInv /\ AttemptEnds => ChanInv'
<1> SUFFICES ASSUME ChanInv, AttemptEnds PROVE ChanInv'
  OBVIOUS
<1>1. /\ UNCHANGED <<channel, members, rest, faulty, tries, inbox>>
      /\ stage = "over" /\ stage' = "ready" /\ (verdict' = "delivered" => ~ faulty)
  BY DEF AttemptEnds, ChanInv, ChanShape
<1>2. Targets' = Targets /\ (\A i : Box(i)' = Box(i)) /\ Posting' = Posting
  BY <1>1 DEF Targets, Box, Addresses, Posting
<1>3. ChanShape' /\ OnePerAttempt' /\ SomeoneIsDue'
  BY <1>1, <1>2 DEF ChanInv, ChanShape, OnePerAttempt, SomeoneIsDue, Boxes, Serving
<1>4. ServedSoFar'
  BY <1>1, <1>2 DEF ChanInv, ServedSoFar, Serving
<1> QED
  BY <1>3, <1>4 DEF ChanInv

LEMMA TransactionsKeep == ChanInv /\ (RcptTo \/ EndOfData) => ChanInv'
<1> SUFFICES ASSUME ChanInv, RcptTo \/ EndOfData PROVE ChanInv'
  OBVIOUS
<1>1. SameCall /\ Serving /\ stage \in {"rcpt", "data"}
  BY DEF SameCall, RcptTo, EndOfData, Serving
<1>2. rest # {} /\ ~ Posting /\ faulty \in BOOLEAN
  BY <1>1 DEF ChanInv, SomeoneIsDue, ChanShape
<1>3. ASSUME StepFails, inbox' = inbox PROVE ChanInv'
  <2>1. CASE channel = "direct"
    <3>1. faulty' = TRUE /\ stage' = "over" /\ rest' = rest
      BY <1>3, <2>1 DEF StepFails
    <3>2. SomeoneIsDue'
      BY <1>1, <1>2, <3>1, SameTargets DEF SomeoneIsDue
    <3>3. ErrorStays /\ EndsWhenThrough /\ ~ Serving'
      BY <3>1 DEF ErrorStays, EndsWhenThrough, Serving
    <3> QED BY <1>1, <1>3, <3>1, <3>2, <3>3, NobodyServed
  <2>2. CASE channel # "direct"
    <3>1. faulty' = TRUE /\ stage' = "next" /\ rest' = rest \ {DueNext}
      BY <1>1, <1>3, <2>2 DEF StepFails, NextOne
    <3> QED BY <1>1, <1>2, <1>3, <3>1, OneSkipped
  <2> QED BY <2>1, <2>2
<1>4. ASSUME StepFails, inbox' = Served PROVE ChanInv'
  <2>1. \/ faulty' = TRUE /\ stage' = "over" /\ rest' = rest
        \/ faulty' = TRUE /\ stage' = "next" /\ rest' = rest \ {DueNext}
    BY <1>1, <1>4 DEF StepFails, NextOne
  <2>2. ErrorStays
    BY <2>1 DEF ErrorStays
  <2> QED BY <1>1, <1>2, <1>4, <2>1, <2>2, OneServed
<1>5. ASSUME NextOne, faulty' = faulty, inbox' = Served PROVE ChanInv'
  BY <1>1, <1>2, <1>5, OneServed DEF NextOne, ErrorStays
<1>6. ASSUME stage' \in {"data", "quit", "over"}, rest' = rest, inbox' = inbox,
             (stage' = "data" /\ faulty' = faulty) \/ faulty' = TRUE
      PROVE  ChanInv'
  <2>1. SomeoneIsDue'
    BY <1>1, <1>2, <1>6, SameTargets DEF SomeoneIsDue, SameCall
  <2>2. ErrorStays
    BY <1>6 DEF ErrorStays
  <2>3. EndsWhenThrough /\ (Serving' => Serving)
    BY <1>1, <1>6 DEF EndsWhenThrough
  <2> QED BY <1>1, <1>6, <2>1, <2>2, <2>3, NobodyServed
<1>7. CASE RcptTo
  BY <1>3, <1>6, <1>7 DEF RcptTo, GoesOn
<1>8. CASE EndOfData
  BY <1>3, <1>4, <1>5, <1>6, <1>8 DEF EndOfData, Fails
<1> QED
  BY <1>7, <1>8

LEMMA PostsKeep == ASSUME NEW k \in {"webhook", "discord"} PROVE ChanInv /\ Posts(k) => ChanInv'
<1> SUFFICES ASSUME ChanInv, Posts(k) PROVE ChanInv'
  OBVIOUS
<1>1. /\ SameCall /\ Serving /\ Posting /\ stage = "next" /\ stage' = "over" /\ rest' = rest
      /\ \/ inbox' = Served /\ faulty' = faulty
         \/ inbox' \in {inbox, Served} /\ faulty' = TRUE
  BY DEF Posts, SameCall, Serving, Posting, GoesOn, Fails
<1>2. rest = {1} /\ faulty \in BOOLEAN
  BY <1>1, TargetFacts DEF ChanInv, SomeoneIsDue, ChanShape
<1>3. DueNext = 1
  BY <1>2, ServedFacts
<1>4. CASE inbox' = Served
  <2>1. ErrorStays
    BY <1>1 DEF ErrorStays
  <2>2. rest # {} /\ rest = {DueNext}
    BY <1>2, <1>3
  <2> QED BY <1>1, <1>4, <2>1, <2>2, OneServed
<1>5. CASE inbox' = inbox /\ faulty' = TRUE
  <2>1. SomeoneIsDue'
    BY <1>1, SameTargets DEF SomeoneIsDue
  <2>2. ErrorStays /\ EndsWhenThrough /\ ~ Serving'
    BY <1>1, <1>5 DEF ErrorStays, EndsWhenThrough, Serving
  <2> QED BY <1>1, <1>5, <2>1, <2>2, NobodyServed
<1> QED
  BY <1>1, <1>4, <1>5

LEMMA AprsSendsKeeps == ChanInv /\ AprsSends => ChanInv'
<1> SUFFICES ASSUME ChanInv, AprsSends PROVE ChanInv'
  OBVIOUS
<1>1. /\ SameCall /\ Serving /\ ~ Posting /\ rest # {} /\ stage' = "next"
      /\ rest' = rest \ {DueNext}
      /\ \/ inbox' = Served /\ faulty' = faulty
         \/ inbox' \in {inbox, Served} /\ faulty' = TRUE
  BY DEF AprsSends, SameCall, Serving, Posting, NextOne
<1>2. faulty \in BOOLEAN
  BY DEF ChanInv, ChanShape
<1>3. CASE inbox' = Served
  <2>1. ErrorStays
    BY <1>1 DEF ErrorStays
  <2> QED BY <1>1, <1>3, <2>1, OneServed
<1>4. CASE inbox' = inbox /\ faulty' = TRUE
  BY <1>1, <1>4, OneSkipped
<1> QED
  BY <1>1, <1>3, <1>4

LEMMA ChanKeeps == ChanInv /\ [ChanNext]_chanVars => ChanInv'
<1> SUFFICES ASSUME ChanInv, [ChanNext]_chanVars PROVE ChanInv'
  OBVIOUS
\* Steps that serve nobody and skip nobody, from one stage to another.
<1>2. ASSUME SameCall, inbox' = inbox, rest' = rest, ~ Posting, Serving,
             \/ stage' = stage /\ faulty' = faulty
             \/ /\ faulty' = faulty
                /\ \/ stage = "open" /\ channel = "smtp" /\ stage' = "next"
                   \/ stage = "open" /\ channel = "direct" /\ stage' = "mail"
                   \/ stage = "next" /\ rest # {} /\ stage' \in {"pacing", "mail"}
                   \/ stage = "pacing" /\ stage' = "mail"
                   \/ stage = "mail" /\ stage' = "rcpt"
                   \/ stage = "next" /\ rest = {} /\ stage' \in {"quit", "over"}
             \/ stage' \in {"quit", "over"} /\ faulty' = TRUE
      PROVE  ChanInv'
  <2>1. SomeoneIsDue'
    BY <1>2, SameTargets DEF ChanInv, SomeoneIsDue, SameCall
  <2>2. Serving' => Serving
    BY <1>2
  <2>3. EndsWhenThrough
    BY <1>2 DEF EndsWhenThrough, Serving
  <2>4. ErrorStays
    BY <1>2 DEF ErrorStays
  <2> QED BY <1>2, <2>1, <2>2, <2>3, <2>4, NobodyServed
<1>3. stage \in {"open", "pacing", "mail", "rcpt", "data"} \/ channel \in {"smtp", "aprs", "direct"}
         => ~ Posting
  BY DEF ChanInv, SomeoneIsDue, Posting
<1>4. CASE ExecuteStarts
  BY <1>4, AttemptBegins
<1>5. CASE AttemptEnds
  BY <1>5, AttemptIsReported
<1>6. CASE Tick \/ LineDrops \/ UNCHANGED chanVars
  <2>1. SameCall /\ UNCHANGED <<inbox, rest, stage, faulty>>
    BY <1>6 DEF Tick, LineDrops, chanVars, SameCall
  <2>2. SomeoneIsDue'
    BY <2>1, SameTargets DEF ChanInv, SomeoneIsDue, SameCall
  <2>3. Serving' = Serving
    BY <2>1 DEF Serving
  <2>4. ErrorStays
    BY <2>1 DEF ErrorStays
  <2>5. EndsWhenThrough
    BY <2>1 DEF EndsWhenThrough
  <2> QED BY <2>1, <2>2, <2>3, <2>4, <2>5, NobodyServed
<1>7. CASE OpensSession
  <2>1. SameCall /\ inbox' = inbox /\ Serving /\ ~ Posting
    BY <1>3, <1>7 DEF OpensSession, SameCall, Serving
  <2> QED BY <1>2, <1>7, <2>1 DEF OpensSession, GoesOn, Fails
<1>8. CASE DirectOpens
  <2>1. SameCall /\ inbox' = inbox /\ Serving /\ ~ Posting
    BY <1>3, <1>8 DEF DirectOpens, SameCall, Serving
  <2> QED BY <1>2, <1>8, <2>1 DEF DirectOpens, GoesOn, Fails
<1>9. CASE ClaimSlot
  <2>1. SameCall /\ inbox' = inbox /\ Serving /\ ~ Posting
    BY <1>3, <1>9 DEF ClaimSlot, SameCall, Serving
  <2>2. rest' = rest /\ faulty' = faulty /\ stage' \in {"pacing", "mail"}
        /\ stage = "next" /\ rest # {}
    BY <1>9 DEF ClaimSlot, GoesOn
  <2> QED BY <1>2, <2>1, <2>2
<1>10. CASE SlotArrives
  <2>1. SameCall /\ inbox' = inbox /\ Serving /\ ~ Posting
    BY <1>3, <1>10 DEF SlotArrives, SameCall, Serving
  <2> QED BY <1>2, <1>10, <2>1 DEF SlotArrives, GoesOn
<1>11. CASE WaitCancelled
  <2>1. SameCall /\ inbox' = inbox /\ Serving /\ ~ Posting
    BY <1>3, <1>11 DEF WaitCancelled, SameCall, Serving
  <2> QED BY <1>2, <1>11, <2>1 DEF WaitCancelled, Fails
<1>12. CASE MailFrom
  <2>1. SameCall /\ inbox' = inbox /\ Serving /\ ~ Posting
    BY <1>3, <1>12 DEF MailFrom, SameCall, Serving
  <2>2. /\ stage = "mail" /\ rest' = rest
        /\ \/ stage' = "rcpt" /\ faulty' = faulty
           \/ stage' \in {"quit", "over"} /\ faulty' = TRUE
    BY <1>12 DEF MailFrom, GoesOn, StepFails
  <2> QED BY <1>2, <2>1, <2>2
<1>13. CASE RcptTo \/ EndOfData
  BY <1>13, TransactionsKeep
<1>14. CASE BatchDone
  <2>1. SameCall /\ inbox' = inbox /\ Serving /\ ~ Posting
    BY <1>3, <1>14 DEF BatchDone, SameCall, Serving
  <2> QED BY <1>2, <1>14, <2>1 DEF BatchDone, GoesOn
<1>15. CASE AllSent
  <2>1. SameCall /\ inbox' = inbox /\ Serving /\ ~ Posting
    BY <1>3, <1>15 DEF AllSent, SameCall, Serving
  <2> QED BY <1>2, <1>15, <2>1 DEF AllSent, GoesOn
<1>16. CASE Quits
  <2>1. /\ SameCall /\ inbox' = inbox /\ stage = "quit" /\ stage' = "over" /\ rest' = rest
        /\ (faulty' = faulty \/ faulty' = TRUE)
    BY <1>16 DEF Quits, GoesOn, Fails, SameCall
  <2>2. SomeoneIsDue'
    BY <2>1, SameTargets DEF ChanInv, SomeoneIsDue
  <2>3. ErrorStays
    BY <2>1 DEF ErrorStays
  <2>4. ~ Serving' /\ EndsWhenThrough
    BY <2>1 DEF Serving, EndsWhenThrough
  <2> QED BY <2>1, <2>2, <2>3, <2>4, NobodyServed
<1>17. CASE WebhookAnswered \/ DiscordAnswered
  BY <1>17, PostsKeep DEF WebhookAnswered, DiscordAnswered
<1>18. CASE AprsSends
  BY <1>18, AprsSendsKeeps
<1> QED
  BY <1>4, <1>5, <1>6, <1>7, <1>8, <1>9, <1>10, <1>11, <1>12, <1>13, <1>14, <1>15, <1>16,
     <1>17, <1>18 DEF ChanNext

(* Execute and the instance's retries: "delivered" means everyone has it, and *)
(* no attempt serves an address twice.                                        *)
THEOREM DeliveredMeansServed == ChanSpec => []ServedAsReported
<1>1. ChanInit => ChanInv
  <2> SUFFICES ASSUME ChanInit PROVE ChanInv
    OBVIOUS
  <2>1. /\ channel \in ChannelKinds /\ members \in MemberLists /\ stage = "ready" /\ rest = {}
        /\ faulty = FALSE /\ tries = 0 /\ inbox = [a \in Boxes |-> 0] /\ verdict = ""
    BY DEF ChanInit
  <2>2. inbox \in [Boxes -> Nat] /\ \A a \in Boxes : inbox[a] = 0
    BY <2>1
  <2>3. ChanShape
    BY <2>1, <2>2 DEF ChanShape
  <2>4. SomeoneIsDue /\ ServedSoFar
    BY <2>1 DEF SomeoneIsDue, ServedSoFar, Serving
  <2>5. OnePerAttempt
    <3>1. ASSUME NEW a \in Boxes PROVE inbox[a] <= tries
      <4>1. inbox[a] = 0 /\ tries = 0
        BY <2>1, <2>2
      <4> QED BY <4>1
    <3> QED BY <2>1, <3>1 DEF OnePerAttempt, Serving
  <2> QED BY <2>3, <2>4, <2>5 DEF ChanInv
<1>2. ChanInv => ServedAsReported
  BY DEF ChanInv, ServedSoFar, OnePerAttempt, ServedAsReported
<1> QED
  BY <1>1, <1>2, ChanKeeps, PTL DEF ChanSpec
=============================================================================
