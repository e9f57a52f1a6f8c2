------------------------------ MODULE Compose ------------------------------
(***************************************************************************)
(* The communications and EMCOM networks operators publish from the web UI *)
(* (internal/web/compose.go, internal/web/emcom.go).  The broker keeps the *)
(* documents; the handlers decide by what the mirror of the receivers      *)
(* shows, which the broker's frames reach later, here in order (what       *)
(* reordering does to the mirror is the subject of Receiver).              *)
(*                                                                         *)
(* One communication, whose active document is "comm", and one network     *)
(* with its info document "net" and its hazard document "alarm".           *)
(***************************************************************************)
EXTENDS Naturals, Sequences, FiniteSets

CONSTANTS
    Handlers,   \* HTTP requests that may be in flight together
    Levels,     \* readiness levels an operator may choose, 0 is monitoring
    LastTime,   \* bound: the clock
    MaxRequests \* bound: requests

ASSUME ComposeAssumption == Levels \subseteq 0 .. 3 /\ {LastTime, MaxRequests} \subseteq Nat

VARIABLES
    retained,   \* the broker's retained documents
    mirror,     \* State.activeByKey and infoByKey for the three topics
    wire,       \* frames on their way to the mirror
    unsent,     \* publications the client keeps after their handler gave up on them
    handler,    \* requests in flight
    timers,     \* armed auto-expiry timers, by the expires_at they were armed for
    now,
    told,       \* the last transition of each hazard accepted by the ingress
    requests,   \* requests so far
    excuse      \* history: why level and alarm may disagree

webVars == <<retained, mirror, wire, unsent, handler, timers, now, told, requests, excuse>>

Topics == {"comm", "net", "alarm"}
Never == LastTime + 1                   \* no expires_at
Doc(status, level, expires) == [status |-> status, level |-> level, expires |-> expires]
NoDoc == Doc("none", 0, Never)
Idle == [step |-> "idle", level |-> 0]

-----------------------------------------------------------------------------
(***************************************************************************)
(* Broker and mirror.                                                      *)
(***************************************************************************)

(* Manager.PublishActive, ExpireActive, PublishRaw: without a connected       *)
(* receiver the publication is refused.  One the client was given goes out    *)
(* after those it still keeps, within the handler's wait or later.            *)
Publish(topic, doc, outcome) ==
    LET frame == [topic |-> topic, doc |-> doc]
    IN  \/ /\ outcome = "ok" /\ unsent = <<>>
           /\ retained' = [retained EXCEPT ![topic] = doc]
           /\ wire' = Append(wire, frame)
           /\ UNCHANGED unsent
        \/ outcome = "unanswered" /\ unsent' = Append(unsent, frame) /\ UNCHANGED <<retained, wire>>
        \/ outcome = "refused" /\ UNCHANGED <<retained, wire, unsent>>

(* paho delivers what the handler no longer waits for. *)
LateDelivery ==
    /\ unsent # <<>>
    /\ LET f == Head(unsent)
       IN  /\ retained' = [retained EXCEPT ![f.topic] = f.doc]
           /\ wire' = Append(wire, f)
    /\ unsent' = Tail(unsent)
    /\ UNCHANGED <<mirror, handler, timers, now, told, requests, excuse>>

Over(doc) == doc.status = "active" /\ doc.expires <= now

(* Ingestor.handleActive, handleInfo: an empty payload and an expired        *)
(* document remove the entry.                                              *)
FrameMirrored ==
    /\ wire # <<>>
    /\ LET f == Head(wire)
       IN  mirror' = [mirror EXCEPT ![f.topic] =
                         IF f.doc.status = "active" /\ ~ Over(f.doc) THEN f.doc ELSE NoDoc]
    /\ wire' = Tail(wire)
    /\ UNCHANGED <<retained, unsent, handler, timers, now, told, requests, excuse>>

(* State.Snapshot prunes what has expired before anything is read. *)
Snapshot == [t \in Topics |-> IF Over(mirror[t]) THEN NoDoc ELSE mirror[t]]

(* Ingress.Enqueue: a full queue drops the transition. *)
Enqueue(topic, transition) == told' \in {told, [told EXCEPT ![topic] = transition]}

Clock ==
    /\ now < LastTime
    /\ now' = now + 1
    /\ UNCHANGED <<retained, mirror, wire, unsent, handler, timers, told, requests, excuse>>

-----------------------------------------------------------------------------
(***************************************************************************)
(* Compose.                                                                *)
(***************************************************************************)

(* handleComposeSave; scheduleComposeExpiry when it was published as active. *)
ComposeSave(status, expires, edit, outcome) ==
    /\ requests < MaxRequests
    /\ requests' = requests + 1
    /\ Publish("comm", Doc(status, 0, expires), outcome)
    /\ IF outcome = "ok"
       THEN /\ Enqueue("comm", IF status = "expired" THEN "expired"
                               ELSE IF edit THEN "updated" ELSE "new")
            /\ timers' = IF status = "active" /\ expires > now /\ expires # Never
                         THEN timers \cup {expires} ELSE timers
       ELSE UNCHANGED <<told, timers>>
    /\ UNCHANGED <<mirror, handler, now, excuse>>

(* handleComposeExpire. *)
ComposeExpire(outcome) ==
    /\ requests < MaxRequests
    /\ requests' = requests + 1
    /\ mirror' = Snapshot
    /\ Snapshot["comm"] # NoDoc
    /\ Publish("comm", NoDoc, outcome)
    /\ IF outcome = "ok" THEN Enqueue("comm", "expired") ELSE UNCHANGED told
    /\ UNCHANGED <<handler, timers, now, excuse>>

(* The function armed by scheduleComposeExpiry. *)
TimerFires(expires, outcome) ==
    /\ expires \in timers /\ expires <= now
    /\ timers' = timers \ {expires}
    /\ mirror' = Snapshot
    /\ IF Snapshot["comm"].status = "active" /\ Snapshot["comm"].expires = expires
       THEN /\ Publish("comm", NoDoc, outcome)
            /\ IF outcome = "ok" THEN Enqueue("comm", "expired") ELSE UNCHANGED told
       ELSE UNCHANGED <<retained, wire, unsent, told>>
    /\ UNCHANGED <<handler, now, requests, excuse>>

-----------------------------------------------------------------------------
(***************************************************************************)
(* EMCOM.                                                                  *)
(***************************************************************************)
Busy == {h \in Handlers : handler[h] # Idle}

Agree(docs) == docs["alarm"].level = docs["net"].level

(* What a handler saw was not what the broker has, or it was not alone. *)
Excuses(h, seen) ==
    (IF \E t \in seen : Snapshot[t] # retained[t] THEN {"lagged"} ELSE {})
    \cup (IF Busy \subseteq {h} THEN {} ELSE {"overlapped"})

(* A publication on the network may still arrive. *)
Late == \E i \in DOMAIN unsent : unsent[i].topic # "comm"

(* The last step of a request: what earlier requests left is forgotten once *)
(* level and alarm agree again and nothing can arrive late.                 *)
RequestEnds(h, why) ==
    /\ handler' = [handler EXCEPT ![h] = Idle]
    /\ excuse' = IF Busy \subseteq {h} /\ Agree(retained') /\ ~ Late' THEN {}
                 ELSE excuse \cup why

RequestGoesOn(h, step, level, why) ==
    /\ handler' = [handler EXCEPT ![h] = [step |-> step, level |-> level]]
    /\ excuse' = excuse \cup why

RequestBegins(h) ==
    /\ handler[h] = Idle /\ requests < MaxRequests
    /\ requests' = requests + 1
    /\ mirror' = Snapshot

(* handleEmcomAdd: a network the mirror does not show starts at level 0. *)
EmcomAdd(h, outcome) ==
    /\ RequestBegins(h)
    /\ Snapshot["net"] = NoDoc
    /\ Publish("net", Doc("active", 0, Never), outcome)
    /\ RequestEnds(h, Excuses(h, {"net"})
                      \cup (IF outcome = "unanswered" THEN {"failed"} ELSE {}))
    /\ UNCHANGED <<timers, now, told>>

(* handleEmcomSetLevel, handleEmcomDelete: up to the info document. *)
EmcomLevel(h, level, outcome) ==
    /\ RequestBegins(h)
    /\ Snapshot["net"] # NoDoc
    /\ Publish("net", Doc("active", level, Never), outcome)
    /\ LET why == Excuses(h, {"net"})
       IN  IF outcome = "ok" THEN RequestGoesOn(h, "alarm", level, why)
           ELSE RequestEnds(h, why \cup {"failed"})
    /\ UNCHANGED <<timers, now, told>>

EmcomDelete(h, outcome) ==
    /\ RequestBegins(h)
    /\ Snapshot["net"] # NoDoc
    /\ Publish("net", NoDoc, outcome)
    /\ LET why == Excuses(h, {"net"})
       IN  IF outcome = "ok" THEN RequestGoesOn(h, "alarm", 0, why)
           ELSE RequestEnds(h, why \cup {"failed"})
    /\ UNCHANGED <<timers, now, told>>

(* The hazard document of level 1 to 3; new or updated by the mirror. *)
RaiseAlarm(h, outcome) ==
    /\ handler[h].step = "alarm" /\ handler[h].level > 0
    /\ mirror' = Snapshot
    /\ Publish("alarm", Doc("active", handler[h].level, Never), outcome)
    /\ IF outcome = "ok"
       THEN Enqueue("alarm", IF Snapshot["alarm"] = NoDoc THEN "new" ELSE "updated")
       ELSE UNCHANGED told
    /\ RequestEnds(h, Excuses(h, {}) \cup (IF outcome = "ok" THEN {} ELSE {"failed"}))
    /\ UNCHANGED <<timers, now, requests>>

RetireAlarmUntold(h, outcome) ==                                \* mutant
    /\ handler[h].step = "alarm" /\ handler[h].level = 0
    /\ mirror' = Snapshot
    /\ IF Snapshot["alarm"].level > 1
       THEN Publish("alarm", NoDoc, outcome) /\ Enqueue("alarm", "expired")
       ELSE UNCHANGED <<retained, wire, unsent, told>>
    /\ RequestEnds(h, Excuses(h, {"alarm"})
                      \cup (IF outcome = "ok" THEN {} ELSE {"failed"}))
    /\ UNCHANGED <<timers, now, requests>>

(* Back to monitoring, or deleted: the hazard document goes if the mirror    *)
(* shows one; a failure is only logged.                                    *)
RetireAlarm(h, outcome) ==
    /\ handler[h].step = "alarm" /\ handler[h].level = 0
    /\ mirror' = Snapshot
    /\ IF Snapshot["alarm"] # NoDoc
       THEN Publish("alarm", NoDoc, outcome) /\ Enqueue("alarm", "expired")
       ELSE UNCHANGED <<retained, wire, unsent, told>>
    /\ RequestEnds(h, Excuses(h, {"alarm"})
                      \cup (IF outcome = "ok" THEN {} ELSE {"failed"}))
    /\ UNCHANGED <<timers, now, requests>>

-----------------------------------------------------------------------------
WebInit ==
    /\ retained = [t \in Topics |-> NoDoc] /\ mirror = [t \in Topics |-> NoDoc]
    /\ wire = <<>> /\ unsent = <<>> /\ handler = [h \in Handlers |-> Idle] /\ timers = {} /\ now = 0
    /\ told = [t \in {"comm", "alarm"} |-> "none"] /\ requests = 0 /\ excuse = {}

Outcomes == {"ok", "refused", "unanswered"}

ComposeNext ==
    \/ FrameMirrored \/ LateDelivery \/ Clock
    \/ \E o \in Outcomes :
          \/ ComposeExpire(o)
          \/ \E e \in 1 .. Never, s \in {"active", "expired"}, edit \in BOOLEAN :
                ComposeSave(s, e, edit, o)
          \/ \E e \in timers : TimerFires(e, o)

EmcomNext ==
    \/ FrameMirrored \/ LateDelivery
    \/ \E h \in Handlers, o \in Outcomes :
          \/ EmcomAdd(h, o) \/ EmcomDelete(h, o)
          \/ \E l \in Levels : EmcomLevel(h, l, o)
          \/ RaiseAlarm(h, o) \/ RetireAlarm(h, o)

WebNext == ComposeNext \/ EmcomNext

WebSpec == WebInit /\ [][WebNext]_webVars

(* A broker that answers, timers that fire. *)
ComposeLiveSpec ==
    /\ WebInit /\ [][ComposeNext]_webVars
    /\ WF_webVars(FrameMirrored) /\ WF_webVars(LateDelivery) /\ WF_webVars(Clock)
    /\ WF_webVars(\E e \in timers : TimerFires(e, "ok"))

-----------------------------------------------------------------------------
(***************************************************************************)
(* Properties.                                                             *)
(***************************************************************************)

(* Between requests the alarm of a network is the one of its level, raised   *)
(* for 1 to 3 and retired for 0 or when the network is deleted, unless a      *)
(* publication failed, two requests overlapped, or a handler decided by a     *)
(* mirror that had not caught up (emcom.go:541: the retirement asks the       *)
(* mirror whether there is anything to retire).                             *)
AlarmFollowsLevel == Busy = {} => Agree(retained) \/ excuse # {}

(* "Active communications expire on their own at expires_at (the retained    *)
(* document is removed and the expiry flows through the canonical ingress      *)
(* like the manual expire action)" (internal/web/compose.go:271).           *)
ExpiresOnItsOwn ==
    \A e \in 1 .. LastTime :
        (e \in timers /\ retained["comm"] = Doc("active", 0, e))
            ~> retained["comm"] # Doc("active", 0, e)

=============================================================================
