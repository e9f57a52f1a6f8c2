----------------------------- MODULE IngestHTTP -----------------------------
(***************************************************************************)
(* A public ingest endpoint (internal/ingesthttp): requests are checked,   *)
(* rate limited, published to the events topic and then mirrored into the  *)
(* retained active view.  Requests run concurrently; the paho client       *)
(* reconnects by itself and delivers what it accepted even when the        *)
(* request has stopped waiting for it.                                     *)
(*                                                                         *)
(* A request is its kind (what ServeHTTP tells apart before the payload is *)
(* built), the key of its hazard and the transition.  A hazard of the      *)
(* builder form without source_id has the hash of its body as key, so such *)
(* a request is one whose key no other transition shares.                  *)
(***************************************************************************)
EXTENDS Naturals, Sequences, FiniteSets, FiniteSetsExt

CONSTANTS
    Clients,      \* requests that may be in flight together
    Hazards,      \* event keys
    Rate,         \* tokens per tick
    Burst,        \* tokens of a full bucket
    LastTick,     \* bound: the clock
    MaxPosts      \* bound: requests

ASSUME IngestAssumption ==
    /\ {Rate, LastTick, MaxPosts} \subseteq Nat /\ Burst \in Nat \ {0}

VARIABLES
    post,         \* per client: the request in flight
    bucket,       \* rateLimiter: tokens, last
    tick,
    posts,        \* requests so far
    link,         \* the client's connection
    started,      \* Instance.started
    pending,      \* publications accepted by paho that the broker has not seen
    journal,      \* per key: the last transition on the events topic
    view,         \* per key: the retained active document is there
    blurred       \* history: keys whose view may differ from the journal

ingestVars == <<post, bucket, tick, posts, link, started, pending, journal,
                view, blurred>>

Transitions == {"new", "updated", "cancelled", "expired"}
NoPost == [step |-> "idle", key |-> "none", change |-> "new", at |-> 0]

(* rateLimiter.allow: refill by the time since the last one, never above the *)
(* burst; a caller whose clock is older than the last refill adds nothing.   *)
Refilled(at) ==
    IF at > bucket.last
    THEN [tokens |-> Min({Burst, bucket.tokens + (at - bucket.last) * Rate}), last |-> at]
    ELSE bucket

Shown(change) == change \in {"new", "updated"}

-----------------------------------------------------------------------------
(* Start: a first attempt that times out is an error, paho goes on trying.   *)
Start(connected) ==
    /\ link = "none"
    /\ link' = IF connected THEN "up" ELSE "down"
    /\ started' = connected
    /\ UNCHANGED <<post, bucket, tick, posts, pending, journal, view, blurred>>

LinkChanges ==
    /\ link # "none"
    /\ link' = IF link = "up" THEN "down" ELSE "up"
    /\ UNCHANGED <<post, bucket, tick, posts, started, pending, journal, view, blurred>>

Ticks ==
    /\ tick < LastTick
    /\ tick' = tick + 1
    /\ UNCHANGED <<post, bucket, posts, link, started, pending, journal, view, blurred>>

(* ServeHTTP up to the limiter: method, allowlist and key refuse it (the      *)
(* request metrics are left out).                                          *)
Refuse ==
    /\ posts < MaxPosts
    /\ posts' = posts + 1
    /\ UNCHANGED <<post, bucket, tick, link, started, pending, journal, view,
                   blurred>>

(* Otherwise time.Now is read, before the limiter is locked. *)
Arrive(c, key, change) ==
    /\ post[c] = NoPost /\ posts < MaxPosts
    /\ posts' = posts + 1
    /\ post' = [post EXCEPT ![c] = [step |-> "limit", key |-> key, change |-> change,
                                    at |-> tick]]
    /\ UNCHANGED <<bucket, tick, link, started, pending, journal, view, blurred>>

Limit(c) ==
    /\ post[c].step = "limit"
    /\ LET b == Refilled(post[c].at)
       IN  IF b.tokens >= 1
           THEN /\ bucket' = [b EXCEPT !.tokens = @ - 1]
                /\ post' = [post EXCEPT ![c].step = "publish"]
           ELSE /\ bucket' = b
                /\ post' = [post EXCEPT ![c] = NoPost]
    /\ UNCHANGED <<tick, posts, link, started, pending, journal, view, blurred>>

(* The body is too large, unreadable or fails validation. *)
BadBody(c) ==
    /\ post[c].step = "publish"
    /\ post' = [post EXCEPT ![c] = NoPost]
    /\ UNCHANGED <<bucket, tick, posts, link, started, pending, journal, view,
                   blurred>>

BrokerUnavailable(c) ==
    /\ post[c].step = "publish" /\ link # "up"
    /\ post' = [post EXCEPT ![c] = NoPost]
    /\ UNCHANGED <<bucket, tick, posts, link, started, pending, journal, view, blurred>>

(* Other requests for the key that have not mirrored their transition yet. *)
Rivals(c) == {d \in Clients \ {c} : post[d].key = post[c].key /\ post[d].step = "view"}

PublishEvent(c) ==
    /\ post[c].step = "publish" /\ link = "up"
    /\ journal' = [journal EXCEPT ![post[c].key] = post[c].change]
    /\ post' = [post EXCEPT ![c].step = "view"]
    /\ blurred' = IF Rivals(c) = {} THEN blurred \ {post[c].key}
                  ELSE blurred \cup {post[c].key}
    /\ UNCHANGED <<bucket, tick, posts, link, started, pending, view>>

Publication(c, topic) ==
    [topic |-> topic, key |-> post[c].key, change |-> post[c].change]

(* The wait for the token times out: the event reaches the broker later, the  *)
(* active view is not touched.                                             *)
EventUnanswered(c) ==
    /\ post[c].step = "publish" /\ link = "up"
    /\ pending' = pending \cup {Publication(c, "events")}
    /\ post' = [post EXCEPT ![c] = NoPost]
    /\ UNCHANGED <<bucket, tick, posts, link, started, journal, view, blurred>>

LatePublication(p) ==
    /\ p \in pending /\ link = "up"
    /\ pending' = pending \ {p}
    /\ journal' = IF p.topic = "events" THEN [journal EXCEPT ![p.key] = p.change] ELSE journal
    /\ view' = IF p.topic = "active" THEN [view EXCEPT ![p.key] = Shown(p.change)] ELSE view
    /\ blurred' = blurred \cup {p.key}
    /\ UNCHANGED <<post, bucket, tick, posts, link, started>>

PublishActiveNewOnly(c) ==                                      \* mutant
    /\ post[c].step = "view" /\ link = "up"
    /\ view' = [view EXCEPT ![post[c].key] = @ \/ Shown(post[c].change)]
    /\ post' = [post EXCEPT ![c] = NoPost]
    /\ UNCHANGED <<bucket, tick, posts, link, started, pending, journal, blurred>>

(* publishActive: a document, or an empty payload for an ended hazard. *)
PublishActive(c) ==
    /\ post[c].step = "view" /\ link = "up"
    /\ view' = [view EXCEPT ![post[c].key] = Shown(post[c].change)]
    /\ post' = [post EXCEPT ![c] = NoPost]
    /\ UNCHANGED <<bucket, tick, posts, link, started, pending, journal, blurred>>

(* A failed mirror is only logged: the request was accepted.  One that timed  *)
(* out may still reach the broker.                                         *)
ActiveFails(c) ==
    /\ post[c].step = "view"
    /\ post' = [post EXCEPT ![c] = NoPost]
    /\ blurred' = blurred \cup {post[c].key}
    /\ pending' \in {pending, pending \cup {Publication(c, "active")}}
    /\ UNCHANGED <<bucket, tick, posts, link, started, journal, view>>

IngestInit ==
    /\ post = [c \in Clients |-> NoPost]
    /\ bucket = [tokens |-> Burst, last |-> 0]
    /\ tick = 0 /\ posts = 0 /\ link = "none" /\ started = FALSE /\ pending = {}
    /\ journal = [k \in Hazards |-> "none"] /\ view = [k \in Hazards |-> FALSE]
    /\ blurred = {}

IngestNext ==
    \/ \E up \in BOOLEAN : Start(up)
    \/ LinkChanges \/ Ticks
    \/ Refuse
    \/ \E c \in Clients :
          \/ \E k \in Hazards, t \in Transitions : Arrive(c, k, t)
          \/ Limit(c) \/ BadBody(c) \/ BrokerUnavailable(c)
          \/ PublishEvent(c) \/ EventUnanswered(c) \/ PublishActive(c) \/ ActiveFails(c)
    \/ \E p \in pending : LatePublication(p)

IngestSpec == IngestInit /\ [][IngestNext]_ingestVars

-----------------------------------------------------------------------------
(***************************************************************************)
(* Properties.                                                             *)
(***************************************************************************)

(* Once no request is at work on a key, its active document is there exactly   *)
(* when its last journalled transition left it active, unless the mirror       *)
(* failed, the event came late, or two requests for the key overlapped: the    *)
(* two publications of ServeHTTP (ingest.go:326, 344) are not one step.       *)
ViewFollowsJournal ==
    \A k \in Hazards \ blurred :
        (\A c \in Clients : post[c].step = "view" => post[c].key # k)
            => view[k] = Shown(journal[k])

=============================================================================
