----------------------------- MODULE ActiveView -----------------------------
(***************************************************************************)
(* The retained active view of the MQTT output                             *)
(* (internal/plugins/outputs/mqtt/mqtt.go): the desired active set in      *)
(* memory, the pending deletions, and two goroutines that publish from     *)
(* them to the same retained topics: the output worker's Handle, and the   *)
(* rehydration that every connect starts.  A publication is put on the     *)
(* connection, applied by the broker in order, and acknowledged; the       *)
(* publisher waits for that, with a deadline.  The client (paho) keeps     *)
(* what is not acknowledged and sends it again, in order, when it has      *)
(* connected again, whether or not its publisher still waits.              *)
(*                                                                         *)
(* A change's version is its journal id.  The view of a key is the         *)
(* version shown, 0 for no topic.                                          *)
(***************************************************************************)
EXTENDS Naturals, Sequences, FiniteSets

CONSTANTS
  Hazards,      \* event keys
  MaxPasses,    \* maxRehydratePasses
  MaxJournal,   \* bound: changes written
  MaxFaults     \* bound: lost connections, abandoned waits and process exits

ASSUME ViewConstants ==
  /\ "list" \notin Hazards   \* the list has a topic of its own
  /\ MaxPasses \in Nat \ {0}
  /\ MaxJournal \in Nat \ {0}
  /\ MaxFaults \in Nat

VARIABLES
  journal,   \* the changes in id order: [key, active]
  acked,     \* the output's cursor
  cache,     \* activeCache: version and generation of each desired topic
  pend,      \* pendingDeletes: the generation of each, 0 for none
  gen,       \* activeSeq
  topics,    \* the broker: version retained per key
  list,      \* the broker: the retained active list
  wire,      \* publications the client keeps until they are acknowledged, in order
  conn,      \* the client: not connected yet, connected, or reconnecting
  token,     \* the publication each goroutine waits for
  hpc,       \* where the worker's Handle is
  hgen,      \* delSeq of the deletion Handle publishes, 0 otherwise
  waiting,   \* rehydrations that want rehydrateMu
  rpc,       \* where the running rehydration is
  pass,      \* its pass
  dirty,     \* this pass saw a change
  snap,      \* what is left of its activeSnapshot
  dels,      \* what is left of its pendingDeleteSnapshot
  rkey,      \* the key it works on
  rlist,     \* the list it has built
  gaveUp,    \* history: the last rehydration ended at the pass limit
  shared,    \* history: a corrective deletion reused Handle's registration
  short,     \* history: the last seeding stopped before its end
  restarted, \* history: the process has been started again
  faults     \* faults so far

desired == <<cache, pend, gen>>
broker == <<topics, list>>
link == <<wire, conn, token>>
handler == <<hpc, hgen>>
rehydration == <<rpc, pass, dirty, snap, dels, rkey, rlist, gaveUp>>
viewBounds == <<shared, short, restarted, faults>>
viewVars == <<journal, acked, desired, broker, link, handler, waiting, rehydration, viewBounds>>

Threads == {"worker", "rehydrate"}
Absent == [ver |-> 0, gen |-> 0]
Nothing == [k \in Hazards |-> 0]
NoKey == [key |-> "none", gen |-> 0, deleting |-> FALSE]
NoEntries == [k \in Hazards |-> Absent]

HandlerStates == {"idle", "publish", "wait", "list", "waitList"}
RehydrateStates == {"off", "snapshot", "deletes", "next", "check", "register",
                    "attempt", "delete", "waitDelete", "recheck", "list", "publishList", "waitList"}

Entry == [ver : Nat, gen : Nat]
View == [Hazards -> Nat]

\* A publication: who waits for it, the topic (a key, or "list") and the value.
Message == [by : Threads \cup {"nobody"}, to : Hazards, val : Nat]
             \cup [by : Threads \cup {"nobody"}, to : {"list"}, val : View]

ViewTypeOK ==
  /\ journal \in Seq([key : Hazards, active : BOOLEAN])
  /\ acked \in 0 .. Len(journal)
  /\ cache \in [Hazards -> Entry]
  /\ pend \in View
  /\ gen \in Nat
  /\ topics \in View
  /\ list \in View
  /\ wire \in Seq(Message)
  /\ conn \in {"never", "open", "lost"}
  /\ token \in [Threads -> {"none", "wait", "ok", "err"}]
  /\ hpc \in HandlerStates
  /\ hgen \in Nat
  /\ waiting \in Nat
  /\ rpc \in RehydrateStates
  /\ pass \in 0 .. MaxPasses - 1
  /\ dirty \in BOOLEAN
  /\ snap \in [Hazards -> Entry]
  /\ dels \in View
  /\ rkey \in [key : Hazards \cup {"none"}, gen : Nat, deleting : BOOLEAN]
  /\ rlist \in View
  /\ gaveUp \in BOOLEAN
  /\ shared \in BOOLEAN
  /\ short \in BOOLEAN
  /\ restarted \in BOOLEAN
  /\ faults \in 0 .. MaxFaults

\* What the store says: the version of k if it is active, 0 otherwise.
Truth(k) ==
  LET own == {i \in DOMAIN journal : journal[i].key = k}
      last == CHOOSE i \in own : \A j \in own : j <= i
  IN IF own # {} /\ journal[last].active THEN last ELSE 0

-----------------------------------------------------------------------------
(* The connection and the broker (external).                               *)

\* publishActive: ensureConnected, then Publish; the token is waited for.
\* While the client reconnects, Connect is a no-op that succeeds at once, and
\* the client takes the publication to send it later.
Send(th, to, val) ==
  /\ conn # "never"
  /\ wire' = Append(wire, [by |-> th, to |-> to, val |-> val])
  /\ token' = [token EXCEPT ![th] = "wait"]
  /\ UNCHANGED conn

\* The first Connect fails: nothing is published.
Refused(th) ==
  /\ conn = "never"
  /\ token' = [token EXCEPT ![th] = "err"]
  /\ UNCHANGED <<wire, conn>>

Publish(th, to, val) == Send(th, to, val) \/ Refused(th)

Answered(th) == token[th] \in {"ok", "err"}
Consume(th) == token' = [token EXCEPT ![th] = "none"] /\ UNCHANGED <<wire, conn>>

\* The retained values after the first n of the publications kept.
TopicsAfter(n) ==
  [k \in Hazards |->
     LET own == {i \in 1 .. n : wire[i].to = k}
     IN IF own = {} THEN topics[k] ELSE wire[CHOOSE i \in own : \A j \in own : j <= i].val]

ListAfter(n) ==
  LET own == {i \in 1 .. n : wire[i].to = "list"}
  IN IF own = {} THEN list ELSE wire[CHOOSE i \in own : \A j \in own : j <= i].val

\* The broker applies a publication and its acknowledgment arrives.
BrokerApplies ==
  /\ conn = "open"
  /\ wire # <<>>
  /\ topics' = TopicsAfter(1)
  /\ list' = ListAfter(1)
  /\ wire' = Tail(wire)
  /\ token' = IF Head(wire).by = "nobody" THEN token ELSE [token EXCEPT ![Head(wire).by] = "ok"]
  /\ UNCHANGED <<journal, acked, desired, conn, handler, waiting, rehydration, viewBounds>>

\* The connection is lost, with the acknowledgments of the first n that the
\* broker has applied; a restarted broker may have lost its retained topics.
ConnectionLost ==
  /\ conn = "open"
  /\ faults < MaxFaults
  /\ faults' = faults + 1
  /\ conn' = "lost"
  /\ \E n \in 0 .. Len(wire) :
       \/ topics' = TopicsAfter(n) /\ list' = ListAfter(n)
       \/ topics' = Nothing /\ list' = Nothing
  /\ UNCHANGED <<journal, acked, desired, wire, token, handler, waiting, rehydration, shared, short, restarted>>

\* Mutant: the on-connect hook is not installed in the client.
ConnectedNoHook ==
  /\ conn # "open"
  /\ conn' = "open"
  /\ UNCHANGED <<journal, acked, desired, broker, wire, token, handler, waiting, rehydration, viewBounds>>

\* The first ensureConnected that succeeds, or paho's own reconnect: the
\* on-connect hook starts a rehydration.
Connected ==
  /\ conn # "open"
  /\ conn' = "open"
  /\ waiting' = waiting + 1
  /\ UNCHANGED <<journal, acked, desired, broker, wire, token, handler, rehydration, viewBounds>>

\* The deadline of a wait passes; the client keeps the publication.
WaitTimesOut(th) ==
  /\ token[th] = "wait"
  /\ faults < MaxFaults
  /\ faults' = faults + 1
  /\ token' = [token EXCEPT ![th] = "err"]
  /\ wire' = [i \in DOMAIN wire |-> IF wire[i].by = th THEN [wire[i] EXCEPT !.by = "nobody"] ELSE wire[i]]
  /\ UNCHANGED <<journal, acked, desired, broker, conn, handler, waiting, rehydration, shared, short, restarted>>

-----------------------------------------------------------------------------
(* The store and the worker's Handle.                                      *)

\* The store commits a transition of k.
StoreWrites(k, active) ==
  /\ Len(journal) < MaxJournal
  /\ active \/ Truth(k) # 0
  /\ journal' = Append(journal, [key |-> k, active |-> active])
  /\ UNCHANGED <<acked, desired, broker, link, handler, waiting, rehydration, viewBounds>>

Todo == journal[acked + 1]

\* The /events publication was acknowledged, so there has been a connection;
\* updateActiveState changes what is desired before it publishes.
HandleChange ==
  /\ hpc = "idle"
  /\ conn # "never"
  /\ acked < Len(journal)
  /\ gen' = gen + 1
  /\ IF Todo.active
     THEN /\ cache' = [cache EXCEPT ![Todo.key] = [ver |-> acked + 1, gen |-> gen + 1]]
          /\ pend' = [pend EXCEPT ![Todo.key] = 0]
          /\ hgen' = 0
     ELSE /\ cache' = [cache EXCEPT ![Todo.key] = Absent]
          /\ pend' = [pend EXCEPT ![Todo.key] = gen + 1]
          /\ hgen' = gen + 1
  /\ hpc' = "publish"
  /\ UNCHANGED <<journal, acked, broker, link, waiting, rehydration, viewBounds>>

HandlePublishes ==
  /\ hpc = "publish"
  /\ Publish("worker", Todo.key, IF Todo.active THEN acked + 1 ELSE 0)
  /\ hpc' = "wait"
  /\ UNCHANGED <<journal, acked, desired, broker, hgen, waiting, rehydration, viewBounds>>

\* A confirmed deletion is forgotten unless a newer one took its place; any
\* error leaves the change unacknowledged, to be delivered again.
HandlePublished ==
  /\ hpc = "wait"
  /\ Answered("worker")
  /\ Consume("worker")
  /\ IF token["worker"] = "ok"
     THEN /\ hpc' = "list"
          /\ pend' = IF hgen # 0 /\ pend[Todo.key] = hgen THEN [pend EXCEPT ![Todo.key] = 0] ELSE pend
     ELSE hpc' = "idle" /\ UNCHANGED pend
  /\ hgen' = 0
  /\ UNCHANGED <<journal, acked, cache, gen, broker, waiting, rehydration, viewBounds>>

\* activeListPayload: what is desired now.  Only the worker changes it, so
\* the list Handle builds is still right when Handle publishes it.
ActiveList == [k \in Hazards |-> cache[k].ver]

HandlePublishesList ==
  /\ hpc = "list"
  /\ Publish("worker", "list", ActiveList)
  /\ hpc' = "waitList"
  /\ UNCHANGED <<journal, acked, desired, broker, hgen, waiting, rehydration, viewBounds>>

\* Both publications succeeded: the worker acknowledges the change.
HandleReturns ==
  /\ hpc = "waitList"
  /\ Answered("worker")
  /\ Consume("worker")
  /\ acked' = IF token["worker"] = "ok" THEN acked + 1 ELSE acked
  /\ hpc' = "idle"
  /\ UNCHANGED <<journal, desired, broker, hgen, waiting, rehydration, viewBounds>>

-----------------------------------------------------------------------------
(* rehydrateActive.                                                        *)

RehydrateBegins ==
  /\ rpc = "off"
  /\ waiting > 0
  /\ waiting' = waiting - 1
  /\ rpc' = "snapshot"
  /\ pass' = 0
  /\ gaveUp' = FALSE
  /\ UNCHANGED <<journal, acked, desired, broker, link, handler, dirty, snap, dels, rkey, rlist, viewBounds>>

SnapshotActive ==
  /\ rpc = "snapshot"
  /\ snap' = cache
  /\ rpc' = "deletes"
  /\ UNCHANGED <<journal, acked, desired, broker, link, handler, waiting, pass, dirty, dels, rkey, rlist, gaveUp, viewBounds>>

\* Nothing desired and nothing to delete: only the list is published.
SnapshotDeletes ==
  /\ rpc = "deletes"
  /\ dels' = pend
  /\ dirty' = FALSE
  /\ rpc' = IF snap = NoEntries /\ pend = Nothing THEN "list" ELSE "next"
  /\ UNCHANGED <<journal, acked, desired, broker, link, handler, waiting, pass, snap, rkey, rlist, gaveUp, viewBounds>>

\* The next entry of the snapshot is published again, in any order.
RepublishActive(k) ==
  /\ rpc = "next"
  /\ snap[k] # Absent
  /\ Publish("rehydrate", k, snap[k].ver)
  /\ rkey' = [key |-> k, gen |-> snap[k].gen, deleting |-> FALSE]
  /\ snap' = [snap EXCEPT ![k] = Absent]
  /\ rpc' = "check"
  /\ UNCHANGED <<journal, acked, desired, broker, handler, waiting, pass, dirty, dels, rlist, gaveUp, viewBounds>>

\* Mutant: a hazard that ended meanwhile is taken for unchanged.
RepublishCheckForgiving ==
  /\ rpc = "check"
  /\ Answered("rehydrate")
  /\ Consume("rehydrate")
  /\ rpc' = "next"
  /\ dirty' = (dirty \/ (cache[rkey.key] # Absent /\ cache[rkey.key].gen # rkey.gen))
  /\ UNCHANGED <<journal, acked, desired, broker, handler, waiting, pass, snap, dels, rkey, rlist, gaveUp, viewBounds>>

\* Mutant: a newer version is not noticed.
RepublishCheckNoGen ==
  /\ rpc = "check"
  /\ Answered("rehydrate")
  /\ Consume("rehydrate")
  /\ rpc' = IF cache[rkey.key] = Absent THEN "register" ELSE "next"
  /\ dirty' = (dirty \/ cache[rkey.key] = Absent)
  /\ UNCHANGED <<journal, acked, desired, broker, handler, waiting, pass, snap, dels, rkey, rlist, gaveUp, viewBounds>>

\* The desired state is looked at again after the publication, which may
\* have been stale; a failed publication is only logged.
RepublishCheck ==
  /\ rpc = "check"
  /\ Answered("rehydrate")
  /\ Consume("rehydrate")
  /\ LET current == cache[rkey.key]
     IN /\ rpc' = IF current = Absent THEN "register" ELSE "next"
        /\ dirty' = (dirty \/ current = Absent \/ current.gen # rkey.gen)
  /\ UNCHANGED <<journal, acked, desired, broker, handler, waiting, pass, snap, dels, rkey, rlist, gaveUp, viewBounds>>

\* registerPendingDeleteIfAbsent: unless the key is active again.
RegisterPendingDelete ==
  /\ rpc = "register"
  /\ LET k == rkey.key
         g == IF pend[k] # 0 THEN pend[k] ELSE gen + 1
     IN IF cache[k] # Absent
        THEN rpc' = "next" /\ UNCHANGED <<gen, pend, rkey>>
        ELSE /\ rpc' = "attempt"
             /\ gen' = IF pend[k] # 0 THEN gen ELSE gen + 1
             /\ pend' = [pend EXCEPT ![k] = g]
             /\ rkey' = [rkey EXCEPT !.gen = g]
  /\ shared' = (shared \/ (cache[rkey.key] = Absent /\ pend[rkey.key] # 0 /\ pend[rkey.key] = hgen))
  /\ UNCHANGED <<journal, acked, cache, broker, link, handler, waiting, pass, dirty, snap, dels, rlist, gaveUp, short, restarted, faults>>

\* The next pending deletion of the snapshot.
NextDelete(k) ==
  /\ rpc = "next"
  /\ snap = NoEntries
  /\ dels[k] # 0
  /\ rkey' = [key |-> k, gen |-> dels[k], deleting |-> TRUE]
  /\ dels' = [dels EXCEPT ![k] = 0]
  /\ rpc' = "attempt"
  /\ UNCHANGED <<journal, acked, desired, broker, link, handler, waiting, pass, dirty, snap, rlist, gaveUp, viewBounds>>

\* Where attemptDelete returns to.
AfterAttempt == IF rkey.deleting THEN "recheck" ELSE "next"

\* attemptDelete: a deletion that is not the newest desired state is skipped.
AttemptStale ==
  /\ rpc = "attempt"
  /\ pend[rkey.key] # rkey.gen \/ cache[rkey.key] # Absent
  /\ rpc' = AfterAttempt
  /\ UNCHANGED <<journal, acked, desired, broker, link, handler, waiting, pass, dirty, snap, dels, rkey, rlist, gaveUp, viewBounds>>

\* The check and the publication are two steps: the check may be stale.
AttemptValid ==
  /\ rpc = "attempt"
  /\ pend[rkey.key] = rkey.gen
  /\ cache[rkey.key] = Absent
  /\ rpc' = "delete"
  /\ UNCHANGED <<journal, acked, desired, broker, link, handler, waiting, pass, dirty, snap, dels, rkey, rlist, gaveUp, viewBounds>>

AttemptPublishes ==
  /\ rpc = "delete"
  /\ Publish("rehydrate", rkey.key, 0)
  /\ rpc' = "waitDelete"
  /\ UNCHANGED <<journal, acked, desired, broker, handler, waiting, pass, dirty, snap, dels, rkey, rlist, gaveUp, viewBounds>>

AttemptEnds ==
  /\ rpc = "waitDelete"
  /\ Answered("rehydrate")
  /\ Consume("rehydrate")
  /\ pend' = IF token["rehydrate"] = "ok" /\ pend[rkey.key] = rkey.gen
             THEN [pend EXCEPT ![rkey.key] = 0] ELSE pend
  /\ rpc' = AfterAttempt
  /\ UNCHANGED <<journal, acked, cache, gen, broker, handler, waiting, pass, dirty, snap, dels, rkey, rlist, gaveUp, viewBounds>>

\* A key that became active during the deletion must be published again.
DeleteRecheck ==
  /\ rpc = "recheck"
  /\ dirty' = (dirty \/ cache[rkey.key] # Absent)
  /\ rpc' = "next"
  /\ UNCHANGED <<journal, acked, desired, broker, link, handler, waiting, pass, snap, dels, rkey, rlist, gaveUp, viewBounds>>

\* The end of a pass: converged, another pass, or the limit.
PassEnds ==
  /\ rpc = "next"
  /\ snap = NoEntries
  /\ dels = Nothing
  /\ dirty' = FALSE
  /\ rkey' = NoKey
  /\ \/ /\ ~dirty
        /\ rpc' = "list"
        /\ UNCHANGED <<pass, gaveUp>>
     \/ /\ dirty
        /\ pass + 1 < MaxPasses
        /\ pass' = pass + 1
        /\ rpc' = "snapshot"
        /\ UNCHANGED gaveUp
     \/ /\ dirty
        /\ pass + 1 >= MaxPasses
        /\ rpc' = "off"
        /\ gaveUp' = TRUE
        /\ pass' = 0
  /\ UNCHANGED <<journal, acked, desired, broker, link, handler, waiting, snap, dels, rlist, viewBounds>>

RehydrateBuildsList ==
  /\ rpc = "list"
  /\ rlist' = ActiveList
  /\ rpc' = "publishList"
  /\ UNCHANGED <<journal, acked, desired, broker, link, handler, waiting, pass, dirty, snap, dels, rkey, gaveUp, viewBounds>>

RehydratePublishesList ==
  /\ rpc = "publishList"
  /\ Publish("rehydrate", "list", rlist)
  /\ rpc' = "waitList"
  /\ UNCHANGED <<journal, acked, desired, broker, handler, waiting, pass, dirty, snap, dels, rkey, rlist, gaveUp, viewBounds>>

RehydrateReturns ==
  /\ rpc = "waitList"
  /\ Answered("rehydrate")
  /\ Consume("rehydrate")
  /\ rpc' = "off"
  /\ pass' = 0
  /\ rlist' = Nothing
  /\ UNCHANGED <<journal, acked, desired, broker, handler, waiting, dirty, snap, dels, rkey, gaveUp, viewBounds>>

-----------------------------------------------------------------------------
(* The process.                                                            *)

\* A new process: seedActiveState registers what the store says is active,
\* page by page, and stops early when the query fails; then one rehydration.
Seeded(keys) ==
  /\ gen' = Cardinality(keys)
  /\ \E order \in [keys -> 1 .. Cardinality(keys)] :
       /\ \A a, b \in keys : order[a] = order[b] => a = b
       /\ cache' = [k \in Hazards |-> IF k \in keys THEN [ver |-> Truth(k), gen |-> order[k]] ELSE Absent]

\* The process ends at any step and starts again: the desired state, the
\* pending deletions and what the client has kept are gone.
ProcessRestarts ==
  /\ faults < MaxFaults
  /\ faults' = faults + 1
  /\ \E keys \in SUBSET {k \in Hazards : Truth(k) # 0} :
       /\ Seeded(keys)
       /\ short' = (keys # {k \in Hazards : Truth(k) # 0})
  /\ pend' = Nothing
  /\ \E n \in 0 .. Len(wire) : topics' = TopicsAfter(n) /\ list' = ListAfter(n)
  /\ wire' = <<>>
  /\ conn' = "never"
  /\ token' = [th \in Threads |-> "none"]
  /\ restarted' = TRUE
  /\ hpc' = "idle"
  /\ hgen' = 0
  /\ waiting' = 1
  /\ rpc' = "off"
  /\ pass' = 0
  /\ dirty' = FALSE
  /\ snap' = NoEntries
  /\ dels' = Nothing
  /\ rkey' = NoKey
  /\ rlist' = Nothing
  /\ gaveUp' = FALSE
  /\ UNCHANGED <<journal, acked, shared>>

\* The worker has just been started and seeded, against a broker that may
\* or may not know the one change written before.
ViewInit ==
  /\ \E k \in Hazards : journal \in {<<>>, <<[key |-> k, active |-> TRUE]>>}
  /\ acked \in 0 .. Len(journal)
  /\ topics \in {Nothing, [k \in Hazards |-> Truth(k)]}
  /\ list = topics
  /\ cache = [k \in Hazards |-> IF Truth(k) = 0 THEN Absent ELSE [ver |-> Truth(k), gen |-> 1]]
  /\ gen = Len(journal)
  /\ pend = Nothing
  /\ wire = <<>>
  /\ conn = "never"
  /\ token = [th \in Threads |-> "none"]
  /\ hpc = "idle"
  /\ hgen = 0
  /\ waiting = 1
  /\ rpc = "off"
  /\ pass = 0
  /\ dirty = FALSE
  /\ snap = NoEntries
  /\ dels = Nothing
  /\ rkey = NoKey
  /\ rlist = Nothing
  /\ gaveUp = FALSE
  /\ shared = FALSE
  /\ short = FALSE
  /\ restarted = FALSE
  /\ faults = 0

HandleNext ==
  \/ HandleChange
  \/ HandlePublishes
  \/ HandlePublished
  \/ HandlePublishesList
  \/ HandleReturns

RehydrateNext ==
  \/ RehydrateBegins
  \/ SnapshotActive
  \/ SnapshotDeletes
  \/ \E k \in Hazards : RepublishActive(k) \/ NextDelete(k)
  \/ RepublishCheck
  \/ RegisterPendingDelete
  \/ AttemptStale
  \/ AttemptValid
  \/ AttemptPublishes
  \/ AttemptEnds
  \/ DeleteRecheck
  \/ PassEnds
  \/ RehydrateBuildsList
  \/ RehydratePublishesList
  \/ RehydrateReturns

ViewNext ==
  \/ \E k \in Hazards, active \in BOOLEAN : StoreWrites(k, active)
  \/ HandleNext
  \/ RehydrateNext
  \/ BrokerApplies
  \/ ConnectionLost
  \/ Connected
  \/ \E th \in Threads : WaitTimesOut(th)
  \/ ProcessRestarts

ViewSpec == ViewInit /\ [][ViewNext]_viewVars

\* Both goroutines run, the broker answers, the heartbeat's ensureConnected
\* makes the first connection and paho every later one.
ViewFairness ==
  /\ WF_viewVars(HandleNext)
  /\ WF_viewVars(RehydrateNext)
  /\ WF_viewVars(BrokerApplies)
  /\ WF_viewVars(Connected)

FairViewSpec == ViewSpec /\ ViewFairness

-----------------------------------------------------------------------------
(* Properties.                                                             *)

\* Nobody is publishing and nobody wants to.
Quiet ==
  /\ conn = "open"
  /\ wire = <<>>
  /\ acked = Len(journal)
  /\ hpc = "idle"
  /\ rpc = "off"
  /\ waiting = 0

\* No active hazard is lost from the retained view: when the output is quiet,
\* the last rehydration did not hit its limit of passes and the seeding was
\* complete, every active hazard's topic shows its last version, whatever the
\* order in which Handle and rehydration published, whatever paho kept of it and
\* sent again after a lost connection, timeouts and restarts included.
ActiveShown ==
  Quiet /\ ~gaveUp /\ ~short => \A k \in Hazards : Truth(k) # 0 => topics[k] = Truth(k)

\* A stale publication of rehydration is always deleted again, except through
\* one gap: registerPendingDeleteIfAbsent reuses the registration of a deletion
\* that Handle still waits for; when Handle drops it, nothing remembers that
\* the stale publication came after Handle's deletion.  A publication that was
\* reported as failed and sent later is no other gap.
OnlyGapResurrects ==
  Quiet /\ ~gaveUp /\ ~shared /\ ~restarted => \A k \in Hazards : Truth(k) = 0 => topics[k] = 0

\* After the last change, lost connection, timeout and restart the topics of
\* the active hazards become right and stay right.
ActiveConverges ==
  <>[](gaveUp \/ short \/ \A k \in Hazards : Truth(k) # 0 => topics[k] = Truth(k))

\* What the comment of rehydrateActive promises: "a cancelled hazard can never
\* be resurrected by a stale snapshot".  The gap above resurrects one.
NeverResurrected ==
  Quiet /\ ~gaveUp /\ ~restarted => \A k \in Hazards : Truth(k) = 0 => topics[k] = 0
=============================================================================
