----------------------------- MODULE ViewProofs -----------------------------
(***************************************************************************)
(* Proofs about the retained active view of the MQTT output: for any       *)
(* hazards, changes, passes and faults, a quiet output shows every active  *)
(* hazard, and an ended one comes back only through the one gap.           *)
(*                                                                         *)
(* The argument for both: what the topic of a hazard will be once the      *)
(* connection has drained is what the output desires, or somebody is still *)
(* on the way to make it so.                                               *)
(***************************************************************************)
EXTENDS ActiveView, FiniteSetTheorems, WellFoundedInduction, TLAPS

-----------------------------------------------------------------------------
(* The journal, the connection and their last entries.                     *)

Change == [key : Hazards, active : BOOLEAN]

\* A set of positions that is not empty has a last one.
LEMMA LastPosition ==
  ASSUME NEW n \in Nat, NEW S \in SUBSET (1 .. n), S # {}
  PROVE  \E i \in S : \A j \in S : j <= i
<1> DEFINE R == {p \in Nat \X Nat : p[1] < p[2]}
           Above == {m \in Nat : \A j \in S : j <= m}
<1>1. IsWellFoundedOn(R, Nat)
  BY NatLessThanWellFounded, Zenon DEF OpToRel
<1> HIDE DEF R
<1>2. Above \subseteq Nat /\ n \in Above
  OBVIOUS
<1> HIDE DEF Above
<1>3. \E m \in Above : \A y \in Above : ~(<<y, m>> \in R)
  BY <1>1, <1>2, WFMin
<1>4. PICK m \in Above : \A y \in Above : m <= y
  <2>1. \A y, m \in Nat : ~(<<y, m>> \in R) => m <= y
    BY DEF R
  <2> QED BY <1>2, <1>3, <2>1
<1>5. m \in Nat /\ \A j \in S : j <= m
  BY DEF Above
<1>6. ASSUME m \notin S PROVE FALSE
  <2>1. \A j \in S : j <= m - 1 /\ m - 1 \in Nat
    BY <1>5, <1>6
  <2>2. m - 1 \in Above
    BY <2>1 DEF Above
  <2> QED BY <2>2, <1>4, <1>5
<1> QED BY <1>5, <1>6

LastOf(S) == CHOOSE i \in S : \A j \in S : j <= i

LEMMA LastOfIsLast ==
  ASSUME NEW n \in Nat, NEW S \in SUBSET (1 .. n), S # {}
  PROVE  LastOf(S) \in S /\ \A j \in S : j <= LastOf(S)
BY LastPosition DEF LastOf

LEMMA LastOfIs ==
  ASSUME NEW n \in Nat, NEW S \in SUBSET (1 .. n), NEW i \in S, \A j \in S : j <= i
  PROVE  LastOf(S) = i
<1>1. LastOf(S) \in S /\ \A j \in S : j <= LastOf(S)
  BY LastOfIsLast
<1>2. LastOf(S) <= i /\ i <= LastOf(S)
  BY <1>1
<1>3. LastOf(S) \in 1 .. n /\ i \in 1 .. n
  BY <1>1
<1> HIDE DEF LastOf
<1> QED BY <1>2, <1>3

\* The changes of k in a journal J, and what J says of k.
Own(J, k) == {i \in DOMAIN J : J[i].key = k}
Newest(J, k) == IF Own(J, k) # {} /\ J[LastOf(Own(J, k))].active THEN LastOf(Own(J, k)) ELSE 0

LEMMA TruthIsNewest ==
  /\ \A k : Truth(k) = Newest(journal, k)
  /\ (\A k : Truth(k) = Newest(journal, k))'
BY DEF Truth, Newest, Own, LastOf

LEMMA OwnPositions ==
  ASSUME NEW J \in Seq(Change), NEW k
  PROVE  Len(J) \in Nat /\ Own(J, k) \in SUBSET (1 .. Len(J))
BY DEF Own

\* The journal says of k what its last change of k says.
LEMMA NewestIs ==
  ASSUME NEW J \in Seq(Change), NEW i \in DOMAIN J,
         \A j \in DOMAIN J : J[j].key = J[i].key => j <= i
  PROVE  Newest(J, J[i].key) = IF J[i].active THEN i ELSE 0
<1> DEFINE k == J[i].key
<1>1. i \in Own(J, k) /\ \A j \in Own(J, k) : j <= i
  BY DEF Own
<1>2. LastOf(Own(J, k)) = i
  <2> HIDE DEF k
  <2> QED BY <1>1, OwnPositions, LastOfIs
<1> QED BY <1>1, <1>2 DEF Newest

\* Another change tells nothing new of k.
LEMMA NewestOfOthers ==
  ASSUME NEW J \in Seq(Change), NEW c \in Change, NEW k, c.key # k
  PROVE  Newest(Append(J, c), k) = Newest(J, k)
<1> DEFINE H == Append(J, c)
<1>1. H \in Seq(Change) /\ Len(H) = Len(J) + 1 /\ Len(J) \in Nat
      /\ H[Len(J) + 1] = c /\ \A i \in 1 .. Len(J) : H[i] = J[i]
      /\ DOMAIN H = 1 .. Len(J) + 1 /\ DOMAIN J = 1 .. Len(J)
  OBVIOUS
<1> HIDE DEF H
<1>2. Own(H, k) = Own(J, k)
  BY <1>1 DEF Own
<1>3. Own(J, k) # {} => LastOf(Own(J, k)) \in 1 .. Len(J)
  BY OwnPositions, LastOfIsLast
<1> QED BY <1>1, <1>2, <1>3 DEF Newest, H

\* Finitely many hazards are active, each by a change of its own.
LEMMA NewestIsOwn ==
  ASSUME NEW J \in Seq(Change)
  PROVE  /\ \A k \in Hazards : Newest(J, k) \in 0 .. Len(J)
         /\ \A k \in Hazards : Newest(J, k) # 0 => J[Newest(J, k)].key = k
         /\ IsFiniteSet({k \in Hazards : Newest(J, k) # 0})
<1>0. Len(J) \in Nat
  OBVIOUS
<1>1. ASSUME NEW k \in Hazards
      PROVE  Newest(J, k) \in 0 .. Len(J) /\ (Newest(J, k) # 0 => J[Newest(J, k)].key = k)
  <2>1. CASE Own(J, k) = {}
    BY <2>1 DEF Newest
  <2>2. CASE Own(J, k) # {}
    <3>1. LastOf(Own(J, k)) \in Own(J, k) /\ LastOf(Own(J, k)) \in 1 .. Len(J)
      BY <2>2, OwnPositions, LastOfIsLast
    <3> QED BY <3>1 DEF Newest, Own
  <2> QED BY <2>1, <2>2
<1> DEFINE A == {k \in Hazards : Newest(J, k) # 0}
           f == [k \in A |-> Newest(J, k)]
<1>2. f \in Injection(A, 1 .. Len(J))
  <2>1. f \in [A -> 1 .. Len(J)]
    BY <1>0, <1>1
  <2>2. \A a, b \in A : f[a] = f[b] => a = b
    BY <1>1
  <2> HIDE DEF f
  <2>3. DOMAIN f = A
    BY <2>1
  <2> QED BY <2>1, <2>2, <2>3 DEF Injection, IsInjective
<1>3. IsFiniteSet(1 .. Len(J))
  BY <1>0, FS_Interval
<1> HIDE DEF A, f
<1>4. IsFiniteSet(A)
  BY <1>2, <1>3, FS_Injection
<1> QED BY <1>1, <1>4 DEF A

LEMMA TruthTypes ==
  ASSUME journal \in Seq(Change)
  PROVE  \A k \in Hazards : Truth(k) \in Nat /\ Truth(k) <= Len(journal)
<1>1. Len(journal) \in Nat
  OBVIOUS
<1>2. \A k \in Hazards : Newest(journal, k) \in 0 .. Len(journal)
  BY NewestIsOwn
<1>3. \A k : Truth(k) = Newest(journal, k)
  BY TruthIsNewest, Zenon
<1> QED BY <1>1, <1>2, <1>3

-----------------------------------------------------------------------------
(* What a topic will show once the connection has drained: t is what it    *)
(* shows now, w what is on the connection.                                 *)

Drains(w, t, k, v) ==
  \/ (\A i \in DOMAIN w : w[i].to # k) /\ t = v
  \/ \E i \in DOMAIN w : /\ w[i].to = k /\ w[i].val = v
                         /\ \A j \in DOMAIN w : j > i => w[j].to # k

LEMMA AppendedDrains ==
  ASSUME NEW w \in Seq(Message), NEW m \in Message, NEW t
  PROVE  /\ Drains(Append(w, m), t, m.to, m.val)
         /\ \A k, v : m.to # k /\ Drains(w, t, k, v) => Drains(Append(w, m), t, k, v)
<1> DEFINE u == Append(w, m)
<1>1. /\ Len(w) \in Nat /\ u[Len(w) + 1] = m /\ \A i \in 1 .. Len(w) : u[i] = w[i]
      /\ DOMAIN u = 1 .. Len(w) + 1 /\ DOMAIN w = 1 .. Len(w)
  OBVIOUS
<1> HIDE DEF u
<1>2. Drains(u, t, m.to, m.val)
  <2>1. Len(w) + 1 \in DOMAIN u /\ \A j \in DOMAIN u : ~(j > Len(w) + 1)
    BY <1>1
  <2> QED BY <1>1, <2>1 DEF Drains
<1>3. ASSUME NEW k, NEW v, m.to # k, Drains(w, t, k, v) PROVE Drains(u, t, k, v)
  <2>1. CASE (\A i \in DOMAIN w : w[i].to # k) /\ t = v
    BY <1>1, <1>3, <2>1 DEF Drains
  <2>2. CASE \E i \in DOMAIN w : /\ w[i].to = k /\ w[i].val = v
                                /\ \A j \in DOMAIN w : j > i => w[j].to # k
    <3>1. PICK i \in DOMAIN w : /\ w[i].to = k /\ w[i].val = v
                                /\ \A j \in DOMAIN w : j > i => w[j].to # k
      BY <2>2
    <3>2. i \in DOMAIN u /\ u[i].to = k /\ u[i].val = v
      BY <1>1, <3>1
    <3>3. \A j \in DOMAIN u : j > i => u[j].to # k
      BY <1>1, <1>3, <3>1
    <3> QED BY <3>2, <3>3 DEF Drains
  <2> QED BY <1>3, <2>1, <2>2 DEF Drains
<1> QED BY <1>2, <1>3 DEF u

\* Applying the first publication changes nothing of the outcome.
LEMMA AppliedDrains ==
  ASSUME NEW w \in Seq(Message), w # <<>>, NEW t, NEW k, NEW v, Drains(w, t, k, v)
  PROVE  Drains(Tail(w), IF w[1].to = k THEN w[1].val ELSE t, k, v)
<1> DEFINE u == Tail(w)
           s == IF w[1].to = k THEN w[1].val ELSE t
<1>1. /\ Len(w) \in Nat /\ Len(w) >= 1 /\ DOMAIN w = 1 .. Len(w)
      /\ DOMAIN u = 1 .. Len(w) - 1 /\ \A i \in 1 .. Len(w) - 1 : u[i] = w[i + 1]
  OBVIOUS
<1> HIDE DEF u
<1>2. CASE \A i \in DOMAIN w : w[i].to # k
  <2>1. s = v /\ \A i \in DOMAIN u : u[i].to # k
    BY <1>1, <1>2 DEF Drains
  <2> QED BY <2>1 DEF Drains, u
<1>3. CASE ~ \A i \in DOMAIN w : w[i].to # k
  <2>1. PICK i \in DOMAIN w : /\ w[i].to = k /\ w[i].val = v
                              /\ \A j \in DOMAIN w : j > i => w[j].to # k
    BY <1>3 DEF Drains
  <2>2. CASE i = 1
    <3>1. s = v /\ \A j \in DOMAIN u : u[j].to # k
      BY <1>1, <2>1, <2>2
    <3> QED BY <3>1 DEF Drains, u
  <2>3. CASE i # 1
    <3>1. i - 1 \in DOMAIN u /\ u[i - 1].to = k /\ u[i - 1].val = v
      BY <1>1, <2>1, <2>3
    <3>2. \A j \in DOMAIN u : j > i - 1 => u[j].to # k
      BY <1>1, <2>1, <2>3
    <3> QED BY <3>1, <3>2 DEF Drains, u
  <2> QED BY <2>2, <2>3
<1> QED BY <1>2, <1>3

-----------------------------------------------------------------------------
(* The types.                                                              *)

Connections == {"never", "open", "lost"}

LinkOK ==
  /\ wire \in Seq(Message)
  /\ conn \in Connections
  /\ token \in [Threads -> {"none", "wait", "ok", "err"}]

BrokerOK == topics \in View /\ list \in View

\* A topic of a hazard holds a version, the list a view.
Fits(to, val) == (to \in Hazards /\ val \in Nat) \/ (to = "list" /\ val \in View)

LEMMA MessageFields ==
  \A m \in Message :
    /\ m = [by |-> m.by, to |-> m.to, val |-> m.val]
    /\ m.by \in Threads \cup {"nobody"}
    /\ Fits(m.to, m.val)
BY DEF Message, Fits

LEMMA MessageIs ==
  ASSUME NEW by \in Threads \cup {"nobody"}, NEW to, NEW val, Fits(to, val)
  PROVE  [by |-> by, to |-> to, val |-> val] \in Message
BY DEF Message, Fits

LEMMA PublishTypes ==
  ASSUME LinkOK, NEW th \in Threads, NEW to, NEW val, Publish(th, to, val), Fits(to, val)
  PROVE  LinkOK'
<1>1. [by |-> th, to |-> to, val |-> val] \in Message
  BY MessageIs
<1>2. wire' \in Seq(Message)
  BY <1>1 DEF LinkOK, Publish, Send, Refused
<1>3. token' \in [Threads -> {"none", "wait", "ok", "err"}]
  BY DEF LinkOK, Publish, Send, Refused
<1>4. conn' \in Connections
  BY Zenon DEF LinkOK, Publish, Send, Refused
<1> QED BY <1>2, <1>3, <1>4 DEF LinkOK

LEMMA ConsumeTypes ==
  ASSUME LinkOK, NEW th \in Threads, Consume(th)
  PROVE  LinkOK'
BY DEF LinkOK, Consume

LEMMA TopicsAfterIs ==
  ASSUME LinkOK, NEW n \in 0 .. Len(wire), NEW k \in Hazards
  PROVE  \/ TopicsAfter(n)[k] = topics[k]
         \/ \E i \in 1 .. n : wire[i].to = k /\ TopicsAfter(n)[k] = wire[i].val
<1> DEFINE S == {i \in 1 .. n : wire[i].to = k}
<1>1. TopicsAfter(n)[k] = IF S = {} THEN topics[k] ELSE wire[LastOf(S)].val
  BY DEF TopicsAfter, LastOf
<1>2. n \in Nat /\ S \in SUBSET (1 .. n)
  BY DEF LinkOK
<1>3. S # {} => LastOf(S) \in S
  <2> HIDE DEF S
  <2> QED BY <1>2, LastOfIsLast
<1> QED BY <1>1, <1>3

LEMMA AfterTypes ==
  ASSUME LinkOK, BrokerOK, NEW n \in 0 .. Len(wire)
  PROVE  TopicsAfter(n) \in View /\ ListAfter(n) \in View
<1>1. ASSUME NEW i \in 1 .. n PROVE wire[i] \in Message
  BY DEF LinkOK
<1>2. ASSUME NEW k \in Hazards PROVE TopicsAfter(n)[k] \in Nat
  <2>1. CASE TopicsAfter(n)[k] = topics[k]
    BY <2>1 DEF BrokerOK, View
  <2>2. CASE \E i \in 1 .. n : wire[i].to = k /\ TopicsAfter(n)[k] = wire[i].val
    BY <1>1, <2>2, MessageFields, ViewConstants DEF Fits
  <2> QED BY <2>1, <2>2, TopicsAfterIs
<1>3. TopicsAfter(n) \in View
  BY <1>2 DEF TopicsAfter, View
<1>4. ListAfter(n) \in View
  <2> DEFINE S == {i \in 1 .. n : wire[i].to = "list"}
  <2>1. ListAfter(n) = IF S = {} THEN list ELSE wire[LastOf(S)].val
    BY DEF ListAfter, LastOf
  <2>2. n \in Nat /\ S \in SUBSET (1 .. n)
    BY DEF LinkOK
  <2>3. ASSUME S # {} PROVE LastOf(S) \in S
    <3> HIDE DEF S
    <3> QED BY <2>2, <2>3, LastOfIsLast
  <2>4. ASSUME S # {} PROVE wire[LastOf(S)].val \in View
    BY <1>1, <2>3, <2>4, MessageFields, ViewConstants DEF Fits
  <2> QED BY <2>1, <2>4 DEF BrokerOK
<1> QED BY <1>3, <1>4

LEMMA InitTypes == ViewInit => ViewTypeOK
<1> SUFFICES ASSUME ViewInit PROVE ViewTypeOK
  OBVIOUS
<1>1. journal \in Seq(Change) /\ Len(journal) \in Nat
  <2>1. PICK k \in Hazards : journal \in {<<>>, <<[key |-> k, active |-> TRUE]>>}
    BY DEF ViewInit
  <2>2. [key |-> k, active |-> TRUE] \in Change
    BY DEF Change
  <2>3. CASE journal = <<>>
    BY <2>3
  <2>4. CASE journal = <<[key |-> k, active |-> TRUE]>>
    <3>1. \A c \in Change : <<c>> \in Seq(Change) /\ Len(<<c>>) \in Nat
      OBVIOUS
    <3> QED BY <2>2, <2>4, <3>1
  <2> QED BY <2>1, <2>3, <2>4
<1>2. \A k \in Hazards : Truth(k) \in Nat
  BY <1>1, TruthTypes
<1>3. cache \in [Hazards -> Entry]
  BY <1>2 DEF ViewInit, Entry, Absent
<1>4. topics \in View /\ list \in View
  BY <1>2 DEF ViewInit, View, Nothing
<1>5. pend \in View /\ dels \in View /\ rlist \in View /\ snap \in [Hazards -> Entry]
  BY DEF ViewInit, View, Nothing, NoEntries, Entry, Absent
<1>6. pass \in 0 .. MaxPasses - 1 /\ faults \in 0 .. MaxFaults /\ acked \in 0 .. Len(journal)
  BY ViewConstants DEF ViewInit
<1>7. rkey \in [key : Hazards \cup {"none"}, gen : Nat, deleting : BOOLEAN]
  BY DEF ViewInit, NoKey
<1>8. gen \in Nat /\ hgen \in Nat /\ waiting \in Nat
  BY <1>1 DEF ViewInit
<1>9. hpc \in HandlerStates /\ rpc \in RehydrateStates
  BY DEF ViewInit, HandlerStates, RehydrateStates
<1>10. LinkOK
  <2>1. wire = <<>> /\ conn = "never" /\ token = [th \in Threads |-> "none"]
    BY DEF ViewInit
  <2>2. wire \in Seq(Message)
    BY <2>1
  <2>3. token \in [Threads -> {"none", "wait", "ok", "err"}]
    BY <2>1
  <2>4. conn \in Connections
    BY <2>1 DEF Connections
  <2> QED BY <2>2, <2>3, <2>4 DEF LinkOK
<1>11. {dirty, gaveUp, shared, short, restarted} \subseteq BOOLEAN
  BY DEF ViewInit
<1> QED BY <1>1, <1>3, <1>4, <1>5, <1>6, <1>7, <1>8, <1>9, <1>10, <1>11 DEF LinkOK, ViewTypeOK, Change, Connections

JournalOK == journal \in Seq(Change) /\ acked \in 0 .. Len(journal)
DesiredOK == cache \in [Hazards -> Entry] /\ pend \in View /\ gen \in Nat
HandlerOK == hpc \in HandlerStates /\ hgen \in Nat /\ waiting \in Nat
PassOK ==
  /\ rpc \in RehydrateStates
  /\ pass \in 0 .. MaxPasses - 1
  /\ dirty \in BOOLEAN
  /\ snap \in [Hazards -> Entry]
  /\ dels \in View
  /\ rkey \in [key : Hazards \cup {"none"}, gen : Nat, deleting : BOOLEAN]
  /\ rlist \in View
  /\ gaveUp \in BOOLEAN
BoundsOK ==
  /\ shared \in BOOLEAN
  /\ short \in BOOLEAN
  /\ restarted \in BOOLEAN
  /\ faults \in 0 .. MaxFaults

TypeParts == JournalOK /\ DesiredOK /\ BrokerOK /\ LinkOK /\ HandlerOK /\ PassOK /\ BoundsOK

LEMMA TypeIsParts == (ViewTypeOK <=> TypeParts) /\ (ViewTypeOK <=> TypeParts)'
BY DEF ViewTypeOK, TypeParts, JournalOK, DesiredOK, BrokerOK, LinkOK, HandlerOK, PassOK, BoundsOK, Change, Connections

LEMMA JournalKept == ASSUME JournalOK, UNCHANGED <<journal, acked>> PROVE JournalOK'
BY DEF JournalOK
LEMMA DesiredKept == ASSUME DesiredOK, UNCHANGED desired PROVE DesiredOK'
BY DEF DesiredOK, desired
LEMMA BrokerKept == ASSUME BrokerOK, UNCHANGED broker PROVE BrokerOK'
BY DEF BrokerOK, broker
LEMMA LinkKept == ASSUME LinkOK, UNCHANGED link PROVE LinkOK'
BY DEF LinkOK, link
LEMMA HandlerKept == ASSUME HandlerOK, UNCHANGED <<handler, waiting>> PROVE HandlerOK'
BY DEF HandlerOK, handler
LEMMA PassKept == ASSUME PassOK, UNCHANGED rehydration PROVE PassOK'
BY DEF PassOK, rehydration
LEMMA BoundsKept == ASSUME BoundsOK, UNCHANGED viewBounds PROVE BoundsOK'
BY DEF BoundsOK, viewBounds

LEMMA TodoTypes ==
  ASSUME JournalOK, acked < Len(journal)
  PROVE  Todo \in Change /\ Todo.key \in Hazards /\ acked + 1 \in Nat /\ acked + 1 \in DOMAIN journal
<1>1. acked + 1 \in 1 .. Len(journal) /\ acked + 1 \in Nat /\ DOMAIN journal = 1 .. Len(journal)
  BY DEF JournalOK
<1>2. journal[acked + 1] \in Change
  BY <1>1 DEF JournalOK
<1> QED BY <1>1, <1>2 DEF Change, Todo

-----------------------------------------------------------------------------
InPass == {"next", "check", "register", "attempt", "delete", "waitDelete", "recheck"}

\* Generations are given out upwards, so an entry is known by its own; a
\* desired topic has a version and no deletion pending.
GensIssued ==
  \A k \in Hazards :
    /\ cache[k].gen <= gen /\ snap[k].gen <= gen /\ pend[k] <= gen /\ dels[k] <= gen
    /\ cache[k].ver = 0 <=> cache[k] = Absent
    /\ snap[k].ver = 0 <=> snap[k] = Absent
    /\ cache[k] # Absent => pend[k] = 0
    /\ snap[k] # Absent /\ cache[k] # Absent /\ snap[k].gen = cache[k].gen => snap[k] = cache[k]

\* Handle has made the change it works on desired.
HandleKnows ==
  /\ hgen <= gen
  /\ hpc # "idle" => /\ acked < Len(journal)
                     /\ cache[Todo.key].ver = IF Todo.active THEN acked + 1 ELSE 0
  /\ hpc \in {"idle", "list", "waitList"} => hgen = 0

\* What is desired is what the store says, up to changes still to be handled.
CacheIsNewest ==
  ~short => \A k \in Hazards :
    \/ cache[k].ver = Truth(k)
    \/ \E i \in DOMAIN journal : i > acked /\ journal[i].key = k

\* The key the rehydration works on, and that it has noticed what made it
\* delete a key outside its list of deletions.
PassShape ==
  /\ rkey.gen <= gen
  /\ rpc \in InPass \ {"next"} => rkey.key \in Hazards
  /\ rpc \in {"check", "register"} => ~rkey.deleting
  /\ rpc \in {"attempt", "delete", "waitDelete"} => rkey.gen # 0
  /\ rpc = "recheck" => rkey.deleting
  /\ rpc \in {"register", "attempt", "delete", "waitDelete"} /\ ~rkey.deleting => dirty
  /\ dirty => rpc \in InPass

\* What the topic of k will show once the connection has drained.
LastIs(k, v) == Drains(wire, topics[k], k, v)

\* A rehydration is still to begin or to begin its pass, or it has been left.
Rehydrates == conn # "open" \/ waiting > 0 \/ gaveUp \/ rpc = "snapshot" \/ dirty

HandlePublishesTo(k) == hpc = "publish" /\ Todo.key = k

\* The topic of the desired k will be right, or somebody sees to it.
WillShow(k) ==
  \/ LastIs(k, cache[k].ver)
  \/ Rehydrates
  \/ HandlePublishesTo(k)
  \/ rpc \in InPass \cup {"deletes"} /\ snap[k] = cache[k]
  \/ rpc = "check" /\ rkey.key = k /\ rkey.gen # cache[k].gen
  \/ rpc \in {"waitDelete", "recheck"} /\ rkey.key = k

ActiveCovered == \A k \in Hazards : cache[k] # Absent => WillShow(k)

ActiveInv ==
  ViewTypeOK /\ GensIssued /\ HandleKnows /\ CacheIsNewest /\ PassShape /\ ActiveCovered

-----------------------------------------------------------------------------
(* The types are kept.                                                     *)

LEMMA HandleTypes ==
  ASSUME TypeParts, HandleKnows, HandleNext
  PROVE  TypeParts'
<1> USE DEF TypeParts
<1>1. "worker" \in Threads /\ "rehydrate" \in Threads
  BY DEF Threads
<1>2. CASE HandleChange
  <2>1. Todo \in Change /\ Todo.key \in Hazards /\ acked + 1 \in Nat
    BY <1>2, TodoTypes DEF HandleChange
  <2>2. [ver |-> acked + 1, gen |-> gen + 1] \in Entry /\ Absent \in Entry /\ gen + 1 \in Nat
    BY <2>1 DEF DesiredOK, Entry, Absent
  <2>5. cache' \in [Hazards -> Entry]
    BY <1>2, <2>2 DEF HandleChange, DesiredOK
  <2>6. pend' \in View
    BY <1>2, <2>2 DEF HandleChange, DesiredOK, View
  <2>3. DesiredOK'
    BY <1>2, <2>2, <2>5, <2>6 DEF HandleChange, DesiredOK
  <2>4. HandlerOK'
    BY <1>2, <2>2 DEF HandleChange, HandlerOK, HandlerStates
  <2> QED BY <1>2, <2>3, <2>4, JournalKept, BrokerKept, LinkKept, PassKept, BoundsKept DEF HandleChange
<1>3. CASE HandlePublishes
  <2>1. Todo.key \in Hazards /\ (IF Todo.active THEN acked + 1 ELSE 0) \in Nat
    BY <1>3, TodoTypes DEF HandlePublishes, HandleKnows
  <2>2. Fits(Todo.key, IF Todo.active THEN acked + 1 ELSE 0)
    BY <2>1 DEF Fits
  <2>3. LinkOK'
    BY <1>1, <1>3, <2>2, PublishTypes DEF HandlePublishes
  <2>4. HandlerOK'
    BY <1>3 DEF HandlePublishes, HandlerOK, HandlerStates
  <2> QED BY <1>3, <2>3, <2>4, JournalKept, DesiredKept, BrokerKept, PassKept, BoundsKept DEF HandlePublishes
<1>4. CASE HandlePublished
  <2>1. LinkOK'
    BY <1>1, <1>4, ConsumeTypes DEF HandlePublished
  <2>2. DesiredOK'
    BY <1>4 DEF HandlePublished, DesiredOK, View
  <2>3. HandlerOK'
    BY <1>4 DEF HandlePublished, HandlerOK, HandlerStates
  <2> QED BY <1>4, <2>1, <2>2, <2>3, JournalKept, BrokerKept, PassKept, BoundsKept DEF HandlePublished
<1>5. CASE HandlePublishesList
  <2>1. Fits("list", ActiveList)
    BY DEF Fits, ActiveList, View, DesiredOK, Entry
  <2>2. LinkOK'
    BY <1>1, <1>5, <2>1, PublishTypes DEF HandlePublishesList
  <2>3. HandlerOK'
    BY <1>5 DEF HandlePublishesList, HandlerOK, HandlerStates
  <2> QED BY <1>5, <2>2, <2>3, JournalKept, DesiredKept, BrokerKept, PassKept, BoundsKept DEF HandlePublishesList
<1>6. CASE HandleReturns
  <2>1. LinkOK'
    BY <1>1, <1>6, ConsumeTypes DEF HandleReturns
  <2>2. JournalOK'
    <3>1. Len(journal) \in Nat /\ acked < Len(journal) /\ acked' \in {acked, acked + 1} /\ journal' = journal
      BY <1>6 DEF HandleReturns, HandleKnows, JournalOK
    <3> QED BY <3>1 DEF JournalOK
  <2>3. HandlerOK'
    BY <1>6 DEF HandleReturns, HandlerOK, HandlerStates
  <2> QED BY <1>6, <2>1, <2>2, <2>3, DesiredKept, BrokerKept, PassKept, BoundsKept DEF HandleReturns
<1> QED BY <1>2, <1>3, <1>4, <1>5, <1>6 DEF HandleNext

LEMMA PassEntries ==
  ASSUME TypeParts
  PROVE  /\ Absent \in Entry /\ NoEntries \in [Hazards -> Entry] /\ Nothing \in View /\ ActiveList \in View
         /\ NoKey \in [key : Hazards \cup {"none"}, gen : Nat, deleting : BOOLEAN]
         /\ \A k \in Hazards : snap[k] \in Entry /\ cache[k] \in Entry /\ dels[k] \in Nat /\ pend[k] \in Nat
BY DEF TypeParts, PassOK, DesiredOK, Absent, NoEntries, Nothing, NoKey, ActiveList, Entry, View

LEMMA RehydrateTypes ==
  ASSUME TypeParts, PassShape, RehydrateNext
  PROVE  TypeParts'
<1> USE DEF TypeParts
<1>1. "worker" \in Threads /\ "rehydrate" \in Threads
  BY DEF Threads
<1>2. CASE RehydrateBegins
  <2>1. HandlerOK'
    BY <1>2 DEF RehydrateBegins, HandlerOK, handler
  <2>2. pass' \in 0 .. MaxPasses - 1 /\ rpc' \in RehydrateStates
    BY <1>2, ViewConstants DEF RehydrateBegins, RehydrateStates
  <2>3. PassOK'
    BY <1>2, <2>2 DEF RehydrateBegins, PassOK
  <2> QED BY <1>2, <2>1, <2>3, JournalKept, DesiredKept, BrokerKept, LinkKept, BoundsKept DEF RehydrateBegins
<1>3. CASE SnapshotActive
  <2>1. PassOK'
    BY <1>3 DEF SnapshotActive, PassOK, DesiredOK, RehydrateStates
  <2> QED BY <1>3, <2>1, JournalKept, DesiredKept, BrokerKept, LinkKept, HandlerKept, BoundsKept DEF SnapshotActive
<1>4. CASE SnapshotDeletes
  <2>1. PassOK'
    BY <1>4 DEF SnapshotDeletes, PassOK, DesiredOK, RehydrateStates
  <2> QED BY <1>4, <2>1, JournalKept, DesiredKept, BrokerKept, LinkKept, HandlerKept, BoundsKept DEF SnapshotDeletes
<1>5. ASSUME NEW k \in Hazards, RepublishActive(k) PROVE TypeParts'
  <2>1. snap[k].ver \in Nat /\ snap[k].gen \in Nat
    BY PassEntries DEF Entry
  <2>2. Fits(k, snap[k].ver)
    BY <2>1 DEF Fits
  <2>3. LinkOK'
    BY <1>1, <1>5, <2>2, PublishTypes DEF RepublishActive
  <2>4. [key |-> k, gen |-> snap[k].gen, deleting |-> FALSE]
          \in [key : Hazards \cup {"none"}, gen : Nat, deleting : BOOLEAN]
    BY <2>1
  <2>5. snap' \in [Hazards -> Entry]
    BY <1>5, PassEntries DEF RepublishActive, PassOK
  <2>6. PassOK'
    BY <1>5, <2>4, <2>5 DEF RepublishActive, PassOK, RehydrateStates
  <2> QED BY <1>5, <2>3, <2>6, JournalKept, DesiredKept, BrokerKept, HandlerKept, BoundsKept DEF RepublishActive
<1>6. ASSUME NEW k \in Hazards, NextDelete(k) PROVE TypeParts'
  <2>1. [key |-> k, gen |-> dels[k], deleting |-> TRUE]
          \in [key : Hazards \cup {"none"}, gen : Nat, deleting : BOOLEAN]
    BY PassEntries
  <2>2. dels' \in View
    BY <1>6 DEF NextDelete, PassOK, View
  <2>3. PassOK'
    BY <1>6, <2>1, <2>2 DEF NextDelete, PassOK, RehydrateStates
  <2> QED BY <1>6, <2>3, JournalKept, DesiredKept, BrokerKept, LinkKept, HandlerKept, BoundsKept DEF NextDelete
<1>7. CASE RepublishCheck
  <2>1. LinkOK'
    BY <1>1, <1>7, ConsumeTypes DEF RepublishCheck
  <2>2. dirty' \in BOOLEAN
    BY <1>7, Zenon DEF RepublishCheck
  <2>3. rpc' \in RehydrateStates
    BY <1>7 DEF RepublishCheck, RehydrateStates
  <2>4. PassOK'
    BY <1>7, <2>2, <2>3 DEF RepublishCheck, PassOK
  <2> QED BY <1>7, <2>1, <2>4, JournalKept, DesiredKept, BrokerKept, HandlerKept, BoundsKept DEF RepublishCheck
<1>8. CASE RegisterPendingDelete
  <2>1. rkey.key \in Hazards /\ rkey.gen \in Nat
    BY <1>8 DEF RegisterPendingDelete, PassShape, InPass, PassOK
  <2> DEFINE g == IF pend[rkey.key] # 0 THEN pend[rkey.key] ELSE gen + 1
  <2>2. g \in Nat /\ gen + 1 \in Nat
    BY <2>1, PassEntries DEF DesiredOK
  <2>3. /\ rpc' \in {"next", "attempt"}
        /\ gen' \in {gen, gen + 1}
        /\ pend' \in {pend, [pend EXCEPT ![rkey.key] = g]}
        /\ rkey' \in {rkey, [rkey EXCEPT !.gen = g]}
        /\ cache' = cache
    BY <1>8 DEF RegisterPendingDelete
  <2> HIDE DEF g
  <2>4. DesiredOK'
    BY <2>2, <2>3 DEF DesiredOK, View
  <2>5. rkey' \in [key : Hazards \cup {"none"}, gen : Nat, deleting : BOOLEAN]
    BY <2>2, <2>3 DEF PassOK
  <2>6. PassOK'
    BY <1>8, <2>3, <2>5 DEF RegisterPendingDelete, PassOK, RehydrateStates
  <2>7. shared' \in BOOLEAN
    BY <1>8, Zenon DEF RegisterPendingDelete
  <2>8. BoundsOK'
    BY <1>8, <2>7 DEF RegisterPendingDelete, BoundsOK
  <2> QED BY <1>8, <2>4, <2>6, <2>8, JournalKept, BrokerKept, LinkKept, HandlerKept DEF RegisterPendingDelete
<1>9. CASE AttemptStale
  <2>1. PassOK'
    BY <1>9 DEF AttemptStale, AfterAttempt, PassOK, RehydrateStates
  <2> QED BY <1>9, <2>1, JournalKept, DesiredKept, BrokerKept, LinkKept, HandlerKept, BoundsKept DEF AttemptStale
<1>10. CASE AttemptValid
  <2>1. PassOK'
    BY <1>10 DEF AttemptValid, PassOK, RehydrateStates
  <2> QED BY <1>10, <2>1, JournalKept, DesiredKept, BrokerKept, LinkKept, HandlerKept, BoundsKept DEF AttemptValid
<1>11. CASE AttemptPublishes
  <2>1. Fits(rkey.key, 0)
    BY <1>11 DEF AttemptPublishes, PassShape, InPass, Fits
  <2>2. LinkOK'
    BY <1>1, <1>11, <2>1, PublishTypes DEF AttemptPublishes
  <2>3. PassOK'
    BY <1>11 DEF AttemptPublishes, PassOK, RehydrateStates
  <2> QED BY <1>11, <2>2, <2>3, JournalKept, DesiredKept, BrokerKept, HandlerKept, BoundsKept DEF AttemptPublishes
<1>12. CASE AttemptEnds
  <2>1. LinkOK'
    BY <1>1, <1>12, ConsumeTypes DEF AttemptEnds
  <2>2. PassOK'
    BY <1>12 DEF AttemptEnds, AfterAttempt, PassOK, RehydrateStates
  <2>3. DesiredOK'
    BY <1>12 DEF AttemptEnds, DesiredOK, View
  <2> QED BY <1>12, <2>1, <2>2, <2>3, JournalKept, BrokerKept, HandlerKept, BoundsKept DEF AttemptEnds
<1>13. CASE DeleteRecheck
  <2>1. dirty' \in BOOLEAN
    BY <1>13, Zenon DEF DeleteRecheck
  <2>2. PassOK'
    BY <1>13, <2>1 DEF DeleteRecheck, PassOK, RehydrateStates
  <2> QED BY <1>13, <2>2, JournalKept, DesiredKept, BrokerKept, LinkKept, HandlerKept, BoundsKept DEF DeleteRecheck
<1>14. CASE PassEnds
  <2>1. pass' \in 0 .. MaxPasses - 1
    BY <1>14, ViewConstants DEF PassEnds, PassOK
  <2>2. gaveUp' \in BOOLEAN /\ dirty' \in BOOLEAN
    BY <1>14 DEF PassEnds, PassOK
  <2>3. rpc' \in RehydrateStates
    BY <1>14 DEF PassEnds, RehydrateStates
  <2>4. PassOK'
    BY <1>14, <2>1, <2>2, <2>3, PassEntries DEF PassEnds, PassOK
  <2> QED BY <1>14, <2>4, JournalKept, DesiredKept, BrokerKept, LinkKept, HandlerKept, BoundsKept DEF PassEnds
<1>15. CASE RehydrateBuildsList
  <2>1. PassOK'
    BY <1>15, PassEntries DEF RehydrateBuildsList, PassOK, RehydrateStates
  <2> QED BY <1>15, <2>1, JournalKept, DesiredKept, BrokerKept, LinkKept, HandlerKept, BoundsKept DEF RehydrateBuildsList
<1>16. CASE RehydratePublishesList
  <2>1. Fits("list", rlist)
    BY DEF Fits, PassOK
  <2>2. LinkOK'
    BY <1>1, <1>16, <2>1, PublishTypes DEF RehydratePublishesList
  <2>3. PassOK'
    BY <1>16 DEF RehydratePublishesList, PassOK, RehydrateStates
  <2> QED BY <1>16, <2>2, <2>3, JournalKept, DesiredKept, BrokerKept, HandlerKept, BoundsKept DEF RehydratePublishesList
<1>17. CASE RehydrateReturns
  <2>1. LinkOK'
    BY <1>1, <1>17, ConsumeTypes DEF RehydrateReturns
  <2>2. PassOK'
    BY <1>17, PassEntries, ViewConstants DEF RehydrateReturns, PassOK, RehydrateStates
  <2> QED BY <1>17, <2>1, <2>2, JournalKept, DesiredKept, BrokerKept, HandlerKept, BoundsKept DEF RehydrateReturns
<1> QED BY <1>2, <1>3, <1>4, <1>5, <1>6, <1>7, <1>8, <1>9, <1>10, <1>11, <1>12, <1>13, <1>14, <1>15,
           <1>16, <1>17 DEF RehydrateNext

LEMMA FaultTypes == ASSUME BoundsOK, faults < MaxFaults PROVE faults + 1 \in 0 .. MaxFaults
BY ViewConstants DEF BoundsOK

LEMMA LinkTypes ==
  ASSUME TypeParts, BrokerApplies \/ ConnectionLost \/ Connected \/ \E th \in Threads : WaitTimesOut(th)
  PROVE  TypeParts'
<1> USE DEF TypeParts
<1>1. Len(wire) \in Nat /\ \A i \in DOMAIN wire : i \in 1 .. Len(wire) /\ wire[i] \in Message
  BY DEF LinkOK
<1>2. CASE BrokerApplies
  <2>1. 1 \in 0 .. Len(wire) /\ Head(wire) = wire[1] /\ wire[1] \in Message
    BY <1>2 DEF BrokerApplies, LinkOK
  <2>2. BrokerOK'
    BY <1>2, <2>1, AfterTypes DEF BrokerApplies, BrokerOK
  <2>3. wire' \in Seq(Message)
    BY <1>2 DEF BrokerApplies, LinkOK
  <2>4. token' \in [Threads -> {"none", "wait", "ok", "err"}]
    BY <1>2 DEF BrokerApplies, LinkOK
  <2>5. LinkOK'
    BY <1>2, <2>3, <2>4 DEF BrokerApplies, LinkOK
  <2> QED BY <1>2, <2>2, <2>5, JournalKept, DesiredKept, HandlerKept, PassKept, BoundsKept DEF BrokerApplies
<1>3. CASE ConnectionLost
  <2>1. BrokerOK'
    <3>1. PICK n \in 0 .. Len(wire) : \/ topics' = TopicsAfter(n) /\ list' = ListAfter(n)
                                      \/ topics' = Nothing /\ list' = Nothing
      BY <1>3 DEF ConnectionLost
    <3> QED BY <3>1, AfterTypes, PassEntries DEF BrokerOK
  <2>4. LinkOK'
    BY <1>3 DEF ConnectionLost, LinkOK, Connections
  <2>5. BoundsOK'
    BY <1>3, FaultTypes DEF ConnectionLost, BoundsOK
  <2> QED BY <1>3, <2>1, <2>4, <2>5, JournalKept, DesiredKept, HandlerKept, PassKept DEF ConnectionLost
<1>4. CASE Connected
  <2>1. LinkOK'
    BY <1>4 DEF Connected, LinkOK, Connections
  <2>2. HandlerOK'
    BY <1>4 DEF Connected, HandlerOK, handler
  <2> QED BY <1>4, <2>1, <2>2, JournalKept, DesiredKept, BrokerKept, PassKept, BoundsKept DEF Connected
<1>5. ASSUME NEW th \in Threads, WaitTimesOut(th) PROVE TypeParts'
  <2>1. \A m \in Message : [m EXCEPT !.by = "nobody"] \in Message
    <3>1. SUFFICES ASSUME NEW m \in Message PROVE [m EXCEPT !.by = "nobody"] \in Message
      OBVIOUS
    <3>2. [m EXCEPT !.by = "nobody"] = [by |-> "nobody", to |-> m.to, val |-> m.val] /\ Fits(m.to, m.val)
      BY MessageFields
    <3>3. [by |-> "nobody", to |-> m.to, val |-> m.val] \in Message
      BY <3>2, MessageIs
    <3> QED BY <3>2, <3>3
  <2>2. wire' \in Seq(Message)
    <3>1. DOMAIN wire = 1 .. Len(wire)
      BY DEF LinkOK
    <3>2. wire' \in [1 .. Len(wire) -> Message]
      BY <1>1, <1>5, <2>1, <3>1 DEF WaitTimesOut
    <3> QED BY <1>1, <3>2
  <2>3. token' \in [Threads -> {"none", "wait", "ok", "err"}]
    BY <1>5 DEF WaitTimesOut, LinkOK
  <2>4. LinkOK'
    BY <1>5, <2>2, <2>3 DEF WaitTimesOut, LinkOK
  <2>5. BoundsOK'
    BY <1>5, FaultTypes DEF WaitTimesOut, BoundsOK
  <2> QED BY <1>5, <2>4, <2>5, JournalKept, DesiredKept, BrokerKept, HandlerKept, PassKept DEF WaitTimesOut
<1> QED BY <1>2, <1>3, <1>4, <1>5

\* What a start registers: some of the active hazards, all of them unless it
\* stopped early, each with a generation of its own.
LEMMA SeedIs ==
  ASSUME JournalOK, ProcessRestarts
  PROVE  /\ gen' \in Nat
         /\ short' \in BOOLEAN
         /\ cache' \in [Hazards -> Entry]
         /\ \A k \in Hazards :
              /\ cache'[k] # Absent => cache'[k].ver # 0 /\ cache'[k].gen <= gen'
              /\ cache'[k] = Absent => cache'[k].ver = 0
              /\ ~short' => cache'[k].ver = Truth(k)
<1> DEFINE A == {k \in Hazards : Truth(k) # 0}
<1>1. \A k : Truth(k) = Newest(journal, k)
  BY TruthIsNewest, Zenon
<1>2. IsFiniteSet(A)
  <2>1. A = {k \in Hazards : Newest(journal, k) # 0}
    BY <1>1
  <2> HIDE DEF A
  <2> QED BY <2>1, NewestIsOwn DEF JournalOK
<1>3. \A k \in Hazards : Truth(k) \in Nat
  BY TruthTypes DEF JournalOK
<1>4. PICK keys \in SUBSET A : Seeded(keys) /\ short' = (keys # A)
  BY DEF ProcessRestarts
<1>5. keys \subseteq Hazards /\ \A k \in keys : Truth(k) # 0 /\ Truth(k) \in Nat
  BY <1>3
<1>6. Cardinality(keys) \in Nat
  <2> HIDE DEF A
  <2> QED BY <1>2, FS_Subset, FS_CardinalityType
<1>7. short' \in BOOLEAN
  BY <1>4, Zenon
<1>8. ~short' => \A k \in Hazards : k \in keys \/ Truth(k) = 0
  BY <1>4
<1>9. PICK order \in [keys -> 1 .. Cardinality(keys)] :
        cache' = [k \in Hazards |-> IF k \in keys THEN [ver |-> Truth(k), gen |-> order[k]] ELSE Absent]
  BY <1>4 DEF Seeded
<1>10. gen' = Cardinality(keys)
  BY <1>4 DEF Seeded
<1>11. ASSUME NEW k \in Hazards
       PROVE  \/ k \in keys /\ cache'[k] = [ver |-> Truth(k), gen |-> order[k]]
                 /\ order[k] \in Nat /\ order[k] <= gen' /\ Truth(k) # 0 /\ Truth(k) \in Nat
              \/ k \notin keys /\ cache'[k] = Absent
  BY <1>5, <1>6, <1>9, <1>10
<1>12. ASSUME NEW k \in Hazards
       PROVE  /\ cache'[k] \in Entry
              /\ cache'[k] # Absent => cache'[k].ver # 0 /\ cache'[k].gen <= gen'
              /\ cache'[k] = Absent => cache'[k].ver = 0
              /\ k \in keys \/ Truth(k) = 0 => cache'[k].ver = Truth(k)
  <2>1. CASE k \in keys
    <3>1. /\ cache'[k] = [ver |-> Truth(k), gen |-> order[k]]
          /\ order[k] \in Nat /\ order[k] <= gen' /\ Truth(k) # 0 /\ Truth(k) \in Nat
      BY <1>11, <2>1
    <3>2. cache'[k].ver = Truth(k) /\ cache'[k].gen = order[k] /\ cache'[k] \in Entry
      BY <3>1 DEF Entry
    <3> QED BY <3>1, <3>2 DEF Absent
  <2>2. CASE k \notin keys
    <3>1. cache'[k] = Absent
      BY <1>11, <2>2
    <3> QED BY <2>2, <3>1 DEF Entry, Absent
  <2> QED BY <2>1, <2>2
<1>13. cache' \in [Hazards -> Entry]
  BY <1>9, <1>12
<1> QED BY <1>6, <1>7, <1>8, <1>10, <1>12, <1>13

LEMMA RestartTypes ==
  ASSUME TypeParts, ProcessRestarts
  PROVE  TypeParts'
<1> USE DEF TypeParts
<1>1. DesiredOK'
  BY SeedIs, PassEntries DEF DesiredOK, ProcessRestarts
<1>2. BrokerOK'
  BY AfterTypes DEF ProcessRestarts, BrokerOK
<1>3. wire' \in Seq(Message) /\ conn' \in Connections
  <2>1. wire' = <<>> /\ conn' = "never"
    BY DEF ProcessRestarts
  <2>2. wire' \in Seq(Message)
    BY <2>1
  <2>3. conn' \in Connections
    BY <2>1 DEF Connections
  <2> QED BY <2>2, <2>3
<1>4. token' \in [Threads -> {"none", "wait", "ok", "err"}]
  BY DEF ProcessRestarts
<1>5. HandlerOK'
  BY DEF ProcessRestarts, HandlerOK, HandlerStates
<1>6. pass' \in 0 .. MaxPasses - 1 /\ rpc' \in RehydrateStates
  BY ViewConstants DEF ProcessRestarts, RehydrateStates
<1>7. dirty' \in BOOLEAN /\ gaveUp' \in BOOLEAN /\ restarted' \in BOOLEAN
  BY DEF ProcessRestarts
<1>8. PassOK'
  BY <1>6, <1>7, PassEntries DEF PassOK, ProcessRestarts
<1>9. BoundsOK'
  BY <1>7, SeedIs, FaultTypes DEF BoundsOK, ProcessRestarts
<1>10. JournalOK'
  BY JournalKept DEF ProcessRestarts
<1> QED BY <1>1, <1>2, <1>3, <1>4, <1>5, <1>8, <1>9, <1>10 DEF LinkOK

LEMMA TypesKept ==
  ASSUME TypeParts, HandleKnows, PassShape, [ViewNext]_viewVars
  PROVE  TypeParts'
<1>1. CASE UNCHANGED viewVars
  BY <1>1, JournalKept, DesiredKept, BrokerKept, LinkKept, HandlerKept, PassKept, BoundsKept DEF viewVars, TypeParts
<1>2. ASSUME NEW k \in Hazards, NEW active \in BOOLEAN, StoreWrites(k, active) PROVE TypeParts'
  <2>1. [key |-> k, active |-> active] \in Change
    BY DEF Change
  <2>2. journal' \in Seq(Change) /\ Len(journal') = Len(journal) + 1 /\ Len(journal) \in Nat
    BY <1>2, <2>1 DEF StoreWrites, TypeParts, JournalOK
  <2>3. JournalOK'
    BY <1>2, <2>2 DEF StoreWrites, TypeParts, JournalOK
  <2> QED BY <1>2, <2>3, DesiredKept, BrokerKept, LinkKept, HandlerKept, PassKept, BoundsKept
          DEF StoreWrites, TypeParts
<1> QED BY <1>1, <1>2, HandleTypes, RehydrateTypes, LinkTypes, RestartTypes DEF ViewNext

-----------------------------------------------------------------------------
(* The parts of the invariant that do not look at the topics.              *)

LEMMA EntryIs ==
  /\ \A e \in Entry : e.ver \in Nat /\ e.gen \in Nat /\ (e = Absent <=> e.ver = 0 /\ e.gen = 0)
  /\ \A v, g \in Nat : [ver |-> v, gen |-> g] \in Entry
  /\ Absent \in Entry
BY DEF Entry, Absent

LEMMA GensFrame ==
  ASSUME GensIssued, UNCHANGED <<cache, snap, pend, dels, gen>>
  PROVE  GensIssued'
BY DEF GensIssued

LEMMA GensKept ==
  ASSUME TypeParts, TypeParts', GensIssued, [ViewNext]_viewVars
  PROVE  GensIssued'
<1>1. gen \in Nat /\ gen' \in Nat
  BY DEF TypeParts, DesiredOK
<1>2. \A k \in Hazards : /\ cache[k] \in Entry /\ snap[k] \in Entry /\ pend[k] \in Nat /\ dels[k] \in Nat
                         /\ cache'[k] \in Entry /\ snap'[k] \in Entry /\ pend'[k] \in Nat /\ dels'[k] \in Nat
  BY DEF TypeParts, DesiredOK, PassOK, View
<1>3. \A k \in Hazards : /\ cache[k].gen \in Nat /\ cache[k].ver \in Nat /\ snap[k].gen \in Nat /\ snap[k].ver \in Nat
                         /\ cache'[k].gen \in Nat /\ snap'[k].gen \in Nat
  BY <1>2, EntryIs
<1>4. Absent.ver = 0 /\ Absent.gen = 0
  BY DEF Absent
<1>5. CASE HandleChange
  <2>1. gen' = gen + 1 /\ snap' = snap /\ dels' = dels
    BY <1>5 DEF HandleChange, rehydration
  <2>2. ASSUME NEW k \in Hazards
        PROVE  \/ cache'[k] = cache[k] /\ pend'[k] = pend[k]
               \/ cache'[k].ver # 0 /\ cache'[k].gen = gen + 1 /\ pend'[k] = 0
               \/ cache'[k] = Absent /\ pend'[k] = gen + 1
    <3>1. CASE Todo.active
      <4>1. acked + 1 # 0
        BY DEF TypeParts, JournalOK
      <4>2. cache' = [cache EXCEPT ![Todo.key] = [ver |-> acked + 1, gen |-> gen + 1]] /\ pend' = [pend EXCEPT ![Todo.key] = 0]
        BY <1>5, <3>1 DEF HandleChange
      <4> QED BY <4>1, <4>2 DEF TypeParts, DesiredOK, View
    <3>2. CASE ~Todo.active
      BY <1>5, <3>2 DEF HandleChange, TypeParts, DesiredOK, View
    <3> QED BY <3>1, <3>2
  <2>3. ASSUME NEW k \in Hazards
        PROVE /\ cache'[k].gen <= gen' /\ snap'[k].gen <= gen' /\ pend'[k] <= gen' /\ dels'[k] <= gen'
              /\ cache'[k].ver = 0 <=> cache'[k] = Absent
              /\ snap'[k].ver = 0 <=> snap'[k] = Absent
              /\ cache'[k] # Absent => pend'[k] = 0
              /\ snap'[k] # Absent /\ cache'[k] # Absent /\ snap'[k].gen = cache'[k].gen => snap'[k] = cache'[k]
    BY <1>1, <1>2, <1>3, <1>4, <2>1, <2>2 DEF GensIssued
  <2> QED BY <2>3 DEF GensIssued
<1>6. ASSUME gen' = gen, cache' = cache,
             \A k \in Hazards : /\ pend'[k] \in {pend[k], 0}
                                /\ snap'[k] \in {snap[k], Absent, cache[k]}
                                /\ dels'[k] \in {dels[k], 0, pend[k]}
      PROVE  GensIssued'
  BY <1>1, <1>2, <1>3, <1>4, <1>6 DEF GensIssued
<1>7. CASE HandlePublished
  BY <1>6, <1>7 DEF HandlePublished, TypeParts, DesiredOK, View, rehydration
<1>8. CASE SnapshotActive
  BY <1>6, <1>8 DEF SnapshotActive, desired
<1>9. CASE SnapshotDeletes
  BY <1>6, <1>9 DEF SnapshotDeletes, desired
<1>10. ASSUME NEW k \in Hazards, RepublishActive(k) PROVE GensIssued'
  BY <1>6, <1>10 DEF RepublishActive, desired, TypeParts, PassOK
<1>11. ASSUME NEW k \in Hazards, NextDelete(k) PROVE GensIssued'
  BY <1>6, <1>11 DEF NextDelete, desired, TypeParts, PassOK, View
<1>12. CASE AttemptEnds
  BY <1>6, <1>12 DEF AttemptEnds, TypeParts, DesiredOK, View
<1>13. CASE RegisterPendingDelete
  <2>1. ASSUME cache[rkey.key] = Absent PROVE GensIssued'
    <3> DEFINE g == IF pend[rkey.key] # 0 THEN pend[rkey.key] ELSE gen + 1
    <3>1. /\ gen' = IF pend[rkey.key] # 0 THEN gen ELSE gen + 1
          /\ pend' = [pend EXCEPT ![rkey.key] = g] /\ cache' = cache /\ snap' = snap /\ dels' = dels
      BY <1>13, <2>1 DEF RegisterPendingDelete
    <3>2. gen <= gen'
      BY <1>1, <3>1
    <3>3. \A k \in Hazards : pend'[k] = pend[k] \/ (cache[k] = Absent /\ pend'[k] <= gen')
      <4>1. rkey.key \in Hazards => g <= gen'
        BY <1>1, <1>2, <3>1 DEF GensIssued
      <4> HIDE DEF g
      <4> QED BY <2>1, <3>1, <4>1 DEF TypeParts, DesiredOK, View
    <3> QED BY <1>1, <1>2, <1>3, <3>1, <3>2, <3>3 DEF GensIssued
  <2>2. ASSUME cache[rkey.key] # Absent PROVE GensIssued'
    BY <1>13, <2>2, GensFrame DEF RegisterPendingDelete
  <2> QED BY <2>1, <2>2
<1>14. CASE ProcessRestarts
  <2>1. snap' = NoEntries /\ dels' = Nothing /\ pend' = Nothing
    BY <1>14 DEF ProcessRestarts
  <2>2. \A k \in Hazards : snap'[k] = Absent /\ dels'[k] = 0 /\ pend'[k] = 0
    BY <2>1 DEF NoEntries, Nothing
  <2>3. \A k \in Hazards : /\ cache'[k] # Absent => cache'[k].ver # 0 /\ cache'[k].gen <= gen'
                           /\ cache'[k] = Absent => cache'[k].ver = 0
    BY <1>14, SeedIs DEF TypeParts
  <2> QED BY <1>1, <1>4, <2>2, <2>3 DEF GensIssued
<1>15. CASE UNCHANGED <<cache, snap, pend, dels, gen>>
  BY <1>15, GensFrame
<1>16. CASE HandleNext
  BY <1>5, <1>7, <1>15, <1>16 DEF HandleNext, HandlePublishes, HandlePublishesList, HandleReturns, desired, rehydration
<1>17. CASE RehydrateNext
  BY <1>8, <1>9, <1>10, <1>11, <1>12, <1>13, <1>15, <1>17 DEF RehydrateNext, RehydrateBegins, RepublishCheck,
     AttemptStale, AttemptValid, AttemptPublishes, DeleteRecheck, PassEnds, RehydrateBuildsList,
     RehydratePublishesList, RehydrateReturns, desired
<1>18. CASE UNCHANGED viewVars
  BY <1>15, <1>18 DEF viewVars, desired, rehydration
<1>19. CASE \/ \E k \in Hazards, active \in BOOLEAN : StoreWrites(k, active)
            \/ BrokerApplies \/ ConnectionLost \/ Connected
            \/ \E th \in Threads : WaitTimesOut(th)
  BY <1>15, <1>19 DEF StoreWrites, BrokerApplies, ConnectionLost, Connected, WaitTimesOut, desired, rehydration
<1> QED BY <1>14, <1>16, <1>17, <1>18, <1>19 DEF ViewNext

\* The steps that neither handle a change nor end the process.
Elsewhere ==
  /\ UNCHANGED <<acked, cache, hpc, hgen>>
  /\ gen' >= gen
  /\ short' = short
  /\ \/ journal' = journal
     \/ \E c \in Change : journal' = Append(journal, c)

LEMMA StoreElsewhere ==
  ASSUME TypeParts, NEW k \in Hazards, NEW active \in BOOLEAN, StoreWrites(k, active)
  PROVE  Elsewhere
<1>1. [key |-> k, active |-> active] \in Change /\ gen \in Nat
  BY DEF Change, TypeParts, DesiredOK
<1>2. journal' = Append(journal, [key |-> k, active |-> active])
  BY DEF StoreWrites
<1> QED BY <1>1, <1>2 DEF StoreWrites, desired, handler, viewBounds, Elsewhere

LEMMA ElsewhereSteps ==
  ASSUME TypeParts, [ViewNext]_viewVars
  PROVE  Elsewhere \/ HandleNext \/ ProcessRestarts
<1>1. gen \in Nat
  BY DEF TypeParts, DesiredOK
<1>2. CASE RehydrateNext
  BY <1>1, <1>2 DEF RehydrateNext, RehydrateBegins, SnapshotActive, SnapshotDeletes, RepublishActive, NextDelete,
     RepublishCheck, RegisterPendingDelete, AttemptStale, AttemptValid, AttemptPublishes, AttemptEnds, DeleteRecheck,
     PassEnds, RehydrateBuildsList, RehydratePublishesList, RehydrateReturns, desired, handler, viewBounds, Elsewhere
<1>3. CASE UNCHANGED viewVars
  BY <1>1, <1>3 DEF viewVars, desired, handler, viewBounds, Elsewhere
<1>4. CASE \/ BrokerApplies \/ ConnectionLost \/ Connected
           \/ \E th \in Threads : WaitTimesOut(th)
  BY <1>1, <1>4 DEF BrokerApplies, ConnectionLost, Connected, WaitTimesOut, desired, handler, viewBounds, Elsewhere
<1> QED BY <1>2, <1>3, <1>4, StoreElsewhere DEF ViewNext

\* Elsewhere the change Handle works on stays the same.
LEMMA SameTodo ==
  ASSUME TypeParts, Elsewhere, acked < Len(journal)
  PROVE  Todo' = Todo /\ acked' < Len(journal')
<1>1. CASE journal' = journal
  BY <1>1 DEF Elsewhere, Todo
<1>2. ASSUME NEW c \in Change, journal' = Append(journal, c) PROVE Todo' = Todo /\ acked' < Len(journal')
  <2>1. journal \in Seq(Change) /\ acked + 1 \in 1 .. Len(journal) /\ acked \in Nat
    BY DEF TypeParts, JournalOK
  <2>2. Append(journal, c)[acked + 1] = journal[acked + 1] /\ Len(Append(journal, c)) = Len(journal) + 1
    BY <2>1
  <2>3. acked' = acked /\ Len(journal) \in Nat
    BY <2>1 DEF Elsewhere
  <2> QED BY <1>2, <2>1, <2>2, <2>3 DEF Todo
<1> QED BY <1>1, <1>2 DEF Elsewhere

LEMMA HandleKnowsKept ==
  ASSUME TypeParts, TypeParts', HandleKnows, [ViewNext]_viewVars
  PROVE  HandleKnows'
<1>1. gen \in Nat /\ gen' \in Nat /\ hgen \in Nat /\ acked \in Nat /\ Len(journal) \in Nat
  BY DEF TypeParts, DesiredOK, HandlerOK, JournalOK
<1>2. CASE Elsewhere
  <2>1. hgen' <= gen'
    BY <1>1, <1>2 DEF Elsewhere, HandleKnows
  <2>2. hpc' # "idle" => acked' < Len(journal') /\ cache'[(Todo.key)'].ver = IF (Todo.active)' THEN acked' + 1 ELSE 0
    BY <1>2, SameTodo DEF Elsewhere, HandleKnows
  <2> QED BY <1>2, <2>1, <2>2 DEF Elsewhere, HandleKnows
<1>3. CASE HandleChange
  <2>1. Todo' = Todo /\ acked' = acked /\ journal' = journal
    BY <1>3 DEF HandleChange, Todo
  <2>2. Todo.key \in Hazards
    BY <1>3, TodoTypes DEF HandleChange, TypeParts
  <2>3. cache'[Todo.key].ver = IF Todo.active THEN acked + 1 ELSE 0
    BY <1>3, <2>2 DEF HandleChange, TypeParts, DesiredOK, Absent
  <2>4. hgen' <= gen' /\ hpc' = "publish" /\ acked < Len(journal)
    BY <1>1, <1>3 DEF HandleChange
  <2> QED BY <2>1, <2>3, <2>4 DEF HandleKnows
<1>4. ASSUME HandlePublishes \/ HandlePublished \/ HandlePublishesList PROVE HandleKnows'
  <2>1. /\ UNCHANGED <<journal, acked, cache, gen>> /\ Todo' = Todo
        /\ hpc # "idle" /\ hgen' \in {hgen, 0}
        /\ hpc' \in {"idle", "list", "waitList"} => hgen' = 0
    BY <1>4 DEF HandlePublishes, HandlePublished, HandlePublishesList, desired, Todo, HandleKnows
  <2> QED BY <1>1, <2>1 DEF HandleKnows
<1>5. CASE HandleReturns
  BY <1>1, <1>5 DEF HandleReturns, HandleKnows, desired
<1>6. CASE ProcessRestarts
  BY <1>1, <1>6 DEF ProcessRestarts, HandleKnows
<1> QED BY <1>2, <1>3, <1>4, <1>5, <1>6, ElsewhereSteps DEF HandleNext

LEMMA CacheNewestKept ==
  ASSUME TypeParts, HandleKnows, CacheIsNewest, [ViewNext]_viewVars
  PROVE  CacheIsNewest'
<1>1. journal \in Seq(Change) /\ acked \in Nat /\ acked <= Len(journal) /\ Len(journal) \in Nat
      /\ DOMAIN journal = 1 .. Len(journal)
  BY DEF TypeParts, JournalOK
<1>2. /\ \A k : Truth(k) = Newest(journal, k)
      /\ \A k : Truth(k)' = Newest(journal', k)
  BY TruthIsNewest, Zenon
<1>3. ASSUME Elsewhere, ~short', NEW k \in Hazards
      PROVE  \/ cache'[k].ver = Truth(k)'
             \/ \E i \in DOMAIN journal' : i > acked' /\ journal'[i].key = k
  <2>1. CASE journal' = journal
    BY <1>2, <1>3, <2>1 DEF Elsewhere, CacheIsNewest
  <2>2. ASSUME NEW c \in Change, journal' = Append(journal, c)
        PROVE  \/ cache'[k].ver = Truth(k)'
               \/ \E i \in DOMAIN journal' : i > acked' /\ journal'[i].key = k
    <3>1. /\ DOMAIN journal' = 1 .. Len(journal) + 1
          /\ journal'[Len(journal) + 1] = c
          /\ \A i \in DOMAIN journal : journal'[i] = journal[i]
      BY <1>1, <2>2
    <3>2. CASE c.key = k
      <4>1. Len(journal) + 1 \in DOMAIN journal' /\ Len(journal) + 1 > acked'
        BY <1>1, <1>3, <3>1 DEF Elsewhere
      <4> QED BY <3>1, <3>2, <4>1
    <3>3. CASE c.key # k
      <4>1. Truth(k)' = Truth(k)
        BY <1>1, <1>2, <2>2, <3>3, NewestOfOthers
      <4>2. CASE \E i \in DOMAIN journal : i > acked /\ journal[i].key = k
        BY <1>1, <1>3, <3>1, <4>2 DEF Elsewhere
      <4>3. CASE cache[k].ver = Truth(k)
        BY <1>3, <4>1, <4>3 DEF Elsewhere
      <4> QED BY <1>3, <4>2, <4>3 DEF Elsewhere, CacheIsNewest
    <3> QED BY <3>2, <3>3
  <2> QED BY <1>3, <2>1, <2>2 DEF Elsewhere
<1>4. CASE HandleChange
  <2>1. UNCHANGED <<journal, acked, short>> /\ acked + 1 \in DOMAIN journal /\ acked + 1 > acked
    BY <1>1, <1>4 DEF HandleChange, viewBounds
  <2>2. \A k \in Hazards : k # Todo.key => cache'[k] = cache[k]
    BY <1>4 DEF HandleChange, TypeParts, DesiredOK
  <2>3. journal[acked + 1].key = Todo.key
    BY DEF Todo
  <2> QED BY <1>2, <2>1, <2>2, <2>3 DEF CacheIsNewest
<1>5. ASSUME HandlePublishes \/ HandlePublished \/ HandlePublishesList PROVE CacheIsNewest'
  <2>1. UNCHANGED <<journal, acked, short, cache>>
    BY <1>5 DEF HandlePublishes, HandlePublished, HandlePublishesList, desired, viewBounds
  <2> QED BY <1>2, <2>1 DEF CacheIsNewest
<1>6. CASE HandleReturns
  <2>1. UNCHANGED <<journal, short, cache>> /\ acked' \in {acked, acked + 1}
    BY <1>6 DEF HandleReturns, desired, viewBounds
  <2>2. CASE acked' = acked
    BY <1>2, <2>1, <2>2 DEF CacheIsNewest
  <2>3. CASE acked' = acked + 1
    <3>1. SUFFICES ASSUME ~short, NEW k \in Hazards, ~ \E i \in DOMAIN journal : i > acked + 1 /\ journal[i].key = k
                   PROVE  cache[k].ver = Newest(journal, k)
      BY <1>2, <2>1, <2>3 DEF CacheIsNewest
    <3>2. CASE cache[k].ver = Truth(k)
      BY <1>2, <3>2
    <3>3. ASSUME NEW i \in DOMAIN journal, i > acked, journal[i].key = k PROVE cache[k].ver = Newest(journal, k)
      <4>1. i = acked + 1
        BY <1>1, <3>1, <3>3
      <4>2. k = Todo.key /\ journal[i] = Todo
        BY <3>3, <4>1 DEF Todo
      <4>3. \A j \in DOMAIN journal : journal[j].key = journal[i].key => j <= i
        BY <1>1, <3>1, <3>3, <4>1
      <4>4. Newest(journal, journal[i].key) = IF journal[i].active THEN i ELSE 0
        BY <1>1, <4>3, NewestIs
      <4>5. cache[k].ver = IF Todo.active THEN acked + 1 ELSE 0
        BY <1>6, <4>2 DEF HandleReturns, HandleKnows
      <4> QED BY <3>3, <4>1, <4>2, <4>4, <4>5
    <3> QED BY <3>1, <3>2, <3>3 DEF CacheIsNewest
  <2> QED BY <2>1, <2>2, <2>3
<1>7. CASE ProcessRestarts
  <2>1. \A k \in Hazards : ~short' => cache'[k].ver = Truth(k)
    BY <1>7, SeedIs DEF TypeParts
  <2>2. journal' = journal
    BY <1>7 DEF ProcessRestarts
  <2> QED BY <1>2, <2>1, <2>2 DEF CacheIsNewest
<1>8. CASE Elsewhere
  BY <1>3, <1>8 DEF CacheIsNewest
<1> QED BY <1>4, <1>5, <1>6, <1>7, <1>8, ElsewhereSteps DEF HandleNext

\* The steps that are not of the rehydration leave it alone, or end it.
LEMMA RehydrationAlone ==
  ASSUME TypeParts, [ViewNext]_viewVars
  PROVE  \/ RehydrateNext \/ ProcessRestarts
         \/ /\ UNCHANGED rehydration
            /\ gen' >= gen
            /\ shared' = shared /\ restarted' = restarted
<1>1. gen \in Nat
  BY DEF TypeParts, DesiredOK
<1> DEFINE Alone == UNCHANGED rehydration /\ gen' >= gen /\ shared' = shared /\ restarted' = restarted
<1>2. CASE UNCHANGED viewVars
  BY <1>1, <1>2 DEF viewVars, desired, viewBounds
<1>3. CASE HandleNext
  <2>1. HandleChange => Alone
    BY <1>1 DEF HandleChange, viewBounds
  <2>2. HandlePublishes \/ HandlePublished \/ HandlePublishesList \/ HandleReturns => Alone
    BY <1>1 DEF HandlePublishes, HandlePublished, HandlePublishesList, HandleReturns, desired, viewBounds
  <2> QED BY <1>3, <2>1, <2>2 DEF HandleNext
<1>4. CASE \/ \E k \in Hazards, active \in BOOLEAN : StoreWrites(k, active)
           \/ BrokerApplies \/ ConnectionLost \/ Connected
           \/ \E th \in Threads : WaitTimesOut(th)
  <2>1. \A k, active : StoreWrites(k, active) => Alone
    BY <1>1 DEF StoreWrites, desired, viewBounds
  <2>2. \A th : WaitTimesOut(th) => Alone
    BY <1>1 DEF WaitTimesOut, desired
  <2>3. BrokerApplies => Alone
    BY <1>1 DEF BrokerApplies, desired, viewBounds
  <2>4. ConnectionLost => Alone
    BY <1>1 DEF ConnectionLost, desired
  <2>5. Connected => Alone
    BY <1>1 DEF Connected, desired, viewBounds
  <2> HIDE DEF Alone
  <2>6. Alone
    BY <1>4, <2>1, <2>2, <2>3, <2>4, <2>5
  <2> QED BY <2>6 DEF Alone
<1> QED BY <1>2, <1>3, <1>4 DEF ViewNext

LEMMA PassShapeKept ==
  ASSUME TypeParts, TypeParts', GensIssued, PassShape, [ViewNext]_viewVars
  PROVE  PassShape'
<1>1. gen \in Nat /\ gen' \in Nat /\ rkey.gen \in Nat
  BY DEF TypeParts, DesiredOK, PassOK
<1>2. \A k \in Hazards : snap[k].gen \in Nat /\ snap[k].gen <= gen /\ dels[k] <= gen /\ dels[k] \in Nat /\ pend[k] \in Nat
                         /\ pend[k] <= gen
  BY PassEntries, EntryIs DEF GensIssued
<1> USE DEF InPass
<1>3. ASSUME UNCHANGED rehydration, gen' >= gen PROVE PassShape'
  BY <1>1, <1>3 DEF rehydration, PassShape
<1>4. CASE RehydrateBegins \/ SnapshotActive \/ SnapshotDeletes
  BY <1>1, <1>4 DEF RehydrateBegins, SnapshotActive, SnapshotDeletes, desired, PassShape
<1>5. ASSUME NEW k \in Hazards, RepublishActive(k) PROVE PassShape'
  BY <1>1, <1>2, <1>5 DEF RepublishActive, desired, PassShape
<1>6. ASSUME NEW k \in Hazards, NextDelete(k) PROVE PassShape'
  BY <1>1, <1>2, <1>6 DEF NextDelete, desired, PassShape
<1>7. CASE RepublishCheck
  BY <1>1, <1>7 DEF RepublishCheck, desired, PassShape
<1>8. CASE RegisterPendingDelete
  <2> DEFINE g == IF pend[rkey.key] # 0 THEN pend[rkey.key] ELSE gen + 1
  <2>1. rkey.key \in Hazards /\ dirty /\ ~rkey.deleting
    BY <1>8 DEF RegisterPendingDelete, PassShape
  <2>2. CASE cache[rkey.key] # Absent
    BY <1>1, <1>8, <2>1, <2>2 DEF RegisterPendingDelete, PassShape
  <2>3. CASE cache[rkey.key] = Absent
    <3>1. /\ rpc' = "attempt" /\ rkey' = [rkey EXCEPT !.gen = g] /\ dirty' = dirty
          /\ gen' = IF pend[rkey.key] # 0 THEN gen ELSE gen + 1
      BY <1>8, <2>3 DEF RegisterPendingDelete
    <3>2. g \in Nat /\ g # 0 /\ g <= gen'
      BY <1>1, <1>2, <2>1, <3>1
    <3> HIDE DEF g
    <3>3. rkey'.gen = g /\ rkey'.key = rkey.key /\ rkey'.deleting = rkey.deleting
      BY <3>1 DEF TypeParts, PassOK
    <3> QED BY <2>1, <3>1, <3>2, <3>3 DEF PassShape
  <2> QED BY <2>2, <2>3
<1>9. CASE AttemptStale \/ AttemptValid \/ AttemptPublishes \/ AttemptEnds
  BY <1>1, <1>9 DEF AttemptStale, AttemptValid, AttemptPublishes, AttemptEnds, AfterAttempt, desired, PassShape
<1>10. CASE DeleteRecheck
  BY <1>1, <1>10 DEF DeleteRecheck, desired, PassShape
<1>11. CASE PassEnds
  BY <1>1, <1>11 DEF PassEnds, desired, PassShape, NoKey
<1>12. CASE RehydrateBuildsList \/ RehydratePublishesList \/ RehydrateReturns
  BY <1>1, <1>12 DEF RehydrateBuildsList, RehydratePublishesList, RehydrateReturns, desired, PassShape
<1>13. CASE ProcessRestarts
  BY <1>1, <1>13 DEF ProcessRestarts, PassShape, NoKey
<1>14. CASE RehydrateNext
  BY <1>4, <1>5, <1>6, <1>7, <1>8, <1>9, <1>10, <1>11, <1>12, <1>14 DEF RehydrateNext
<1> QED BY <1>3, <1>13, <1>14, RehydrationAlone

-----------------------------------------------------------------------------
(* What the steps do to the outcome of a topic.                            *)

LEMMA PublishDrains ==
  ASSUME LinkOK, NEW th \in Threads, NEW to, NEW val, Fits(to, val), Publish(th, to, val), topics' = topics
  PROVE  /\ conn' = conn
         /\ \A k, v : k # to /\ Drains(wire, topics[k], k, v) => Drains(wire', topics'[k], k, v)
         /\ conn # "never" => Drains(wire', topics'[to], to, val)
<1> DEFINE m == [by |-> th, to |-> to, val |-> val]
<1>1. m \in Message /\ m.to = to /\ m.val = val
  BY MessageIs
<1>2. wire \in Seq(Message) /\ conn' = conn
  BY DEF LinkOK, Publish, Send, Refused
<1>3. CASE wire' = Append(wire, m)
  <2> HIDE DEF m
  <2> QED BY <1>1, <1>2, <1>3, AppendedDrains
<1>4. CASE wire' = wire /\ conn = "never"
  BY <1>2, <1>4
<1> QED BY <1>3, <1>4 DEF Publish, Send, Refused

LEMMA FirstApplied ==
  ASSUME LinkOK, wire # <<>>, NEW k \in Hazards
  PROVE  TopicsAfter(1)[k] = IF wire[1].to = k THEN wire[1].val ELSE topics[k]
<1> DEFINE S == {i \in 1 .. 1 : wire[i].to = k}
<1>1. TopicsAfter(1)[k] = IF S = {} THEN topics[k] ELSE wire[LastOf(S)].val
  BY DEF TopicsAfter, LastOf
<1>2. CASE wire[1].to = k
  <2>1. S \in SUBSET (1 .. 1) /\ 1 \in S /\ (\A j \in S : j <= 1) /\ 1 \in Nat
    BY <1>2
  <2>2. LastOf(S) = 1
    <3> HIDE DEF S
    <3> QED BY <2>1, LastOfIs
  <2>3. S # {}
    BY <2>1
  <2> HIDE DEF S
  <2> QED BY <1>1, <1>2, <2>2, <2>3
<1>3. CASE wire[1].to # k
  <2>1. S = {}
    BY <1>3
  <2> HIDE DEF S
  <2> QED BY <1>1, <1>3, <2>1
<1> QED BY <1>2, <1>3

LEMMA Relabelled ==
  ASSUME LinkOK, NEW th \in Threads, WaitTimesOut(th)
  PROVE  /\ topics' = topics /\ DOMAIN wire' = DOMAIN wire
         /\ \A i \in DOMAIN wire :
              /\ wire'[i].to = wire[i].to /\ wire'[i].val = wire[i].val
              /\ wire'[i].by = IF wire[i].by = th THEN "nobody" ELSE wire[i].by
<1>1. topics' = topics /\ DOMAIN wire' = DOMAIN wire
  BY DEF WaitTimesOut, broker
<1>2. \A i \in DOMAIN wire : wire[i] \in Message
  BY DEF LinkOK
<1>3. \A m \in Message : /\ [m EXCEPT !.by = "nobody"].to = m.to /\ [m EXCEPT !.by = "nobody"].val = m.val
                         /\ [m EXCEPT !.by = "nobody"].by = "nobody"
  BY MessageFields
<1> QED BY <1>1, <1>2, <1>3 DEF WaitTimesOut

LEMMA LinkDrains ==
  ASSUME LinkOK, BrokerApplies \/ \E th \in Threads : WaitTimesOut(th),
         NEW k \in Hazards, NEW v, Drains(wire, topics[k], k, v)
  PROVE  Drains(wire', topics'[k], k, v)
<1>1. CASE BrokerApplies
  <2>1. wire \in Seq(Message) /\ wire # <<>> /\ wire' = Tail(wire) /\ topics' = TopicsAfter(1)
    BY <1>1 DEF BrokerApplies, LinkOK
  <2>2. topics'[k] = IF wire[1].to = k THEN wire[1].val ELSE topics[k]
    BY <2>1, FirstApplied
  <2> QED BY <2>1, <2>2, AppliedDrains
<1>2. ASSUME NEW th \in Threads, WaitTimesOut(th) PROVE Drains(wire', topics'[k], k, v)
  BY <1>2, Relabelled DEF Drains
<1> QED BY <1>1, <1>2

LEMMA HandleCovers ==
  ASSUME TypeParts, HandleKnows, ActiveCovered, HandleNext, NEW k \in Hazards, cache'[k] # Absent
  PROVE  WillShow(k)'
<1>1. UNCHANGED <<conn, waiting, gaveUp, rpc, dirty, snap, rkey, topics>>
  BY DEF HandleNext, HandleChange, HandlePublishes, HandlePublished, HandlePublishesList, HandleReturns,
         link, rehydration, broker, Consume, Publish, Send, Refused
<1> USE <1>1 DEF WillShow, LastIs, Rehydrates, HandlePublishesTo
<1>2. CASE HandleChange
  <2>1. Todo' = Todo /\ hpc' = "publish" /\ wire' = wire /\ hpc = "idle"
    BY <1>2 DEF HandleChange, Todo, link
  <2>2. k # Todo.key => cache'[k] = cache[k]
    BY <1>2 DEF HandleChange, TypeParts, DesiredOK
  <2> QED BY <2>1, <2>2 DEF ActiveCovered
<1>3. CASE HandlePublishes
  <2>1. cache' = cache /\ Todo' = Todo
    BY <1>3 DEF HandlePublishes, Todo, desired
  <2> DEFINE val == IF Todo.active THEN acked + 1 ELSE 0
  <2>2. Todo.key \in Hazards /\ val \in Nat /\ cache[Todo.key].ver = val
    BY <1>3, TodoTypes DEF HandlePublishes, HandleKnows, TypeParts
  <2>3. Fits(Todo.key, val) /\ "worker" \in Threads
    BY <2>2 DEF Fits, Threads
  <2>4. Publish("worker", Todo.key, val)
    BY <1>3 DEF HandlePublishes
  <2> HIDE DEF val
  <2>5. /\ \A v : k # Todo.key /\ Drains(wire, topics[k], k, v) => Drains(wire', topics'[k], k, v)
        /\ conn # "never" => Drains(wire', topics'[Todo.key], Todo.key, val)
    BY <2>3, <2>4, PublishDrains DEF TypeParts
  <2>6. CASE k = Todo.key
    BY <2>1, <2>2, <2>5, <2>6
  <2>7. CASE k # Todo.key
    BY <2>1, <2>5, <2>7 DEF ActiveCovered
  <2> QED BY <2>6, <2>7
<1>4. CASE HandlePublished \/ HandleReturns
  <2>1. cache' = cache /\ wire' = wire /\ hpc # "publish"
    BY <1>4 DEF HandlePublished, HandleReturns, Consume, desired
  <2> QED BY <2>1 DEF ActiveCovered
<1>5. CASE HandlePublishesList
  <2>1. cache' = cache /\ hpc # "publish"
    BY <1>5 DEF HandlePublishesList, desired
  <2>2. Fits("list", ActiveList) /\ "worker" \in Threads
    BY PassEntries DEF Fits, Threads
  <2>3. \A v : Drains(wire, topics[k], k, v) => Drains(wire', topics'[k], k, v)
    BY <1>5, <2>2, PublishDrains, ViewConstants DEF TypeParts, HandlePublishesList
  <2> QED BY <2>1, <2>3 DEF ActiveCovered
<1> QED BY <1>2, <1>3, <1>4, <1>5 DEF HandleNext

LEMMA RehydrateCovers ==
  ASSUME TypeParts, GensIssued, PassShape, ActiveCovered, RehydrateNext, NEW k \in Hazards, cache'[k] # Absent
  PROVE  WillShow(k)'
<1>1. /\ UNCHANGED <<conn, topics, cache, hpc>>
      /\ HandlePublishesTo(k)' = HandlePublishesTo(k)
  <2>1. UNCHANGED <<conn, topics, cache, hpc, journal, acked>>
    BY DEF RehydrateNext, RehydrateBegins, SnapshotActive, SnapshotDeletes, RepublishActive, NextDelete, RepublishCheck,
       RegisterPendingDelete, AttemptStale, AttemptValid, AttemptPublishes, AttemptEnds, DeleteRecheck, PassEnds,
       RehydrateBuildsList, RehydratePublishesList, RehydrateReturns, link, broker, desired, handler,
       Consume, Publish, Send, Refused
  <2> QED BY <2>1 DEF HandlePublishesTo, Todo
<1>2. cache[k] # Absent /\ WillShow(k)
  BY <1>1 DEF ActiveCovered
<1>3. "rehydrate" \in Threads
  BY DEF Threads
<1> USE <1>1 DEF WillShow, LastIs, Rehydrates, InPass
<1>4. CASE RehydrateBegins
  BY <1>4 DEF RehydrateBegins
<1>5. CASE SnapshotActive
  BY <1>5 DEF SnapshotActive
<1>6. CASE SnapshotDeletes
  <2>1. /\ rpc = "deletes" /\ UNCHANGED <<waiting, gaveUp, wire, snap>> /\ ~dirty
    BY <1>6 DEF SnapshotDeletes, link, PassShape
  <2>2. CASE snap[k] = cache[k]
    <3>1. snap # NoEntries
      BY <1>2, <2>2 DEF NoEntries
    <3>2. rpc' = "next"
      BY <1>6, <3>1 DEF SnapshotDeletes
    <3> QED BY <2>1, <2>2, <3>2
  <2> QED BY <1>2, <2>1, <2>2
<1>7. ASSUME NEW c \in Hazards, RepublishActive(c) PROVE WillShow(k)'
  <2>1. Fits(c, snap[c].ver)
    BY PassEntries, EntryIs DEF Fits
  <2>2. /\ \A v : k # c /\ Drains(wire, topics[k], k, v) => Drains(wire', topics'[k], k, v)
        /\ conn # "never" => Drains(wire', topics'[c], c, snap[c].ver)
    BY <1>3, <1>7, <2>1, PublishDrains DEF TypeParts, RepublishActive
  <2>3. /\ rpc = "next" /\ rpc' = "check" /\ UNCHANGED <<waiting, gaveUp, dirty>>
        /\ snap[c] # Absent /\ snap' = [snap EXCEPT ![c] = Absent]
        /\ rkey' = [key |-> c, gen |-> snap[c].gen, deleting |-> FALSE]
    BY <1>7 DEF RepublishActive
  <2>4. CASE k = c
    <3>1. CASE snap[k] = cache[k]
      BY <2>2, <2>4, <3>1
    <3>2. CASE snap[k] # cache[k]
      <4>1. snap[k].gen # cache[k].gen
        BY <1>2, <2>3, <2>4, <3>2 DEF GensIssued
      <4>2. rkey'.key = k /\ rkey'.gen # cache'[k].gen
        BY <2>3, <2>4, <4>1
      <4> QED BY <2>3, <4>2
    <3> QED BY <3>1, <3>2
  <2>5. CASE k # c
    <3>1. snap'[k] = snap[k]
      BY <2>3, <2>5 DEF TypeParts, PassOK
    <3> QED BY <1>2, <2>2, <2>3, <2>5, <3>1
  <2> QED BY <2>4, <2>5
<1>8. ASSUME NEW c \in Hazards, NextDelete(c) PROVE WillShow(k)'
  <2>1. rpc = "next" /\ snap[k] = Absent /\ UNCHANGED <<waiting, gaveUp, dirty, wire>>
    BY <1>8 DEF NextDelete, NoEntries, link
  <2> QED BY <1>2, <2>1
<1>9. CASE RepublishCheck
  <2>1. rpc = "check" /\ rpc' \in {"next", "register"} /\ UNCHANGED <<waiting, gaveUp, wire, snap>>
    BY <1>9 DEF RepublishCheck, Consume
  <2>2. dirty' = (dirty \/ cache[rkey.key] = Absent \/ cache[rkey.key].gen # rkey.gen)
    BY <1>9 DEF RepublishCheck
  <2> QED BY <1>2, <2>1, <2>2
<1>10. CASE RegisterPendingDelete
  <2>1. dirty /\ dirty' = dirty
    BY <1>10 DEF RegisterPendingDelete, PassShape
  <2> QED BY <2>1
<1>11. CASE AttemptStale \/ AttemptValid
  <2>1. rpc = "attempt" /\ rpc' \in InPass /\ UNCHANGED <<waiting, gaveUp, dirty, wire, snap>>
    BY <1>11 DEF AttemptStale, AttemptValid, AfterAttempt, link
  <2> QED BY <1>2, <2>1
<1>12. CASE AttemptPublishes
  <2>1. rkey.key \in Hazards /\ Fits(rkey.key, 0)
    BY <1>12 DEF AttemptPublishes, PassShape, Fits
  <2>2. \A v : k # rkey.key /\ Drains(wire, topics[k], k, v) => Drains(wire', topics'[k], k, v)
    BY <1>3, <1>12, <2>1, PublishDrains DEF TypeParts, AttemptPublishes
  <2>3. rpc = "delete" /\ rpc' = "waitDelete" /\ UNCHANGED <<waiting, gaveUp, dirty, snap, rkey>>
    BY <1>12 DEF AttemptPublishes
  <2> QED BY <1>2, <2>2, <2>3
<1>13. CASE AttemptEnds
  <2>1. rpc = "waitDelete" /\ UNCHANGED <<waiting, gaveUp, dirty, wire, snap, rkey>>
        /\ rpc' = IF rkey.deleting THEN "recheck" ELSE "next"
    BY <1>13 DEF AttemptEnds, AfterAttempt, Consume
  <2>2. rkey.deleting \/ dirty
    BY <2>1 DEF PassShape
  <2> QED BY <1>2, <2>1, <2>2
<1>14. CASE DeleteRecheck
  <2>1. rpc = "recheck" /\ rpc' = "next" /\ UNCHANGED <<waiting, gaveUp, wire, snap>>
    BY <1>14 DEF DeleteRecheck, link
  <2>2. dirty' = (dirty \/ cache[rkey.key] # Absent)
    BY <1>14 DEF DeleteRecheck
  <2> QED BY <1>2, <2>1, <2>2
<1>15. CASE PassEnds
  <2>1. rpc = "next" /\ snap[k] = Absent /\ UNCHANGED <<waiting, wire>>
    BY <1>15 DEF PassEnds, NoEntries, link
  <2>2. dirty => rpc' = "snapshot" \/ gaveUp'
    BY <1>15 DEF PassEnds
  <2>3. ~dirty => gaveUp' = gaveUp
    BY <1>15 DEF PassEnds
  <2> QED BY <1>2, <2>1, <2>2, <2>3
<1>16. CASE RehydratePublishesList
  <2>1. Fits("list", rlist)
    BY DEF Fits, TypeParts, PassOK
  <2>2. \A v : Drains(wire, topics[k], k, v) => Drains(wire', topics'[k], k, v)
    BY <1>3, <1>16, <2>1, PublishDrains, ViewConstants DEF TypeParts, RehydratePublishesList
  <2>3. rpc = "publishList" /\ UNCHANGED <<waiting, gaveUp, dirty>>
    BY <1>16 DEF RehydratePublishesList
  <2> QED BY <1>2, <2>2, <2>3
<1>17. CASE RehydrateBuildsList \/ RehydrateReturns
  <2>1. rpc \in {"list", "waitList"} /\ UNCHANGED <<waiting, gaveUp, dirty, wire>>
    BY <1>17 DEF RehydrateBuildsList, RehydrateReturns, link, Consume
  <2> QED BY <1>2, <2>1
<1> QED BY <1>4, <1>5, <1>6, <1>7, <1>8, <1>9, <1>10, <1>11, <1>12, <1>13, <1>14, <1>15, <1>16, <1>17 DEF RehydrateNext

LEMMA ActiveCoveredKept ==
  ASSUME TypeParts, TypeParts', GensIssued, HandleKnows, PassShape, ActiveCovered, [ViewNext]_viewVars
  PROVE  ActiveCovered'
<1> SUFFICES ASSUME NEW k \in Hazards, cache'[k] # Absent PROVE WillShow(k)'
  BY DEF ActiveCovered
<1>1. CASE ConnectionLost \/ ProcessRestarts
  BY <1>1 DEF ConnectionLost, ProcessRestarts, WillShow, Rehydrates
<1>2. CASE Connected
  <2>1. waiting' > 0
    BY <1>2 DEF Connected, TypeParts, HandlerOK
  <2> QED BY <2>1 DEF WillShow, Rehydrates
<1>3. ASSUME /\ UNCHANGED <<cache, conn, waiting, hpc, acked, rehydration>>
             /\ hpc # "idle" => Todo' = Todo
             /\ \A v : Drains(wire, topics[k], k, v) => Drains(wire', topics'[k], k, v)
      PROVE  WillShow(k)'
  BY <1>3 DEF ActiveCovered, WillShow, LastIs, Rehydrates, HandlePublishesTo, rehydration
<1>4. CASE BrokerApplies \/ \E th \in Threads : WaitTimesOut(th)
  <2>1. \A v : Drains(wire, topics[k], k, v) => Drains(wire', topics'[k], k, v)
    BY <1>4, LinkDrains DEF TypeParts
  <2>2. UNCHANGED <<cache, conn, waiting, hpc, acked, journal, rehydration>>
    BY <1>4 DEF BrokerApplies, WaitTimesOut, desired, handler
  <2> QED BY <1>3, <2>1, <2>2 DEF Todo
<1>5. CASE \E c \in Hazards, active \in BOOLEAN : StoreWrites(c, active)
  <2>1. UNCHANGED <<cache, conn, waiting, hpc, acked, rehydration, wire, topics>>
    BY <1>5 DEF StoreWrites, desired, link, handler, broker
  <2>2. Elsewhere
    BY <1>5, StoreElsewhere
  <2>3. hpc # "idle" => Todo' = Todo
    BY <2>2, SameTodo DEF HandleKnows
  <2> QED BY <1>3, <2>1, <2>3
<1>6. CASE UNCHANGED viewVars
  BY <1>3, <1>6 DEF viewVars, desired, link, handler, broker, Todo
<1> QED BY <1>1, <1>2, <1>4, <1>5, <1>6, HandleCovers, RehydrateCovers DEF ViewNext

-----------------------------------------------------------------------------
(* No active hazard is lost from the view.                                 *)

LEMMA ActiveInit == ViewInit => ActiveInv
<1> SUFFICES ASSUME ViewInit PROVE ActiveInv
  OBVIOUS
<1>1. ViewTypeOK /\ TypeParts
  BY InitTypes, TypeIsParts
<1>2. \A k \in Hazards : Truth(k) \in Nat /\ Truth(k) <= Len(journal)
  BY <1>1, TruthTypes DEF TypeParts, JournalOK
<1>3. Len(journal) \in Nat /\ gen = Len(journal)
  BY <1>1 DEF TypeParts, JournalOK, ViewInit
<1>4. \A k \in Hazards : snap[k] = Absent /\ pend[k] = 0 /\ dels[k] = 0
  BY DEF ViewInit, NoEntries, Nothing
<1>5. ASSUME NEW k \in Hazards
      PROVE  \/ Truth(k) = 0 /\ cache[k] = Absent
             \/ Truth(k) # 0 /\ cache[k].ver = Truth(k) /\ cache[k].gen = 1
  <2>1. cache[k] = IF Truth(k) = 0 THEN Absent ELSE [ver |-> Truth(k), gen |-> 1]
    BY DEF ViewInit
  <2> QED BY <2>1
<1>6. GensIssued
  <2>1. Absent.ver = 0 /\ Absent.gen = 0
    BY DEF Absent
  <2>2. \A k \in Hazards : \/ cache[k] = Absent
                           \/ cache[k].ver # 0 /\ cache[k].gen = 1 /\ gen >= 1
    BY <1>2, <1>3, <1>5
  <2> QED BY <1>3, <1>4, <2>1, <2>2 DEF GensIssued
<1>7. HandleKnows
  BY <1>3 DEF HandleKnows, ViewInit
<1>8. CacheIsNewest
  <2>1. \A k \in Hazards : cache[k].ver = Truth(k)
    BY <1>5 DEF Absent
  <2> QED BY <2>1 DEF CacheIsNewest
<1>9. PassShape
  BY <1>3 DEF PassShape, ViewInit, NoKey, InPass
<1>10. ActiveCovered
  BY DEF ActiveCovered, WillShow, Rehydrates, ViewInit
<1> QED BY <1>1, <1>6, <1>7, <1>8, <1>9, <1>10 DEF ActiveInv

LEMMA ActiveStep == ActiveInv /\ [ViewNext]_viewVars => ActiveInv'
<1> SUFFICES ASSUME ActiveInv, [ViewNext]_viewVars PROVE ActiveInv'
  OBVIOUS
<1>1. TypeParts /\ TypeParts' /\ ViewTypeOK'
  BY TypeIsParts, TypesKept DEF ActiveInv
<1> QED BY <1>1, GensKept, HandleKnowsKept, CacheNewestKept, PassShapeKept, ActiveCoveredKept DEF ActiveInv

LEMMA ActiveInvShows == ActiveInv => ActiveShown
<1> SUFFICES ASSUME ActiveInv, Quiet, ~gaveUp, ~short, NEW k \in Hazards, Truth(k) # 0
             PROVE  topics[k] = Truth(k)
  BY DEF ActiveShown
<1>1. TypeParts
  BY TypeIsParts DEF ActiveInv
<1>2. ~ \E i \in DOMAIN journal : i > acked /\ journal[i].key = k
  BY <1>1 DEF Quiet, TypeParts, JournalOK
<1>3. cache[k].ver = Truth(k)
  BY <1>2 DEF ActiveInv, CacheIsNewest
<1>4. cache[k] # Absent
  BY <1>3 DEF Absent
<1>5. ~Rehydrates /\ ~HandlePublishesTo(k)
  BY DEF Quiet, Rehydrates, HandlePublishesTo, ActiveInv, PassShape, InPass
<1>6. LastIs(k, cache[k].ver)
  BY <1>4, <1>5 DEF ActiveInv, ActiveCovered, WillShow, Quiet, InPass
<1>7. wire = <<>>
  BY DEF Quiet
<1> QED BY <1>3, <1>6, <1>7 DEF LastIs, Drains

\* mqtt.go keeps every field within its type, for any hazards, changes,
\* passes and faults: what the worker, the rehydration and the broker put on
\* the connection always fits its topic.
THEOREM ViewStaysTyped == ViewSpec => []ViewTypeOK
<1>1. ActiveInv => ViewTypeOK
  BY DEF ActiveInv
<1> QED BY <1>1, ActiveInit, ActiveStep, PTL DEF ViewSpec

\* updateActiveState and rehydrateActive lose no active hazard: whenever the
\* output is quiet after a complete seeding and a rehydration that converged,
\* the retained topic of every active hazard shows its last version, for any
\* hazards, changes, passes, lost connections, timeouts and restarts.
THEOREM ActiveStaysShown == ViewSpec => []ActiveShown
BY ActiveInit, ActiveStep, ActiveInvShows, PTL DEF ViewSpec

-----------------------------------------------------------------------------
(* The gap.                                                                *)

Excused == shared \/ restarted

\* Who waits, and whose publication is still on the connection.
Waiters ==
  /\ hpc \notin {"wait", "waitList"} => token["worker"] = "none"
  /\ rpc \notin {"check", "waitDelete", "waitList"} => token["rehydrate"] = "none"

WireOwned ==
  /\ \A i \in DOMAIN wire : wire[i].by # "nobody" => token[wire[i].by] = "wait"
  /\ \A i, j \in DOMAIN wire : wire[i].by # "nobody" /\ wire[i].by = wire[j].by => i = j

TokensOwn == Waiters /\ WireOwned

\* Whatever of the connection the broker applies, k has no topic.
CleanOf(w, t, k) == t = 0 /\ \A i \in DOMAIN w : w[i].to = k => w[i].val = 0
Clean(k) == CleanOf(wire, topics[k], k)

\* The deletion of k that th waits for, with nothing but deletions behind it.
DeletesLast(w, k, th) ==
  \E i \in DOMAIN w : /\ w[i].by = th /\ w[i].to = k
                      /\ \A j \in DOMAIN w : j >= i /\ w[j].to = k => w[j].val = 0
Deleting(k, th) == DeletesLast(wire, k, th)

Confirms(k, th) ==
  /\ token[th] = "ok" => Clean(k)
  /\ token[th] = "wait" => Deleting(k, th)

Rechecks(k) == rpc \in {"check", "register"} /\ rkey.key = k

Remembered(k) == Clean(k) \/ pend[k] # 0 \/ Rechecks(k)
EndRemembered == ~Excused => \A k \in Hazards : cache[k] = Absent => Remembered(k)

\* A deletion is forgotten only when nothing can bring the topic back.
ConfirmedIsClean ==
  ~Excused =>
    /\ (hpc = "wait" /\ hgen # 0 /\ pend[Todo.key] = hgen
          => Rechecks(Todo.key) \/ Confirms(Todo.key, "worker"))
    /\ (rpc = "waitDelete" /\ pend[rkey.key] = rkey.gen => Confirms(rkey.key, "rehydrate"))

\* The topic of the ended k will be gone, or somebody sees to it.
WillEnd(k) ==
  \/ LastIs(k, 0)
  \/ Rehydrates
  \/ HandlePublishesTo(k)
  \/ Rechecks(k)
  \/ rpc = "deletes"
  \/ rpc \in InPass /\ pend[k] # 0 /\ dels[k] = pend[k]
  \/ rpc \in {"attempt", "delete"} /\ rkey.key = k /\ rkey.gen = pend[k]

EndCovered == ~Excused => \A k \in Hazards : cache[k] = Absent => WillEnd(k)

ShortIsRestarted == short => restarted

GapInv == ActiveInv /\ TokensOwn /\ EndRemembered /\ ConfirmedIsClean /\ EndCovered /\ ShortIsRestarted

LEMMA AppendedClean ==
  ASSUME NEW w \in Seq(Message), NEW m \in Message, NEW t, NEW k, m.to # k \/ m.val = 0
  PROVE  /\ CleanOf(w, t, k) => CleanOf(Append(w, m), t, k)
         /\ \A th : DeletesLast(w, k, th) => DeletesLast(Append(w, m), k, th)
         /\ m.to = k => DeletesLast(Append(w, m), k, m.by)
<1> DEFINE u == Append(w, m)
<1>1. /\ Len(w) \in Nat /\ u[Len(w) + 1] = m /\ \A i \in 1 .. Len(w) : u[i] = w[i]
      /\ DOMAIN u = 1 .. Len(w) + 1 /\ DOMAIN w = 1 .. Len(w)
  OBVIOUS
<1> HIDE DEF u
<1>2. CleanOf(w, t, k) => CleanOf(u, t, k)
  BY <1>1 DEF CleanOf
<1>3. ASSUME NEW th, DeletesLast(w, k, th) PROVE DeletesLast(u, k, th)
  <2>1. PICK i \in DOMAIN w : /\ w[i].by = th /\ w[i].to = k
                              /\ \A j \in DOMAIN w : j >= i /\ w[j].to = k => w[j].val = 0
    BY <1>3 DEF DeletesLast
  <2>2. i \in DOMAIN u /\ u[i].by = th /\ u[i].to = k
    BY <1>1, <2>1
  <2>3. \A j \in DOMAIN u : j >= i /\ u[j].to = k => u[j].val = 0
    BY <1>1, <2>1
  <2> QED BY <2>2, <2>3 DEF DeletesLast
<1>4. ASSUME m.to = k PROVE DeletesLast(u, k, m.by)
  <2>1. Len(w) + 1 \in DOMAIN u /\ \A j \in DOMAIN u : j >= Len(w) + 1 => j = Len(w) + 1
    BY <1>1
  <2> QED BY <1>1, <1>4, <2>1 DEF DeletesLast
<1> QED BY <1>2, <1>3, <1>4 DEF u

LEMMA CleanDrains ==
  ASSUME NEW w \in Seq(Message), NEW t, NEW k, CleanOf(w, t, k)
  PROVE  Drains(w, t, k, 0)
<1> DEFINE S == {i \in DOMAIN w : w[i].to = k}
<1>1. Len(w) \in Nat /\ S \in SUBSET (1 .. Len(w))
  OBVIOUS
<1>2. CASE S = {}
  BY <1>2 DEF CleanOf, Drains
<1>3. CASE S # {}
  <2>1. PICK i \in S : \A j \in S : j <= i
    <3> HIDE DEF S
    <3> QED BY <1>1, <1>3, LastPosition
  <2>2. i \in DOMAIN w /\ w[i].to = k /\ w[i].val = 0
    BY DEF CleanOf
  <2>3. \A j \in DOMAIN w : j > i => w[j].to # k
    BY <1>1, <2>1
  <2> QED BY <2>2, <2>3 DEF Drains
<1> QED BY <1>2, <1>3

LEMMA PublishClean ==
  ASSUME LinkOK, NEW th \in Threads, NEW to, NEW val, Fits(to, val), Publish(th, to, val), topics' = topics,
         NEW k, k # to \/ val = 0
  PROVE  /\ Clean(k) => CleanOf(wire', topics'[k], k)
         /\ \A d : Deleting(k, d) => DeletesLast(wire', k, d)
         /\ token'[th] = IF conn # "never" THEN "wait" ELSE "err"
         /\ \A d \in Threads : d # th => token'[d] = token[d]
         /\ conn # "never" /\ k = to => DeletesLast(wire', k, th)
<1> DEFINE m == [by |-> th, to |-> to, val |-> val]
<1>1. m \in Message /\ m.to = to /\ m.val = val /\ m.by = th
  BY MessageIs
<1>2. wire \in Seq(Message)
  BY DEF LinkOK
<1>3. /\ token'[th] = IF conn # "never" THEN "wait" ELSE "err"
      /\ \A d \in Threads : d # th => token'[d] = token[d]
  BY DEF LinkOK, Publish, Send, Refused
<1>4. CASE wire' = Append(wire, m) /\ conn # "never"
  <2> HIDE DEF m
  <2> QED BY <1>1, <1>2, <1>3, <1>4, AppendedClean DEF Clean, Deleting
<1>5. CASE wire' = wire /\ conn = "never"
  BY <1>3, <1>5 DEF Clean, Deleting
<1> QED BY <1>4, <1>5 DEF Publish, Send, Refused

\* The broker, the loss of the connection and a deadline bring nothing back.
LEMMA LinkClean ==
  ASSUME LinkOK, BrokerApplies \/ ConnectionLost \/ \E th \in Threads : WaitTimesOut(th),
         NEW k \in Hazards, Clean(k)
  PROVE  Clean(k)'
<1>0. wire \in Seq(Message) /\ Len(wire) \in Nat /\ DOMAIN wire = 1 .. Len(wire)
  BY DEF LinkOK
<1>1. CASE BrokerApplies
  <2>1. topics'[k] = IF wire[1].to = k THEN wire[1].val ELSE topics[k]
    BY <1>1, FirstApplied DEF BrokerApplies
  <2>2. wire' = Tail(wire) /\ wire # <<>>
    BY <1>1 DEF BrokerApplies
  <2>3. DOMAIN wire' = 1 .. Len(wire) - 1 /\ (\A i \in 1 .. Len(wire) - 1 : wire'[i] = wire[i + 1]) /\ 1 \in DOMAIN wire
    BY <1>0, <2>2
  <2> QED BY <1>0, <2>1, <2>3 DEF Clean, CleanOf
<1>2. CASE ConnectionLost
  <2>1. PICK n \in 0 .. Len(wire) : topics' = TopicsAfter(n) \/ topics' = Nothing
    BY <1>2 DEF ConnectionLost
  <2>2. topics'[k] = 0
    <3>1. CASE topics' = TopicsAfter(n)
      <4>1. \A i \in 1 .. n : i \in DOMAIN wire
        BY <1>0
      <4> QED BY <3>1, <4>1, TopicsAfterIs DEF Clean, CleanOf
    <3>2. CASE topics' = Nothing
      BY <3>2 DEF Nothing
    <3> QED BY <2>1, <3>1, <3>2
  <2>3. wire' = wire
    BY <1>2 DEF ConnectionLost
  <2> QED BY <2>2, <2>3 DEF Clean, CleanOf
<1>3. ASSUME NEW th \in Threads, WaitTimesOut(th) PROVE Clean(k)'
  BY <1>3, Relabelled DEF Clean, CleanOf
<1> QED BY <1>1, <1>2, <1>3

LEMMA MessageBy == \A m \in Message : m.by \in Threads \/ m.by = "nobody"
BY MessageFields

LEMMA NobodyIsNoThread == "nobody" \notin Threads /\ "worker" \in Threads /\ "rehydrate" \in Threads
                          /\ \A th \in Threads : th \in {"worker", "rehydrate"}
BY DEF Threads

LEMMA PublishOwned ==
  ASSUME LinkOK, WireOwned, NEW th \in Threads, NEW to, NEW val, Publish(th, to, val), token[th] = "none"
  PROVE  WireOwned'
<1> DEFINE m == [by |-> th, to |-> to, val |-> val]
<1>0. wire \in Seq(Message) /\ Len(wire) \in Nat /\ DOMAIN wire = 1 .. Len(wire)
  BY DEF LinkOK
<1>1. \A i \in DOMAIN wire : wire[i].by # th /\ (wire[i].by \in Threads \/ wire[i].by = "nobody")
  BY <1>0, MessageBy, NobodyIsNoThread DEF WireOwned
<1>2. CASE Send(th, to, val)
  <2>1. /\ DOMAIN wire' = 1 .. Len(wire) + 1 /\ wire'[Len(wire) + 1].by = th
        /\ \A i \in DOMAIN wire : wire'[i] = wire[i]
    BY <1>0, <1>2 DEF Send
  <2>2. token'[th] = "wait" /\ \A d \in Threads : d # th => token'[d] = token[d]
    BY <1>2 DEF Send, LinkOK
  <2> QED BY <1>0, <1>1, <2>1, <2>2 DEF WireOwned
<1>3. CASE Refused(th)
  <2>1. wire' = wire /\ \A d \in Threads : d # th => token'[d] = token[d]
    BY <1>3 DEF Refused, LinkOK
  <2> QED BY <1>1, <2>1 DEF WireOwned
<1> QED BY <1>2, <1>3 DEF Publish

LEMMA ConsumeOwned ==
  ASSUME LinkOK, WireOwned, NEW th \in Threads, Consume(th), Answered(th)
  PROVE  WireOwned'
<1>0. \A i \in DOMAIN wire : wire[i].by \in Threads \/ wire[i].by = "nobody"
  BY MessageBy DEF LinkOK
<1>1. \A i \in DOMAIN wire : wire[i].by # th
  BY NobodyIsNoThread DEF WireOwned, Answered
<1>2. wire' = wire /\ \A d \in Threads : d # th => token'[d] = token[d]
  BY DEF Consume, LinkOK
<1> QED BY <1>0, <1>1, <1>2 DEF WireOwned

\* The first publication is acknowledged to the one that waits for it.
LEMMA Acknowledged ==
  ASSUME LinkOK, WireOwned, BrokerApplies
  PROVE  /\ Len(wire) \in Nat /\ DOMAIN wire = 1 .. Len(wire) /\ Len(wire) >= 1
         /\ DOMAIN wire' = 1 .. Len(wire) - 1 /\ \A i \in 1 .. Len(wire) - 1 : wire'[i] = wire[i + 1]
         /\ \A th \in Threads :
              \/ wire[1].by = th /\ token[th] = "wait" /\ token'[th] = "ok"
                 /\ \A i \in DOMAIN wire : wire[i].by = th => i = 1
              \/ wire[1].by # th /\ token'[th] = token[th]
<1>1. wire \in Seq(Message) /\ Head(wire) = wire[1] /\ wire' = Tail(wire) /\ wire # <<>>
  BY DEF LinkOK, BrokerApplies
<1>2. /\ Len(wire) \in Nat /\ DOMAIN wire = 1 .. Len(wire) /\ Len(wire) >= 1
      /\ DOMAIN wire' = 1 .. Len(wire) - 1 /\ \A i \in 1 .. Len(wire) - 1 : wire'[i] = wire[i + 1]
  BY <1>1
<1>3. token' = IF wire[1].by = "nobody" THEN token ELSE [token EXCEPT ![wire[1].by] = "ok"]
  BY <1>1 DEF BrokerApplies
<1>4. ASSUME NEW th \in Threads
      PROVE  \/ wire[1].by = th /\ token[th] = "wait" /\ token'[th] = "ok"
                /\ \A i \in DOMAIN wire : wire[i].by = th => i = 1
             \/ wire[1].by # th /\ token'[th] = token[th]
  <2>1. CASE wire[1].by = th
    <3>1. 1 \in DOMAIN wire /\ th # "nobody"
      BY <1>2, NobodyIsNoThread
    <3>2. token'[th] = "ok" /\ token[th] = "wait"
      BY <1>3, <2>1, <3>1 DEF LinkOK, WireOwned
    <3> QED BY <2>1, <3>1, <3>2 DEF WireOwned
  <2>2. CASE wire[1].by # th
    BY <1>3, <2>2 DEF LinkOK
  <2> QED BY <2>1, <2>2
<1> QED BY <1>2, <1>4

LEMMA LinkOwned ==
  ASSUME LinkOK, TokensOwn, BrokerApplies \/ ConnectionLost \/ \E th \in Threads : WaitTimesOut(th)
  PROVE  TokensOwn'
<1>0. \A i \in DOMAIN wire : wire[i].by \in Threads \/ wire[i].by = "nobody"
  BY MessageBy DEF LinkOK
<1>1. CASE BrokerApplies
  <2>1. UNCHANGED <<hpc, rpc>>
    BY <1>1 DEF BrokerApplies, handler, rehydration
  <2>2. Waiters'
    BY <1>1, <2>1, Acknowledged, NobodyIsNoThread DEF TokensOwn, Waiters
  <2>3. ASSUME NEW i \in DOMAIN wire', wire'[i].by # "nobody" PROVE token'[wire'[i].by] = "wait"
    <3>1. i + 1 \in DOMAIN wire /\ wire'[i] = wire[i + 1] /\ i + 1 # 1
      BY <1>1, <2>3, Acknowledged DEF TokensOwn
    <3>2. wire[i + 1].by \in Threads /\ token[wire[i + 1].by] = "wait"
      BY <1>0, <2>3, <3>1 DEF TokensOwn, WireOwned
    <3> QED BY <1>1, <3>1, <3>2, Acknowledged DEF TokensOwn
  <2>4. ASSUME NEW i \in DOMAIN wire', NEW j \in DOMAIN wire', wire'[i].by # "nobody", wire'[i].by = wire'[j].by
        PROVE  i = j
    <3>1. /\ i + 1 \in DOMAIN wire /\ wire'[i] = wire[i + 1] /\ i \in Nat
          /\ j + 1 \in DOMAIN wire /\ wire'[j] = wire[j + 1] /\ j \in Nat
      BY <1>1, <2>4, Acknowledged DEF TokensOwn
    <3>2. i + 1 = j + 1
      BY <2>4, <3>1 DEF TokensOwn, WireOwned
    <3> QED BY <3>1, <3>2
  <2> QED BY <2>2, <2>3, <2>4 DEF TokensOwn, WireOwned
<1>2. CASE ConnectionLost
  <2>1. UNCHANGED <<hpc, rpc, wire, token>>
    BY <1>2 DEF ConnectionLost, handler, rehydration
  <2> QED BY <2>1 DEF TokensOwn, Waiters, WireOwned
<1>3. ASSUME NEW th \in Threads, WaitTimesOut(th) PROVE TokensOwn'
  <2>1. /\ UNCHANGED <<hpc, rpc>> /\ token[th] = "wait" /\ \A d \in Threads : d # th => token'[d] = token[d]
    BY <1>3 DEF WaitTimesOut, handler, rehydration, LinkOK
  <2>2. Waiters'
    BY <2>1, NobodyIsNoThread DEF TokensOwn, Waiters
  <2>3. WireOwned'
    BY <1>0, <1>3, <2>1, Relabelled DEF TokensOwn, WireOwned
  <2> QED BY <2>2, <2>3 DEF TokensOwn
<1> QED BY <1>1, <1>2, <1>3

\* A deletion that is waited for stays one, and its confirmation is right.
LEMMA LinkConfirms ==
  ASSUME LinkOK, TokensOwn, BrokerApplies \/ ConnectionLost \/ \E th \in Threads : WaitTimesOut(th),
         NEW k \in Hazards, NEW d \in Threads, Confirms(k, d)
  PROVE  Confirms(k, d)'
<1>1. CASE BrokerApplies
  <2>1. ASSUME token[d] = "wait" PROVE Confirms(k, d)'
    <3>1. PICK i \in DOMAIN wire : /\ wire[i].by = d /\ wire[i].to = k
                                   /\ \A j \in DOMAIN wire : j >= i /\ wire[j].to = k => wire[j].val = 0
      BY <2>1 DEF Confirms, Deleting, DeletesLast
    <3>2. /\ Len(wire) \in Nat /\ DOMAIN wire = 1 .. Len(wire) /\ Len(wire) >= 1
          /\ DOMAIN wire' = 1 .. Len(wire) - 1 /\ \A j \in 1 .. Len(wire) - 1 : wire'[j] = wire[j + 1]
      BY <1>1, Acknowledged DEF TokensOwn
    <3>3. CASE wire[1].by = d
      <4>1. i = 1 /\ token'[d] = "ok"
        BY <1>1, <3>1, <3>3, Acknowledged DEF TokensOwn
      <4>2. topics'[k] = wire[1].val /\ wire[1].val = 0
        BY <1>1, <3>1, <3>2, <4>1, FirstApplied DEF BrokerApplies
      <4>3. \A j \in DOMAIN wire' : wire'[j].to = k => wire'[j].val = 0
        BY <3>1, <3>2, <4>1
      <4> QED BY <4>1, <4>2, <4>3 DEF Confirms, Clean, CleanOf
    <3>4. CASE wire[1].by # d
      <4>1. i - 1 \in DOMAIN wire' /\ wire'[i - 1].by = d /\ wire'[i - 1].to = k
        BY <3>1, <3>2, <3>4
      <4>2. \A j \in DOMAIN wire' : j >= i - 1 /\ wire'[j].to = k => wire'[j].val = 0
        BY <3>1, <3>2
      <4>3. token'[d] = "wait"
        BY <1>1, <2>1, <3>4, Acknowledged DEF TokensOwn
      <4> QED BY <4>1, <4>2, <4>3 DEF Confirms, Deleting, DeletesLast
    <3> QED BY <3>3, <3>4
  <2>2. ASSUME token[d] # "wait" PROVE Confirms(k, d)'
    <3>1. token'[d] = token[d]
      BY <1>1, <2>2, Acknowledged DEF TokensOwn
    <3> QED BY <1>1, <2>2, <3>1, LinkClean DEF Confirms
  <2> QED BY <2>1, <2>2
<1>2. CASE ConnectionLost
  <2>1. token' = token /\ (Deleting(k, d) => Deleting(k, d)')
    BY <1>2 DEF ConnectionLost, Deleting
  <2> QED BY <1>2, <2>1, LinkClean DEF Confirms
<1>3. ASSUME NEW th \in Threads, WaitTimesOut(th) PROVE Confirms(k, d)'
  <2>1. CASE d = th
    <3>1. token'[d] = "err"
      BY <1>3, <2>1 DEF WaitTimesOut, LinkOK
    <3> QED BY <3>1 DEF Confirms
  <2>2. CASE d # th
    <3>1. token'[d] = token[d]
      BY <1>3, <2>2 DEF WaitTimesOut, LinkOK
    <3>2. Deleting(k, d) => Deleting(k, d)'
      BY <1>3, <2>2, Relabelled DEF Deleting, DeletesLast
    <3> QED BY <1>3, <3>1, <3>2, LinkClean DEF Confirms
  <2> QED BY <2>1, <2>2
<1> QED BY <1>1, <1>2, <1>3

LEMMA TokensOwnKept ==
  ASSUME TypeParts, TokensOwn, [ViewNext]_viewVars
  PROVE  TokensOwn'
<1>0. LinkOK /\ Waiters /\ WireOwned /\ "worker" \in Threads /\ "rehydrate" \in Threads
  BY NobodyIsNoThread DEF TypeParts, TokensOwn
<1>1. ASSUME UNCHANGED <<hpc, rpc, token, wire>> PROVE TokensOwn'
  BY <1>1 DEF TokensOwn, Waiters, WireOwned
<1>2. ASSUME NEW to, NEW val, Publish("worker", to, val), hpc \in {"publish", "list"}, hpc' \in {"wait", "waitList"},
             rpc' = rpc
      PROVE  TokensOwn'
  <2>1. token["worker"] = "none"
    BY <1>0, <1>2 DEF Waiters
  <2>2. WireOwned'
    BY <1>0, <1>2, <2>1, PublishOwned
  <2>3. token'["rehydrate"] = token["rehydrate"]
    BY <1>0, <1>2 DEF Publish, Send, Refused, LinkOK
  <2> QED BY <1>0, <1>2, <2>2, <2>3 DEF TokensOwn, Waiters
<1>3. ASSUME NEW to, NEW val, Publish("rehydrate", to, val), rpc \in {"next", "delete", "publishList"},
             rpc' \in {"check", "waitDelete", "waitList"}, hpc' = hpc
      PROVE  TokensOwn'
  <2>1. token["rehydrate"] = "none"
    BY <1>0, <1>3 DEF Waiters
  <2>2. WireOwned'
    BY <1>0, <1>3, <2>1, PublishOwned
  <2>3. token'["worker"] = token["worker"]
    BY <1>0, <1>3 DEF Publish, Send, Refused, LinkOK
  <2> QED BY <1>0, <1>3, <2>2, <2>3 DEF TokensOwn, Waiters
<1>4. ASSUME Answered("worker"), Consume("worker"), rpc' = rpc PROVE TokensOwn'
  <2>1. WireOwned'
    BY <1>0, <1>4, ConsumeOwned
  <2>2. token'["worker"] = "none" /\ token'["rehydrate"] = token["rehydrate"]
    BY <1>0, <1>4 DEF Consume, LinkOK
  <2> QED BY <1>0, <1>4, <2>1, <2>2 DEF TokensOwn, Waiters
<1>5. ASSUME Answered("rehydrate"), Consume("rehydrate"), hpc' = hpc PROVE TokensOwn'
  <2>1. WireOwned'
    BY <1>0, <1>5, ConsumeOwned
  <2>2. token'["rehydrate"] = "none" /\ token'["worker"] = token["worker"]
    BY <1>0, <1>5 DEF Consume, LinkOK
  <2> QED BY <1>0, <1>5, <2>1, <2>2 DEF TokensOwn, Waiters
<1>6. ASSUME UNCHANGED <<hpc, token, wire>>, rpc \notin {"check", "waitDelete", "waitList"} PROVE TokensOwn'
  BY <1>6 DEF TokensOwn, Waiters, WireOwned
<1>7. CASE HandleNext
  <2>1. CASE HandleChange
    <3>1. UNCHANGED <<rpc, token, wire>> /\ hpc = "idle"
      BY <2>1 DEF HandleChange, link, rehydration
    <3> QED BY <1>0, <3>1 DEF TokensOwn, Waiters, WireOwned
  <2>2. CASE HandlePublishes
    BY <1>2, <2>2 DEF HandlePublishes, rehydration
  <2>3. CASE HandlePublishesList
    BY <1>2, <2>3 DEF HandlePublishesList, rehydration
  <2>4. CASE HandlePublished
    BY <1>4, <2>4 DEF HandlePublished, rehydration
  <2>5. CASE HandleReturns
    BY <1>4, <2>5 DEF HandleReturns, rehydration
  <2> QED BY <1>7, <2>1, <2>2, <2>3, <2>4, <2>5 DEF HandleNext
<1>8. CASE RehydrateNext
  <2>1. ASSUME NEW k \in Hazards, RepublishActive(k) PROVE TokensOwn'
    BY <1>3, <2>1 DEF RepublishActive, handler
  <2>2. CASE AttemptPublishes
    BY <1>3, <2>2 DEF AttemptPublishes, handler
  <2>3. CASE RehydratePublishesList
    BY <1>3, <2>3 DEF RehydratePublishesList, handler
  <2>4. CASE RepublishCheck
    BY <1>5, <2>4 DEF RepublishCheck, handler
  <2>5. CASE AttemptEnds
    BY <1>5, <2>5 DEF AttemptEnds, handler
  <2>6. CASE RehydrateReturns
    BY <1>5, <2>6 DEF RehydrateReturns, handler
  <2>7. CASE RehydrateBegins \/ SnapshotActive \/ SnapshotDeletes \/ RegisterPendingDelete \/ AttemptStale
    BY <1>6, <2>7 DEF RehydrateBegins, SnapshotActive, SnapshotDeletes, RegisterPendingDelete, AttemptStale, link, handler
  <2>8. CASE AttemptValid \/ DeleteRecheck \/ PassEnds \/ RehydrateBuildsList \/ \E k \in Hazards : NextDelete(k)
    BY <1>6, <2>8 DEF AttemptValid, DeleteRecheck, PassEnds, RehydrateBuildsList, NextDelete, link, handler
  <2> QED BY <1>8, <2>1, <2>2, <2>3, <2>4, <2>5, <2>6, <2>7, <2>8 DEF RehydrateNext
<1>9. CASE BrokerApplies \/ ConnectionLost \/ \E th \in Threads : WaitTimesOut(th)
  BY <1>0, <1>9, LinkOwned
<1>10. CASE Connected \/ \E k \in Hazards, active \in BOOLEAN : StoreWrites(k, active)
  BY <1>1, <1>10 DEF Connected, StoreWrites, link, handler, rehydration
<1>11. CASE ProcessRestarts
  BY <1>11, NobodyIsNoThread DEF ProcessRestarts, TokensOwn, Waiters, WireOwned
<1>12. CASE UNCHANGED viewVars
  BY <1>1, <1>12 DEF viewVars, link, handler, rehydration
<1> QED BY <1>7, <1>8, <1>9, <1>10, <1>11, <1>12 DEF ViewNext

LEMMA ShortKept ==
  ASSUME TypeParts, ShortIsRestarted, [ViewNext]_viewVars
  PROVE  ShortIsRestarted'
<1>1. CASE ProcessRestarts
  BY <1>1 DEF ProcessRestarts, ShortIsRestarted
<1>2. CASE ~ProcessRestarts
  <2>1. short' = short
    BY <1>2, ElsewhereSteps DEF Elsewhere, HandleNext, HandleChange, HandlePublishes, HandlePublished,
       HandlePublishesList, HandleReturns, viewBounds
  <2>2. restarted' = restarted
    <3>1. RehydrateNext => restarted' = restarted
      BY DEF RehydrateNext, RehydrateBegins, SnapshotActive, SnapshotDeletes, RepublishActive, NextDelete, RepublishCheck,
         RegisterPendingDelete, AttemptStale, AttemptValid, AttemptPublishes, AttemptEnds, DeleteRecheck, PassEnds,
         RehydrateBuildsList, RehydratePublishesList, RehydrateReturns, viewBounds
    <3> QED BY <1>2, <3>1, RehydrationAlone
  <2> QED BY <2>1, <2>2 DEF ShortIsRestarted
<1> QED BY <1>1, <1>2

LEMMA ExcusedStays ==
  ASSUME TypeParts, [ViewNext]_viewVars, ~Excused'
  PROVE  ~Excused /\ ~ProcessRestarts
<1>1. ~ProcessRestarts
  BY DEF ProcessRestarts, Excused
<1>2. RehydrateNext => (shared => shared') /\ restarted' = restarted
  <2>1. RegisterPendingDelete => (shared => shared') /\ restarted' = restarted
    BY Zenon DEF RegisterPendingDelete
  <2>2. RehydrateNext => RegisterPendingDelete \/ (shared' = shared /\ restarted' = restarted)
    BY DEF RehydrateNext, RehydrateBegins, SnapshotActive, SnapshotDeletes, RepublishActive, NextDelete, RepublishCheck,
       AttemptStale, AttemptValid, AttemptPublishes, AttemptEnds, DeleteRecheck, PassEnds,
       RehydrateBuildsList, RehydratePublishesList, RehydrateReturns, viewBounds
  <2> QED BY <2>1, <2>2
<1> QED BY <1>1, <1>2, RehydrationAlone DEF Excused

\* Only the republication of k itself can spoil what is clean or confirmed.
LEMMA CleanKept ==
  ASSUME TypeParts, TokensOwn, GensIssued, HandleKnows, PassShape, [ViewNext]_viewVars, ~ProcessRestarts,
         NEW k \in Hazards, cache[k] = Absent, ~RepublishActive(k)
  PROVE  /\ Clean(k) => Clean(k)'
         /\ hpc = "wait" /\ Confirms(k, "worker") => Confirms(k, "worker")'
         /\ rpc = "waitDelete" /\ Confirms(k, "rehydrate") => Confirms(k, "rehydrate")'
<1>0. LinkOK /\ "worker" \in Threads /\ "rehydrate" \in Threads
  BY NobodyIsNoThread DEF TypeParts
<1> DEFINE Goal == /\ Clean(k) => Clean(k)'
                   /\ hpc = "wait" /\ Confirms(k, "worker") => Confirms(k, "worker")'
                   /\ rpc = "waitDelete" /\ Confirms(k, "rehydrate") => Confirms(k, "rehydrate")'
<1>1. ASSUME UNCHANGED <<wire, topics, token>> PROVE Goal
  BY <1>1 DEF Clean, Confirms, Deleting
<1>2. ASSUME NEW th \in Threads, Consume(th), topics' = topics PROVE Goal
  <2>1. wire' = wire /\ token'[th] = "none" /\ \A d \in Threads : d # th => token'[d] = token[d]
    BY <1>0, <1>2 DEF Consume, LinkOK
  <2> QED BY <1>0, <1>2, <2>1 DEF Clean, Confirms, Deleting
<1>3. ASSUME NEW th \in Threads, NEW to, NEW val, Fits(to, val), Publish(th, to, val), topics' = topics,
             k # to \/ val = 0, th = "worker" => hpc # "wait", th = "rehydrate" => rpc # "waitDelete"
      PROVE  Goal
  <2>1. /\ Clean(k) => Clean(k)'
        /\ \A d : Deleting(k, d) => Deleting(k, d)'
        /\ \A d \in Threads : d # th => token'[d] = token[d]
    BY <1>0, <1>3, PublishClean DEF Clean, Deleting
  <2>2. \A d \in Threads : d # th /\ Confirms(k, d) => Confirms(k, d)'
    BY <2>1 DEF Confirms
  <2> QED BY <1>0, <1>3, <2>1, <2>2
<1>4. CASE BrokerApplies \/ ConnectionLost \/ \E th \in Threads : WaitTimesOut(th)
  BY <1>0, <1>4, LinkClean, LinkConfirms
<1> HIDE DEF Goal
<1>5. CASE HandleNext
  <2>1. topics' = topics
    BY <1>5 DEF HandleNext, HandleChange, HandlePublishes, HandlePublished, HandlePublishesList, HandleReturns, broker
  <2>2. CASE HandleChange
    <3>1. Goal
      BY <1>1, <2>1, <2>2 DEF HandleChange, link
    <3> QED BY <3>1 DEF Goal
  <2>3. CASE HandlePublishes
    <3> DEFINE val == IF Todo.active THEN acked + 1 ELSE 0
    <3>1. Todo.key \in Hazards /\ val \in Nat /\ cache[Todo.key].ver = val
      BY <2>3, TodoTypes DEF HandlePublishes, HandleKnows, TypeParts
    <3>2. Fits(Todo.key, val) /\ (k # Todo.key \/ val = 0)
      BY <3>1 DEF Fits, Absent
    <3>3. Publish("worker", Todo.key, val) /\ hpc # "wait"
      BY <2>3 DEF HandlePublishes
    <3> HIDE DEF val
    <3>4. Goal
      BY <1>0, <1>3, <2>1, <3>2, <3>3
    <3> QED BY <3>4 DEF Goal
  <2>4. CASE HandlePublishesList
    <3>1. Fits("list", ActiveList) /\ k # "list"
      BY PassEntries, ViewConstants DEF Fits
    <3>2. Goal
      BY <1>0, <1>3, <2>1, <2>4, <3>1 DEF HandlePublishesList
    <3> QED BY <3>2 DEF Goal
  <2>5. CASE HandlePublished \/ HandleReturns
    <3>1. Goal
      BY <1>0, <1>2, <2>1, <2>5 DEF HandlePublished, HandleReturns
    <3> QED BY <3>1 DEF Goal
  <2>6. Goal
    BY <1>5, <2>2, <2>3, <2>4, <2>5 DEF HandleNext, Goal
  <2> QED BY <2>6 DEF Goal
<1>6. CASE RehydrateNext
  <2>1. topics' = topics
    BY <1>6 DEF RehydrateNext, RehydrateBegins, SnapshotActive, SnapshotDeletes, RepublishActive, NextDelete,
       RepublishCheck, RegisterPendingDelete, AttemptStale, AttemptValid, AttemptPublishes, AttemptEnds, DeleteRecheck,
       PassEnds, RehydrateBuildsList, RehydratePublishesList, RehydrateReturns, broker
  <2>2. ASSUME NEW c \in Hazards, RepublishActive(c) PROVE Goal
    <3>1. Fits(c, snap[c].ver) /\ k # c
      BY <2>2, PassEntries, EntryIs DEF Fits
    <3> QED BY <1>0, <1>3, <2>1, <2>2, <3>1 DEF RepublishActive
  <2>3. CASE AttemptPublishes
    <3>1. Fits(rkey.key, 0)
      BY <2>3 DEF AttemptPublishes, PassShape, InPass, Fits
    <3>2. Goal
      BY <1>0, <1>3, <2>1, <2>3, <3>1 DEF AttemptPublishes
    <3> QED BY <3>2 DEF Goal
  <2>4. CASE RehydratePublishesList
    <3>1. Fits("list", rlist) /\ k # "list"
      BY ViewConstants DEF Fits, TypeParts, PassOK
    <3>2. Goal
      BY <1>0, <1>3, <2>1, <2>4, <3>1 DEF RehydratePublishesList
    <3> QED BY <3>2 DEF Goal
  <2>5. RepublishCheck \/ AttemptEnds \/ RehydrateReturns => Goal
    BY <1>0, <1>2, <2>1 DEF RepublishCheck, AttemptEnds, RehydrateReturns
  <2>6. RehydrateBegins \/ SnapshotActive \/ SnapshotDeletes \/ RegisterPendingDelete \/ AttemptStale => Goal
    BY <1>1, <2>1 DEF RehydrateBegins, SnapshotActive, SnapshotDeletes, RegisterPendingDelete, AttemptStale, link
  <2>7. AttemptValid \/ DeleteRecheck \/ PassEnds \/ RehydrateBuildsList => Goal
    BY <1>1, <2>1 DEF AttemptValid, DeleteRecheck, PassEnds, RehydrateBuildsList, link
  <2>8. \A c \in Hazards : NextDelete(c) => Goal
    BY <1>1, <2>1 DEF NextDelete, link
  <2>9. Goal
    BY <1>6, <2>2, <2>3, <2>4, <2>5, <2>6, <2>7, <2>8 DEF RehydrateNext, Goal
  <2> QED BY <2>9 DEF Goal
<1>7. CASE Connected \/ \E c \in Hazards, active \in BOOLEAN : StoreWrites(c, active)
  <2>1. Goal
    BY <1>1, <1>7 DEF Connected, StoreWrites, link, broker
  <2> QED BY <2>1 DEF Goal
<1>8. CASE UNCHANGED viewVars
  <2>1. Goal
    BY <1>1, <1>8 DEF viewVars, link, broker
  <2> QED BY <2>1 DEF Goal
<1> QED BY <1>4, <1>5, <1>6, <1>7, <1>8 DEF ViewNext

\* Who changes what is desired, and who moves the rehydration off a recheck.
LEMMA DesiredSteps ==
  ASSUME TypeParts, [ViewNext]_viewVars, ~ProcessRestarts
  PROVE  /\ cache' = cache \/ HandleChange
         /\ pend' = pend \/ HandleChange \/ HandlePublished \/ RegisterPendingDelete \/ AttemptEnds
         /\ \/ UNCHANGED <<rpc, rkey>> \/ RepublishCheck \/ RegisterPendingDelete
            \/ rpc \notin {"check", "register"}
<1> DEFINE Goal == /\ cache' = cache \/ HandleChange
                   /\ pend' = pend \/ HandleChange \/ HandlePublished \/ RegisterPendingDelete \/ AttemptEnds
                   /\ \/ UNCHANGED <<rpc, rkey>> \/ RepublishCheck \/ RegisterPendingDelete
                      \/ rpc \notin {"check", "register"}
<1>1. HandleNext => Goal
  BY DEF HandleNext, HandlePublishes, HandlePublished, HandlePublishesList, HandleReturns, HandleChange, desired, rehydration
<1>2. RehydrateNext => Goal
  BY DEF RehydrateNext, RehydrateBegins, SnapshotActive, SnapshotDeletes, RepublishActive, NextDelete, RepublishCheck,
     AttemptStale, AttemptValid, AttemptPublishes, AttemptEnds, DeleteRecheck, PassEnds,
     RehydrateBuildsList, RehydratePublishesList, RehydrateReturns, RegisterPendingDelete, desired
<1>3. BrokerApplies \/ ConnectionLost \/ Connected => Goal
  BY DEF BrokerApplies, ConnectionLost, Connected, desired, rehydration
<1>4. \A k, active : StoreWrites(k, active) => Goal
  BY DEF StoreWrites, desired, rehydration
<1>5. \A th : WaitTimesOut(th) => Goal
  BY DEF WaitTimesOut, desired, rehydration
<1>6. UNCHANGED viewVars => Goal
  BY DEF viewVars, desired, rehydration
<1> HIDE DEF Goal
<1>7. Goal
  BY <1>1, <1>2, <1>3, <1>4, <1>5, <1>6 DEF ViewNext
<1> QED BY <1>7 DEF Goal

\* A deletion that becomes forgotten was confirmed, and its topic is clean,
\* or the rehydration is about to look at the key again.
LEMMA ForgottenIsClean ==
  ASSUME TypeParts, TokensOwn, GensIssued, HandleKnows, PassShape, ConfirmedIsClean, [ViewNext]_viewVars, ~Excused',
         NEW k \in Hazards, ~HandleChange, cache[k] = Absent, pend[k] # 0, pend'[k] # pend[k]
  PROVE  Clean(k)' \/ Rechecks(k)'
<1>0. ~Excused /\ ~ProcessRestarts
  BY ExcusedStays
<1>1. gen \in Nat /\ pend \in [Hazards -> Nat]
  BY DEF TypeParts, DesiredOK, View
<1>2. CASE HandlePublished
  <2>1. /\ token["worker"] = "ok" /\ hgen # 0 /\ pend[Todo.key] = hgen /\ hpc = "wait"
        /\ k = Todo.key /\ UNCHANGED <<rpc, rkey>>
    BY <1>1, <1>2 DEF HandlePublished, rehydration
  <2>2. CASE Rechecks(k)
    BY <2>1, <2>2 DEF Rechecks
  <2>3. CASE Confirms(k, "worker")
    <3>1. Clean(k)
      BY <2>1, <2>3 DEF Confirms
    <3>2. ~RepublishActive(k)
      BY <1>2, <2>1 DEF RepublishActive, HandlePublished, handler
    <3> QED BY <1>0, <3>1, <3>2, CleanKept
  <2> QED BY <1>0, <2>1, <2>2, <2>3 DEF ConfirmedIsClean
<1>3. CASE AttemptEnds
  <2>1. token["rehydrate"] = "ok" /\ pend[rkey.key] = rkey.gen /\ k = rkey.key /\ rpc = "waitDelete"
    BY <1>1, <1>3 DEF AttemptEnds
  <2>2. Clean(k)
    BY <1>0, <2>1 DEF ConfirmedIsClean, Confirms
  <2>3. ~RepublishActive(k)
    BY <2>1 DEF RepublishActive
  <2> QED BY <1>0, <2>2, <2>3, CleanKept
<1>4. CASE RegisterPendingDelete
  <2>1. pend'[k] = pend[k]
    BY <1>1, <1>4 DEF RegisterPendingDelete
  <2> QED BY <2>1
<1> QED BY <1>0, <1>2, <1>3, <1>4, DesiredSteps

\* A key the rehydration is about to look at again is not forgotten.
LEMMA RechecksKept ==
  ASSUME TypeParts, PassShape, [ViewNext]_viewVars, ~ProcessRestarts, NEW k \in Hazards, cache[k] = Absent, Rechecks(k)
  PROVE  Rechecks(k)' \/ (RegisterPendingDelete /\ rkey.key = k /\ pend'[k] # 0 /\ dirty')
<1>1. gen \in Nat /\ pend \in [Hazards -> Nat]
  BY DEF TypeParts, DesiredOK, View
<1>2. CASE RepublishCheck
  BY <1>2 DEF RepublishCheck, Rechecks
<1>3. CASE RegisterPendingDelete
  <2>1. rkey.key = k /\ dirty
    BY <1>3 DEF Rechecks, RegisterPendingDelete, PassShape
  <2>2. pend'[k] # 0 /\ dirty' = dirty
    BY <1>1, <1>3, <2>1 DEF RegisterPendingDelete
  <2> QED BY <1>3, <2>1, <2>2
<1>4. CASE UNCHANGED <<rpc, rkey>>
  BY <1>4 DEF Rechecks
<1> QED BY <1>2, <1>3, <1>4, DesiredSteps DEF Rechecks

\* What a change makes of its key: an end registers a new deletion.
LEMMA ChangeRegisters ==
  ASSUME TypeParts, HandleChange, NEW k \in Hazards, cache'[k] = Absent
  PROVE  \/ k = Todo.key /\ pend'[k] = gen + 1 /\ gen + 1 # 0
         \/ k # Todo.key /\ cache[k] = Absent /\ pend'[k] = pend[k]
<1>1. gen \in Nat /\ pend \in [Hazards -> Nat] /\ cache \in [Hazards -> Entry] /\ acked + 1 # 0
  BY DEF TypeParts, DesiredOK, View, JournalOK
<1>2. [ver |-> acked + 1, gen |-> gen + 1] # Absent
  BY <1>1 DEF Absent
<1> QED BY <1>1, <1>2 DEF HandleChange

LEMMA EndRememberedKept ==
  ASSUME TypeParts, TokensOwn, GensIssued, HandleKnows, PassShape, EndRemembered, ConfirmedIsClean, [ViewNext]_viewVars
  PROVE  EndRemembered'
<1> SUFFICES ASSUME ~Excused', NEW k \in Hazards, cache'[k] = Absent PROVE Remembered(k)'
  BY DEF EndRemembered
<1>0. ~Excused /\ ~ProcessRestarts
  BY ExcusedStays
<1>1. CASE HandleChange
  <2>1. CASE pend'[k] # 0
    BY <2>1 DEF Remembered
  <2>2. CASE pend'[k] = 0
    <3>1. cache[k] = Absent /\ pend[k] = 0
      BY <1>1, <2>2, ChangeRegisters
    <3>2. UNCHANGED <<wire, topics, rpc, rkey>>
      BY <1>1 DEF HandleChange, link, broker, rehydration
    <3> QED BY <1>0, <3>1, <3>2 DEF EndRemembered, Remembered, Clean, Rechecks
  <2> QED BY <2>1, <2>2
<1>2. CASE ~HandleChange
  <2>1. cache[k] = Absent
    BY <1>0, <1>2, DesiredSteps
  <2>2. CASE RepublishActive(k)
    BY <2>2 DEF RepublishActive, Remembered, Rechecks
  <2>3. CASE Clean(k) /\ ~RepublishActive(k)
    BY <1>0, <2>1, <2>3, CleanKept DEF Remembered
  <2>4. CASE pend[k] # 0
    BY <1>2, <2>1, <2>4, ForgottenIsClean DEF Remembered
  <2>5. CASE Rechecks(k)
    BY <1>0, <2>1, <2>5, RechecksKept DEF Remembered
  <2> QED BY <1>0, <2>1, <2>2, <2>3, <2>4, <2>5 DEF EndRemembered, Remembered
<1> QED BY <1>1, <1>2

LEMMA WorkerConfirmedKept ==
  ASSUME TypeParts, TokensOwn, GensIssued, HandleKnows, PassShape, ConfirmedIsClean, [ViewNext]_viewVars, ~Excused',
         hpc' = "wait", hgen' # 0, NEW k, k = (Todo.key)', pend'[k] = hgen'
  PROVE  Rechecks(k)' \/ Confirms(k, "worker")'
<1>0. ~Excused /\ ~ProcessRestarts
  BY ExcusedStays
<1>1. gen \in Nat /\ hgen \in Nat /\ hgen <= gen /\ pend \in [Hazards -> Nat]
  BY DEF TypeParts, DesiredOK, HandlerOK, View, HandleKnows
<1>2. CASE HandlePublishes
  <2>1. Todo' = Todo /\ UNCHANGED <<hgen, pend, topics>> /\ acked < Len(journal)
    BY <1>2 DEF HandlePublishes, Todo, desired, broker, HandleKnows
  <2>2. k = Todo.key /\ k \in Hazards /\ pend[k] # 0
    BY <2>1, TodoTypes DEF TypeParts
  <2>3. cache[k] = Absent
    BY <2>2 DEF GensIssued
  <2>4. ~Todo.active
    BY <1>2, <2>2, <2>3 DEF HandlePublishes, HandleKnows, TypeParts, JournalOK, Absent
  <2>5. Publish("worker", k, 0) /\ Fits(k, 0) /\ "worker" \in Threads
    BY <1>2, <2>2, <2>4 DEF HandlePublishes, Fits, Threads
  <2>6. token'["worker"] = (IF conn # "never" THEN "wait" ELSE "err") /\ (conn # "never" => DeletesLast(wire', k, "worker"))
    BY <2>1, <2>5, PublishClean DEF TypeParts
  <2> QED BY <2>6 DEF Confirms, Deleting
<1>3. CASE ~HandlePublishes
  <2>1. ~HandleNext
    BY <1>3 DEF HandleNext, HandleChange, HandlePublished, HandlePublishesList, HandleReturns
  <2>2. Elsewhere /\ hpc = "wait" /\ acked < Len(journal)
    BY <1>0, <2>1, ElsewhereSteps DEF Elsewhere, HandleKnows
  <2>3. Todo' = Todo /\ hgen' = hgen
    BY <2>2, SameTodo DEF Elsewhere
  <2>4. k = Todo.key /\ k \in Hazards
    BY <2>2, <2>3, TodoTypes DEF TypeParts
  <2>5. ASSUME pend[k] # hgen PROVE FALSE
    <3>1. RegisterPendingDelete \/ AttemptEnds
      BY <1>0, <2>1, <2>3, <2>5, DesiredSteps DEF HandleNext
    <3>2. CASE AttemptEnds
      BY <1>1, <2>3, <2>4, <2>5, <3>2 DEF AttemptEnds
    <3>3. CASE RegisterPendingDelete
      <4>1. pend'[k] = pend[k] \/ pend'[k] = gen + 1
        BY <1>1, <2>4, <3>3 DEF RegisterPendingDelete
      <4> QED BY <1>1, <2>3, <2>5, <4>1
    <3> QED BY <3>1, <3>2, <3>3
  <2>6. pend[k] # 0 /\ pend[k] = hgen
    BY <2>3, <2>5
  <2>7. cache[k] = Absent
    BY <2>4, <2>6 DEF GensIssued
  <2>8. CASE Rechecks(k)
    <3>1. ~(RegisterPendingDelete /\ rkey.key = k)
      BY <2>6, <2>7 DEF RegisterPendingDelete, Excused
    <3> QED BY <1>0, <2>4, <2>7, <2>8, <3>1, RechecksKept
  <2>9. CASE Confirms(k, "worker")
    <3>1. CASE RepublishActive(k)
      BY <3>1 DEF RepublishActive, Rechecks
    <3>2. CASE ~RepublishActive(k)
      BY <1>0, <2>2, <2>4, <2>7, <2>9, <3>2, CleanKept
    <3> QED BY <3>1, <3>2
  <2> QED BY <1>0, <2>2, <2>3, <2>4, <2>6, <2>8, <2>9 DEF ConfirmedIsClean
<1> QED BY <1>2, <1>3

LEMMA RehydrateConfirmedKept ==
  ASSUME TypeParts, TokensOwn, GensIssued, HandleKnows, PassShape, ConfirmedIsClean, [ViewNext]_viewVars, ~Excused',
         rpc' = "waitDelete", NEW k, k = (rkey.key)', pend'[k] = (rkey.gen)'
  PROVE  Confirms(k, "rehydrate")'
<1>0. ~Excused /\ ~ProcessRestarts
  BY ExcusedStays
<1>1. gen \in Nat /\ rkey.gen \in Nat /\ rkey.gen <= gen /\ pend \in [Hazards -> Nat]
  BY DEF TypeParts, DesiredOK, PassOK, View, PassShape
<1>2. CASE AttemptPublishes
  <2>1. UNCHANGED <<rkey, pend, topics>> /\ rkey.key \in Hazards
    BY <1>2 DEF AttemptPublishes, desired, broker, PassShape, InPass
  <2>2. Publish("rehydrate", k, 0) /\ Fits(k, 0) /\ "rehydrate" \in Threads
    BY <1>2, <2>1 DEF AttemptPublishes, Fits, Threads
  <2>3. token'["rehydrate"] = (IF conn # "never" THEN "wait" ELSE "err") /\ (conn # "never" => DeletesLast(wire', k, "rehydrate"))
    BY <2>1, <2>2, PublishClean DEF TypeParts
  <2> QED BY <2>3 DEF Confirms, Deleting
<1>3. CASE ~AttemptPublishes
  <2>1. ~RehydrateNext
    BY <1>3 DEF RehydrateNext, RehydrateBegins, SnapshotActive, SnapshotDeletes, RepublishActive, NextDelete,
       RepublishCheck, RegisterPendingDelete, AttemptStale, AttemptValid, AttemptEnds, AfterAttempt, DeleteRecheck,
       PassEnds, RehydrateBuildsList, RehydratePublishesList, RehydrateReturns
  <2>2. UNCHANGED <<rpc, rkey>>
    BY <1>0, <2>1, RehydrationAlone DEF rehydration
  <2>3. rpc = "waitDelete" /\ k = rkey.key /\ k \in Hazards /\ rkey.gen # 0
    BY <2>2 DEF PassShape, InPass
  <2>4. ASSUME pend[k] # rkey.gen PROVE FALSE
    <3>1. HandleChange \/ HandlePublished
      BY <1>0, <2>1, <2>2, <2>4, DesiredSteps DEF RehydrateNext
    <3>2. CASE HandleChange
      <4>1. pend'[k] \in {pend[k], 0, gen + 1}
        BY <1>1, <2>3, <3>2 DEF HandleChange
      <4> QED BY <1>1, <2>2, <2>3, <2>4, <4>1
    <3>3. CASE HandlePublished
      <4>1. pend'[k] \in {pend[k], 0}
        BY <1>1, <2>3, <3>3 DEF HandlePublished
      <4> QED BY <2>2, <2>3, <2>4, <4>1
    <3> QED BY <3>1, <3>2, <3>3
  <2>5. cache[k] = Absent
    BY <2>3, <2>4 DEF GensIssued
  <2>6. Confirms(k, "rehydrate") /\ ~RepublishActive(k)
    BY <1>0, <2>3, <2>4 DEF ConfirmedIsClean, RepublishActive
  <2> QED BY <1>0, <2>3, <2>5, <2>6, CleanKept
<1> QED BY <1>2, <1>3

LEMMA ConfirmedIsCleanKept ==
  ASSUME TypeParts, TokensOwn, GensIssued, HandleKnows, PassShape, ConfirmedIsClean, [ViewNext]_viewVars
  PROVE  ConfirmedIsClean'
<1>1. ASSUME ~Excused', hpc' = "wait", hgen' # 0, (pend[Todo.key])' = hgen'
      PROVE  (Rechecks(Todo.key) \/ Confirms(Todo.key, "worker"))'
  <2>1. PICK k : k = (Todo.key)'
    OBVIOUS
  <2>2. Rechecks(k)' \/ Confirms(k, "worker")'
    BY <1>1, <2>1, WorkerConfirmedKept
  <2> QED BY <2>1, <2>2 DEF Rechecks, Confirms, Clean, Deleting
<1>2. ASSUME ~Excused', rpc' = "waitDelete", (pend[rkey.key] = rkey.gen)'
      PROVE  Confirms(rkey.key, "rehydrate")'
  <2>1. PICK k : k = (rkey.key)'
    OBVIOUS
  <2>2. Confirms(k, "rehydrate")'
    BY <1>2, <2>1, RehydrateConfirmedKept
  <2> QED BY <2>1, <2>2 DEF Confirms, Clean, Deleting
<1> QED BY <1>1, <1>2 DEF ConfirmedIsClean

\* Only the republication of k can spoil that its topic will be gone.
LEMMA EndDrains ==
  ASSUME TypeParts, HandleKnows, PassShape, [ViewNext]_viewVars, ~ProcessRestarts,
         NEW k \in Hazards, cache[k] = Absent, ~RepublishActive(k), LastIs(k, 0)
  PROVE  LastIs(k, 0)' \/ conn' # "open"
<1>0. LinkOK /\ "worker" \in Threads /\ "rehydrate" \in Threads
  BY NobodyIsNoThread DEF TypeParts
<1> DEFINE Goal == LastIs(k, 0)' \/ conn' # "open"
<1>1. ASSUME UNCHANGED <<wire, topics>> PROVE Goal
  BY <1>1 DEF LastIs
<1>2. ASSUME NEW th \in Threads, NEW to, NEW val, Fits(to, val), Publish(th, to, val), topics' = topics, k # to \/ val = 0
      PROVE  Goal
  BY <1>0, <1>2, PublishDrains DEF LastIs
<1>3. CASE BrokerApplies \/ \E th \in Threads : WaitTimesOut(th)
  BY <1>0, <1>3, LinkDrains DEF LastIs
<1> HIDE DEF Goal
<1>4. CASE ConnectionLost
  BY <1>4 DEF ConnectionLost
<1>5. CASE HandleNext
  <2>1. CASE HandlePublishes
    <3> DEFINE val == IF Todo.active THEN acked + 1 ELSE 0
    <3>1. Todo.key \in Hazards /\ val \in Nat /\ cache[Todo.key].ver = val
      BY <2>1, TodoTypes DEF HandlePublishes, HandleKnows, TypeParts
    <3>2. Fits(Todo.key, val) /\ (k # Todo.key \/ val = 0)
      BY <3>1 DEF Fits, Absent
    <3>3. Publish("worker", Todo.key, val) /\ topics' = topics
      BY <2>1 DEF HandlePublishes, broker
    <3> HIDE DEF val
    <3> QED BY <1>0, <1>2, <3>2, <3>3 DEF Goal
  <2>2. CASE HandlePublishesList
    <3>1. Fits("list", ActiveList) /\ k # "list"
      BY PassEntries, ViewConstants DEF Fits
    <3> QED BY <1>0, <1>2, <2>2, <3>1 DEF HandlePublishesList, broker, Goal
  <2>3. HandleChange \/ HandlePublished \/ HandleReturns => Goal
    BY <1>1 DEF HandleChange, HandlePublished, HandleReturns, Consume, link, broker
  <2> QED BY <1>5, <2>1, <2>2, <2>3 DEF HandleNext, Goal
<1>6. CASE RehydrateNext
  <2>1. ASSUME NEW c \in Hazards, RepublishActive(c) PROVE Goal
    <3>1. Fits(c, snap[c].ver) /\ k # c
      BY <2>1, PassEntries, EntryIs DEF Fits
    <3> QED BY <1>0, <1>2, <2>1, <3>1 DEF RepublishActive, broker
  <2>2. AttemptPublishes => Goal
    <3>1. AttemptPublishes => Fits(rkey.key, 0)
      BY DEF AttemptPublishes, PassShape, InPass, Fits
    <3> QED BY <1>0, <1>2, <3>1 DEF AttemptPublishes, broker
  <2>3. RehydratePublishesList => Goal
    <3>1. Fits("list", rlist) /\ k # "list"
      BY ViewConstants DEF Fits, TypeParts, PassOK
    <3> QED BY <1>0, <1>2, <3>1 DEF RehydratePublishesList, broker
  <2>4. RepublishCheck \/ AttemptEnds \/ RehydrateReturns => Goal
    BY <1>1 DEF RepublishCheck, AttemptEnds, RehydrateReturns, Consume, broker
  <2>5. RehydrateBegins \/ SnapshotActive \/ SnapshotDeletes \/ RegisterPendingDelete \/ AttemptStale => Goal
    BY <1>1 DEF RehydrateBegins, SnapshotActive, SnapshotDeletes, RegisterPendingDelete, AttemptStale, link, broker
  <2>6. AttemptValid \/ DeleteRecheck \/ PassEnds \/ RehydrateBuildsList => Goal
    BY <1>1 DEF AttemptValid, DeleteRecheck, PassEnds, RehydrateBuildsList, link, broker
  <2>7. \A c \in Hazards : NextDelete(c) => Goal
    BY <1>1 DEF NextDelete, link, broker
  <2>8. Goal
    BY <1>6, <2>1, <2>2, <2>3, <2>4, <2>5, <2>6, <2>7 DEF RehydrateNext
  <2> QED BY <2>8 DEF Goal
<1>7. CASE Connected \/ \E c \in Hazards, active \in BOOLEAN : StoreWrites(c, active)
  <2>1. Goal
    BY <1>1, <1>7 DEF Connected, StoreWrites, link, broker
  <2> QED BY <2>1 DEF Goal
<1>8. CASE UNCHANGED viewVars
  <2>1. Goal
    BY <1>1, <1>8 DEF viewVars, link, broker
  <2> QED BY <2>1 DEF Goal
<1> QED BY <1>3, <1>4, <1>5, <1>6, <1>7, <1>8 DEF ViewNext

LEMMA EndCoveredKept ==
  ASSUME TypeParts, TypeParts', TokensOwn, GensIssued, HandleKnows, PassShape, EndRemembered, ConfirmedIsClean,
         EndCovered, [ViewNext]_viewVars
  PROVE  EndCovered'
<1> SUFFICES ASSUME ~Excused', NEW k \in Hazards, cache'[k] = Absent PROVE WillEnd(k)'
  BY DEF EndCovered
<1>0. ~Excused /\ ~ProcessRestarts
  BY ExcusedStays
<1>1. Clean(k)' => WillEnd(k)'
  BY CleanDrains DEF TypeParts, LinkOK, Clean, LastIs, WillEnd
<1>2. ASSUME conn' # "open" \/ Rechecks(k)' \/ dirty' PROVE WillEnd(k)'
  BY <1>2 DEF WillEnd, Rehydrates
<1>3. CASE HandleChange
  <2>1. /\ Todo' = Todo /\ hpc' = "publish" /\ hpc = "idle"
        /\ UNCHANGED <<wire, conn, topics, waiting, rpc, dirty, gaveUp, rkey, dels>>
    BY <1>3 DEF HandleChange, Todo, link, broker, rehydration
  <2>2. CASE k = Todo.key
    BY <2>1, <2>2 DEF WillEnd, HandlePublishesTo
  <2>3. CASE k # Todo.key
    <3>1. cache[k] = Absent /\ pend'[k] = pend[k]
      BY <1>3, <2>3, ChangeRegisters
    <3>2. WillEnd(k)
      BY <1>0, <3>1 DEF EndCovered
    <3> QED BY <2>1, <3>1, <3>2 DEF WillEnd, LastIs, Rehydrates, HandlePublishesTo, Rechecks
  <2> QED BY <2>2, <2>3
<1>4. CASE ~HandleChange
  <2>1. cache[k] = Absent /\ cache' = cache
    BY <1>0, <1>4, DesiredSteps
  <2>2. WillEnd(k)
    BY <1>0, <2>1 DEF EndCovered
  <2>3. CASE RepublishActive(k)
    BY <1>2, <2>3 DEF RepublishActive, Rechecks
  <2>4. CASE Rechecks(k)
    BY <1>0, <1>2, <2>1, <2>4, RechecksKept
  <2>5. CASE LastIs(k, 0) /\ ~RepublishActive(k)
    <3>1. CASE LastIs(k, 0)'
      BY <3>1 DEF WillEnd
    <3>2. CASE conn' # "open"
      BY <1>2, <3>2
    <3> QED BY <1>0, <2>1, <2>5, <3>1, <3>2, EndDrains
  <2>6. CASE pend[k] # 0 /\ pend'[k] # pend[k]
    BY <1>1, <1>2, <1>4, <2>1, <2>6, ForgottenIsClean
  <2>7. ASSUME ~LastIs(k, 0), ~Rechecks(k), ~RepublishActive(k), pend[k] # 0 => pend'[k] = pend[k]
        PROVE  WillEnd(k)'
    <3> DEFINE InDeletes == rpc \in InPass /\ pend[k] # 0 /\ dels[k] = pend[k]
               Attempting == rpc \in {"attempt", "delete"} /\ rkey.key = k /\ rkey.gen = pend[k] /\ pend[k] # 0
    <3>1. Rehydrates \/ HandlePublishesTo(k) \/ rpc = "deletes" \/ InDeletes \/ Attempting
      BY <2>2, <2>7 DEF WillEnd, PassShape
    <3>2. CASE ConnectionLost
      BY <1>2, <3>2 DEF ConnectionLost
    <3>3. CASE Connected
      <4>1. waiting' > 0
        BY <3>3 DEF Connected, TypeParts, HandlerOK
      <4> QED BY <4>1 DEF WillEnd, Rehydrates
    <3>4. CASE RehydrateNext
      <4>0. /\ conn' = conn
            /\ HandlePublishesTo(k)' = HandlePublishesTo(k)
            /\ "rehydrate" \in Threads
        <5>1. UNCHANGED <<conn, hpc, journal, acked>>
          BY <3>4 DEF RehydrateNext, RehydrateBegins, SnapshotActive, SnapshotDeletes, RepublishActive, NextDelete,
             RepublishCheck, RegisterPendingDelete, AttemptStale, AttemptValid, AttemptPublishes, AttemptEnds,
             DeleteRecheck, PassEnds, RehydrateBuildsList, RehydratePublishesList, RehydrateReturns, link, handler,
             Consume, Publish, Send, Refused
        <5> QED BY <5>1 DEF HandlePublishesTo, Todo, Threads
      <4>1. CASE RehydrateBegins
        BY <4>1 DEF RehydrateBegins, WillEnd, Rehydrates
      <4>2. CASE SnapshotActive
        BY <4>2 DEF SnapshotActive, WillEnd
      <4>3. CASE SnapshotDeletes
        <5>1. CASE pend[k] = 0
          <6>1. Clean(k)
            BY <1>0, <2>1, <2>7, <5>1 DEF EndRemembered, Remembered
          <6>2. Clean(k)'
            BY <1>0, <2>1, <2>7, <6>1, CleanKept
          <6> QED BY <1>1, <6>2
        <5>2. CASE pend[k] # 0
          <6>1. pend # Nothing
            BY <5>2 DEF Nothing
          <6>2. rpc' = "next" /\ dels'[k] = pend'[k] /\ pend'[k] # 0
            BY <4>3, <5>2, <6>1 DEF SnapshotDeletes, desired
          <6> QED BY <6>2 DEF WillEnd, InPass
        <5> QED BY <5>1, <5>2
      <4>4. ASSUME NEW c \in Hazards, RepublishActive(c) PROVE WillEnd(k)'
        <5>1. rpc = "next" /\ rpc' = "check" /\ UNCHANGED <<waiting, gaveUp, dirty, dels, pend>>
          BY <4>4 DEF RepublishActive, desired
        <5> QED BY <3>1, <4>0, <5>1 DEF WillEnd, Rehydrates, InPass
      <4>5. ASSUME NEW c \in Hazards, NextDelete(c) PROVE WillEnd(k)'
        <5>1. /\ rpc = "next" /\ rpc' = "attempt" /\ UNCHANGED <<waiting, gaveUp, dirty, pend>>
              /\ dels' = [dels EXCEPT ![c] = 0] /\ rkey' = [key |-> c, gen |-> dels[c], deleting |-> TRUE]
          BY <4>5 DEF NextDelete, desired
        <5>2. CASE k = c
          <6>1. rkey'.key = k /\ rkey'.gen = dels[k]
            BY <5>1, <5>2
          <6> QED BY <3>1, <4>0, <5>1, <6>1 DEF WillEnd, Rehydrates
        <5>3. CASE k # c
          <6>1. dels'[k] = dels[k]
            BY <5>1, <5>3 DEF TypeParts, PassOK, View
          <6> QED BY <3>1, <4>0, <5>1, <6>1 DEF WillEnd, Rehydrates, InPass
        <5> QED BY <5>2, <5>3
      <4>6. CASE RepublishCheck
        <5>1. rpc = "check" /\ rpc' \in {"next", "register"} /\ UNCHANGED <<waiting, gaveUp, dels, pend>>
          BY <4>6 DEF RepublishCheck, desired
        <5>2. dirty => dirty'
          BY <4>6 DEF RepublishCheck
        <5> QED BY <3>1, <4>0, <5>1, <5>2 DEF WillEnd, Rehydrates, InPass
      <4>7. CASE RegisterPendingDelete
        BY <1>2, <4>7 DEF RegisterPendingDelete, PassShape
      <4>8. CASE AttemptStale
        <5>1. rpc = "attempt" /\ rpc' \in InPass /\ UNCHANGED <<waiting, gaveUp, dirty, dels, pend>> /\ ~Attempting
          BY <2>1, <4>8 DEF AttemptStale, AfterAttempt, InPass, desired
        <5> QED BY <3>1, <4>0, <5>1 DEF WillEnd, Rehydrates, InPass
      <4>9. CASE AttemptValid
        <5>1. rpc = "attempt" /\ rpc' = "delete" /\ UNCHANGED <<waiting, gaveUp, dirty, dels, pend, rkey>>
          BY <4>9 DEF AttemptValid, desired
        <5> QED BY <3>1, <4>0, <5>1 DEF WillEnd, Rehydrates, InPass
      <4>10. CASE AttemptPublishes
        <5>1. rpc = "delete" /\ rpc' = "waitDelete" /\ UNCHANGED <<waiting, gaveUp, dirty, dels, pend, rkey, topics>>
          BY <4>10 DEF AttemptPublishes, desired, broker
        <5>2. CASE rkey.key = k
          <6>1. Publish("rehydrate", k, 0) /\ Fits(k, 0)
            BY <4>10, <5>2 DEF AttemptPublishes, Fits
          <6>2. conn # "never" => Drains(wire', topics'[k], k, 0)
            BY <4>0, <5>1, <6>1, PublishDrains DEF TypeParts
          <6> QED BY <4>0, <6>2 DEF WillEnd, LastIs, Rehydrates
        <5>3. CASE rkey.key # k
          BY <3>1, <4>0, <5>1, <5>3 DEF WillEnd, Rehydrates, InPass
        <5> QED BY <5>2, <5>3
      <4>11. CASE AttemptEnds
        <5>1. rpc = "waitDelete" /\ rpc' \in InPass /\ UNCHANGED <<waiting, gaveUp, dirty, dels>>
          BY <4>11 DEF AttemptEnds, AfterAttempt, InPass
        <5> QED BY <2>7, <3>1, <4>0, <5>1 DEF WillEnd, Rehydrates, InPass
      <4>12. CASE DeleteRecheck
        <5>1. rpc = "recheck" /\ rpc' = "next" /\ UNCHANGED <<waiting, gaveUp, dels, pend>>
          BY <4>12 DEF DeleteRecheck, desired
        <5>2. dirty => dirty'
          BY <4>12 DEF DeleteRecheck
        <5> QED BY <3>1, <4>0, <5>1, <5>2 DEF WillEnd, Rehydrates, InPass
      <4>13. CASE PassEnds
        <5>1. rpc = "next" /\ dels[k] = 0 /\ waiting' = waiting
          BY <4>13 DEF PassEnds, Nothing
        <5>2. dirty => rpc' = "snapshot" \/ gaveUp'
          BY <4>13 DEF PassEnds
        <5>3. ~dirty => gaveUp' = gaveUp
          BY <4>13 DEF PassEnds
        <5> QED BY <3>1, <4>0, <5>1, <5>2, <5>3 DEF WillEnd, Rehydrates
      <4>14. CASE RehydrateBuildsList \/ RehydratePublishesList \/ RehydrateReturns
        <5>1. rpc \in {"list", "publishList", "waitList"} /\ UNCHANGED <<waiting, gaveUp, dirty>>
          BY <4>14 DEF RehydrateBuildsList, RehydratePublishesList, RehydrateReturns
        <5> QED BY <3>1, <4>0, <5>1 DEF WillEnd, Rehydrates, InPass
      <4> QED BY <3>4, <4>1, <4>2, <4>3, <4>4, <4>5, <4>6, <4>7, <4>8, <4>9, <4>10, <4>11, <4>12, <4>13, <4>14
              DEF RehydrateNext
    <3>5. CASE HandlePublishes
      <4>1. /\ UNCHANGED <<conn, topics, waiting, rpc, dirty, gaveUp, rkey, dels, pend>> /\ "worker" \in Threads
        BY <3>5 DEF HandlePublishes, Publish, Send, Refused, broker, rehydration, desired, Threads
      <4>2. CASE Todo.key = k
        <5>1. ~Todo.active
          BY <2>1, <3>5, <4>2 DEF HandlePublishes, HandleKnows, TypeParts, JournalOK, Absent
        <5>2. Publish("worker", k, 0) /\ Fits(k, 0)
          BY <3>5, <4>2, <5>1 DEF HandlePublishes, Fits
        <5>3. conn # "never" => Drains(wire', topics'[k], k, 0)
          BY <4>1, <5>2, PublishDrains DEF TypeParts
        <5> QED BY <4>1, <5>3 DEF WillEnd, LastIs, Rehydrates
      <4>3. CASE Todo.key # k
        BY <3>1, <4>1, <4>3 DEF WillEnd, Rehydrates, HandlePublishesTo
      <4> QED BY <4>2, <4>3
    <3>6. CASE HandlePublished \/ HandlePublishesList \/ HandleReturns
      <4>1. UNCHANGED <<conn, waiting, rpc, dirty, gaveUp, rkey, dels>> /\ ~HandlePublishesTo(k)
        BY <3>6 DEF HandlePublished, HandlePublishesList, HandleReturns, Consume, Publish, Send, Refused, rehydration,
           HandlePublishesTo
      <4> QED BY <2>7, <3>1, <4>1 DEF WillEnd, Rehydrates
    <3>7. ASSUME UNCHANGED <<conn, waiting, hpc, rehydration, pend>>, hpc # "idle" => Todo' = Todo
          PROVE  WillEnd(k)'
      BY <3>1, <3>7 DEF WillEnd, Rehydrates, HandlePublishesTo, rehydration
    <3>8. CASE BrokerApplies \/ \E th \in Threads : WaitTimesOut(th)
      BY <3>7, <3>8 DEF BrokerApplies, WaitTimesOut, desired, handler, Todo
    <3>9. CASE \E c \in Hazards, active \in BOOLEAN : StoreWrites(c, active)
      <4>1. UNCHANGED <<conn, waiting, hpc, rehydration, pend>>
        BY <3>9 DEF StoreWrites, desired, link, handler
      <4>2. hpc # "idle" => Todo' = Todo
        BY <3>9, StoreElsewhere, SameTodo DEF HandleKnows
      <4> QED BY <3>7, <4>1, <4>2
    <3>10. CASE UNCHANGED viewVars
      BY <3>7, <3>10 DEF viewVars, desired, link, handler, Todo
    <3> QED BY <1>0, <1>4, <3>2, <3>3, <3>4, <3>5, <3>6, <3>8, <3>9, <3>10 DEF ViewNext, HandleNext
  <2> QED BY <2>3, <2>4, <2>5, <2>6, <2>7
<1> QED BY <1>3, <1>4

LEMMA GapInit == ViewInit => GapInv
<1> SUFFICES ASSUME ViewInit PROVE GapInv
  OBVIOUS
<1>1. ActiveInv
  BY ActiveInit
<1>2. TokensOwn
  BY NobodyIsNoThread DEF TokensOwn, Waiters, WireOwned, ViewInit
<1>3. ASSUME NEW k \in Hazards, cache[k] = Absent PROVE Clean(k)
  <2>1. Truth(k) = 0
    <3>1. cache[k] = IF Truth(k) = 0 THEN Absent ELSE [ver |-> Truth(k), gen |-> 1]
      BY DEF ViewInit
    <3> QED BY <1>3, <3>1 DEF Absent
  <2>2. topics[k] = 0
    BY <2>1 DEF ViewInit, Nothing
  <2> QED BY <2>2 DEF Clean, CleanOf, ViewInit
<1>4. EndRemembered
  BY <1>3 DEF EndRemembered, Remembered
<1>5. ConfirmedIsClean
  BY DEF ConfirmedIsClean, ViewInit
<1>6. EndCovered
  BY DEF EndCovered, WillEnd, Rehydrates, ViewInit
<1>7. ShortIsRestarted
  BY DEF ShortIsRestarted, ViewInit
<1> QED BY <1>1, <1>2, <1>4, <1>5, <1>6, <1>7 DEF GapInv

LEMMA GapStep == GapInv /\ [ViewNext]_viewVars => GapInv'
<1> SUFFICES ASSUME GapInv, [ViewNext]_viewVars PROVE GapInv'
  OBVIOUS
<1>1. ActiveInv /\ ActiveInv'
  BY ActiveStep DEF GapInv
<1>2. TypeParts /\ TypeParts' /\ GensIssued /\ HandleKnows /\ PassShape
  BY <1>1, TypeIsParts DEF ActiveInv
<1> QED BY <1>1, <1>2, TokensOwnKept, EndRememberedKept, ConfirmedIsCleanKept, EndCoveredKept, ShortKept DEF GapInv

LEMMA GapInvOnly == GapInv => OnlyGapResurrects
<1> SUFFICES ASSUME GapInv, Quiet, ~gaveUp, ~shared, ~restarted, NEW k \in Hazards, Truth(k) = 0
             PROVE  topics[k] = 0
  BY DEF OnlyGapResurrects
<1>1. TypeParts
  BY TypeIsParts DEF GapInv, ActiveInv
<1>2. ~ \E i \in DOMAIN journal : i > acked /\ journal[i].key = k
  BY <1>1 DEF Quiet, TypeParts, JournalOK
<1>3. cache[k].ver = 0
  BY <1>2 DEF GapInv, ActiveInv, CacheIsNewest, ShortIsRestarted
<1>4. cache[k] = Absent
  BY <1>3 DEF GapInv, ActiveInv, GensIssued
<1>5. ~Rehydrates /\ ~HandlePublishesTo(k) /\ ~Rechecks(k)
  BY DEF Quiet, Rehydrates, HandlePublishesTo, Rechecks, GapInv, ActiveInv, PassShape, InPass
<1>6. LastIs(k, 0)
  BY <1>4, <1>5 DEF GapInv, EndCovered, Excused, WillEnd, Quiet, InPass
<1>7. wire = <<>>
  BY DEF Quiet
<1> QED BY <1>6, <1>7 DEF LastIs, Drains

\* rehydrateActive brings an ended hazard back only where registerPendingDelete-
\* IfAbsent reused the registration of Handle's own deletion: without that, in a
\* process that has not been started again, the topic of every ended hazard is
\* gone when the output is quiet, for any hazards, changes, passes, lost
\* connections and timeouts.
THEOREM OnlyTheGap == ViewSpec => []OnlyGapResurrects
BY GapInit, GapStep, GapInvOnly, PTL DEF ViewSpec
=============================================================================
