--------------------------- MODULE ReceiverProofs ---------------------------
(***************************************************************************)
(* Proofs about the MQTT receivers and the mirror they fill: whatever the  *)
(* order of the callbacks, the connections and the browses, an undisturbed *)
(* key of the mirror is what its broker retains.                           *)
(*                                                                         *)
(* The argument: as long as a key is in no hole, the newest frame of its   *)
(* topic among the callbacks still to run is the one the broker retains,   *)
(* so the mirror ends up at it.                                            *)
(***************************************************************************)
EXTENDS Receiver, FiniteSetTheorems, SequenceTheorems, TLAPS

-----------------------------------------------------------------------------
(* Frames.                                                                 *)

\* What the broker can send: never the null frame.
Sent == [topic : Topics, ver : 1 .. MaxFrames, form : Forms]

\* A topic retains a frame of its own, which is not a deletion; callbacks are
\* handed frames that were sent.
FramesOK ==
  /\ RecvTypeOK
  /\ \A r \in Receivers, t \in Retainable :
       \/ retained[r][t] = NoFrame
       \/ retained[r][t] \in Sent /\ retained[r][t].topic = t /\ retained[r][t].form # "empty"
  /\ calls \in [Receivers -> Seq(Sent)]

LEMMA SentIsFrame == Sent \subseteq Frame
BY ReceiverConstants DEF Sent, Frame

\* The null frame is not sent.
LEMMA SentIsSomething == ASSUME NEW f \in Sent PROVE f # NoFrame
<1>1. f.ver # 0
  BY DEF Sent
<1>2. NoFrame.ver = 0
  BY DEF NoFrame
<1> QED
  BY <1>1, <1>2

\* Removing frame i leaves the others in their order.
LEMMA WithoutKeepsOrder ==
  ASSUME NEW S, NEW s \in Seq(S), NEW i \in 1 .. Len(s)
  PROVE  /\ Without(s, i) \in Seq(S)
         /\ Len(Without(s, i)) = Len(s) - 1
         /\ \A j \in 1 .. Len(s) - 1 : Without(s, i)[j] = s[IF j < i THEN j ELSE j + 1]
<1> DEFINE a == SubSeq(s, 1, i - 1)
           b == SubSeq(s, i + 1, Len(s))
<1>1. /\ a \in Seq(S) /\ Len(a) = i - 1
      /\ \A j \in 1 .. i - 1 : a[j] = s[j]
  <2>1. \A j \in 1 .. i - 1 : s[j] \in S
    OBVIOUS
  <2>2. /\ SubSeq(s, 1, i - 1) \in Seq(S)
        /\ Len(SubSeq(s, 1, i - 1)) = IF 1 <= i - 1 THEN i - 1 - 1 + 1 ELSE 0
        /\ \A j \in 1 .. i - 1 - 1 + 1 : SubSeq(s, 1, i - 1)[j] = s[1 + j - 1]
    BY <2>1, SubSeqProperties
  <2> QED
    BY <2>2
<1>2. /\ b \in Seq(S) /\ Len(b) = Len(s) - i
      /\ \A j \in 1 .. Len(s) - i : b[j] = s[i + j]
  <2>1. \A j \in i + 1 .. Len(s) : s[j] \in S
    OBVIOUS
  <2>2. /\ SubSeq(s, i + 1, Len(s)) \in Seq(S)
        /\ Len(SubSeq(s, i + 1, Len(s))) = IF i + 1 <= Len(s) THEN Len(s) - (i + 1) + 1 ELSE 0
        /\ \A j \in 1 .. Len(s) - (i + 1) + 1 : SubSeq(s, i + 1, Len(s))[j] = s[i + 1 + j - 1]
    BY <2>1, SubSeqProperties
  <2> QED
    BY <2>2
<1> HIDE DEF a, b
<1>3. /\ a \o b \in Seq(S) /\ Len(a \o b) = Len(a) + Len(b)
      /\ \A j \in 1 .. Len(a) + Len(b) : (a \o b)[j] = IF j <= Len(a) THEN a[j] ELSE b[j - Len(a)]
  BY <1>1, <1>2, ConcatProperties
<1>4. Without(s, i) = a \o b
  BY DEF Without, a, b
<1>5. ASSUME NEW j \in 1 .. Len(s) - 1
      PROVE  (a \o b)[j] = s[IF j < i THEN j ELSE j + 1]
  <2>1. CASE j < i
    BY <1>1, <1>2, <1>3, <2>1
  <2>2. CASE j >= i
    <3>1. j - (i - 1) \in 1 .. Len(s) - i /\ i + (j - (i - 1)) = j + 1
      BY <2>2
    <3>2. b[j - (i - 1)] = s[j + 1]
      BY <1>2, <3>1
    <3>3. ~(j <= Len(a)) /\ j - Len(a) = j - (i - 1) /\ j \in 1 .. Len(a) + Len(b)
      BY <1>1, <1>2, <2>2
    <3>4. (a \o b)[j] = b[j - (i - 1)]
      BY <1>3, <3>3
    <3> QED
      BY <2>2, <3>2, <3>4
  <2>3. i \in Nat /\ j \in Nat
    OBVIOUS
  <2>4. j < i \/ j >= i
    BY <2>3
  <2> QED
    BY <2>1, <2>2, <2>4
<1>6. Len(a \o b) = Len(s) - 1
  BY <1>1, <1>2, <1>3
<1> QED
  BY <1>3, <1>4, <1>5, <1>6

\* A replay is frames the broker retains below the filters, and all of them.
LEMMA ReplayIsComplete ==
  ASSUME FramesOK, NEW r \in Receivers, NEW ts \in SUBSET Topics, NEW s \in Replayed(r, ts)
  PROVE  /\ s \in Seq(Sent)
         /\ \A i \in DOMAIN s : \E t \in ts \cap Retainable : s[i] = retained[r][t] /\ s[i].topic = t
         /\ \A t \in ts \cap Retainable :
              retained[r][t] # NoFrame => \E i \in DOMAIN s : s[i] = retained[r][t]
<1> DEFINE kept == {t \in ts \cap Retainable : retained[r][t] # NoFrame}
           held == {retained[r][t] : t \in kept}
           at == [t \in kept |-> retained[r][t]]
           n == Cardinality(kept)
<1>1. IsFiniteSet(Retainable)
  <2>1. IsFiniteSet({"info"}) /\ IsFiniteSet({"status"})
    BY FS_Singleton
  <2>2. IsFiniteSet({"info"} \cup {"status"})
    BY <2>1, FS_Union
  <2>3. IsFiniteSet(Actives \cup ({"info"} \cup {"status"}))
    BY <2>2, FS_Union, ReceiverConstants
  <2>4. Retainable = Actives \cup ({"info"} \cup {"status"})
    BY DEF Retainable
  <2> QED
    BY <2>3, <2>4
<1>2. IsFiniteSet(kept) /\ n \in Nat
  <2>1. kept \in SUBSET Retainable
    OBVIOUS
  <2> HIDE DEF kept
  <2>2. IsFiniteSet(kept)
    BY <1>1, <2>1, FS_Subset
  <2> QED
    BY <2>2, FS_CardinalityType
<1>3. \A t \in kept : retained[r][t] \in Sent /\ retained[r][t].topic = t
  BY DEF FramesOK
<1>4. s \in [1 .. n -> held] /\ \A i, j \in 1 .. n : s[i] = s[j] => i = j
  BY DEF Replayed
<1> HIDE DEF kept
<1>5. at \in Bijection(kept, held)
  <2>1. at \in [kept -> held]
    OBVIOUS
  <2>2. \A t, u \in kept : at[t] = at[u] => t = u
    BY <1>3
  <2>3. \A f \in held : \E t \in kept : at[t] = f
    OBVIOUS
  <2> QED
    BY <2>1, <2>2, <2>3 DEF Bijection, Injection, Surjection, IsInjective
<1>6. IsFiniteSet(held) /\ Cardinality(held) = n
  BY <1>2, <1>5, FS_Bijection DEF ExistsBijection
<1> HIDE DEF held, n
<1>7. s \in Injection(1 .. n, held)
  BY <1>4 DEF Injection, IsInjective
<1>8. Cardinality(1 .. n) = n
  BY <1>2, FS_Interval
<1>9. s \in Surjection(1 .. n, held)
  BY <1>6, <1>7, <1>8, FS_Injection
<1>10. DOMAIN s = 1 .. n /\ \A f \in held : \E i \in 1 .. n : s[i] = f
  BY <1>4, <1>9 DEF Surjection
<1> USE DEF held
<1>11. held \subseteq Sent
  BY <1>3
<1>12. s \in Seq(Sent)
  <2>1. \A i \in 1 .. n : s[i] \in Sent
    BY <1>4, <1>11
  <2>2. s = [i \in 1 .. n |-> s[i]]
    BY <1>4
  <2> QED
    BY <1>2, <2>1, <2>2, IsASeq
<1>13. \A i \in DOMAIN s : \E t \in ts \cap Retainable : s[i] = retained[r][t] /\ s[i].topic = t
  <2> SUFFICES ASSUME NEW i \in 1 .. n
               PROVE  \E t \in ts \cap Retainable : s[i] = retained[r][t] /\ s[i].topic = t
    BY <1>10
  <2>1. PICK t \in kept : s[i] = retained[r][t]
    BY <1>4
  <2> QED
    BY <1>3, <2>1 DEF kept
<1>14. \A t \in ts \cap Retainable :
         retained[r][t] # NoFrame => \E i \in DOMAIN s : s[i] = retained[r][t]
  BY <1>10 DEF kept
<1> QED
  BY <1>12, <1>13, <1>14

-----------------------------------------------------------------------------
(* Everything stays typed.                                                 *)

LEMMA InitialFrames == RecvInit => FramesOK
<1> SUFFICES ASSUME RecvInit PROVE FramesOK
  OBVIOUS
<1>1. NoFrame \in Frame
  BY DEF NoFrame, Frame, Topics, Forms
<1>2. retained \in [Receivers -> [Retainable -> Frame]]
  BY <1>1 DEF RecvInit
<1>3. calls \in [Receivers -> Seq(Frame)] /\ calls \in [Receivers -> Seq(Sent)]
  <2>1. <<>> \in Seq(Frame) /\ <<>> \in Seq(Sent)
    OBVIOUS
  <2> QED
    BY <2>1 DEF RecvInit
<1>4. inbox \in Seq(1 .. MaxFrames) /\ Len(inbox) <= QueueSize /\ taken \in Seq(1 .. MaxFrames)
  BY ReceiverConstants DEF RecvInit
<1>5. /\ active \in [Keys -> 0 .. MaxFrames] /\ past \subseteq 1 .. MaxFrames
      /\ info \in [Receivers -> 0 .. MaxFrames] /\ router \in [Receivers -> 0 .. MaxFrames]
      /\ frames \in 0 .. MaxFrames /\ breaks \in 0 .. MaxBreaks
  BY ReceiverConstants DEF RecvInit
<1>6. /\ up \in [Receivers -> BOOLEAN] /\ subs \in [Receivers -> SUBSET Topics]
      /\ onConnect \in [Receivers -> {"none", "subscribe"}] /\ shown \in [Receivers -> BOOLEAN]
      /\ partial \in [Receivers -> BOOLEAN] /\ browse \in [Receivers -> SUBSET Topics]
      /\ closed \in BOOLEAN /\ drained \in BOOLEAN /\ stopping \in BOOLEAN
      /\ holes \subseteq Keys \X {"overtaken", "missed", "full", "browsed"}
  BY DEF RecvInit
<1>7. \A r \in Receivers, t \in Retainable : retained[r][t] = NoFrame
  BY DEF RecvInit
<1> QED
  BY <1>2, <1>3, <1>4, <1>5, <1>6, <1>7 DEF FramesOK, RecvTypeOK

\* A publication is a frame that was sent.
LEMMA PublishedIsSent ==
  ASSUME FramesOK, NEW t \in Topics, NEW form \in FormsOf(t), frames < MaxFrames
  PROVE  [topic |-> t, ver |-> frames + 1, form |-> form] \in Sent
<1>1. frames \in Nat /\ frames + 1 \in 1 .. MaxFrames
  BY ReceiverConstants DEF FramesOK, RecvTypeOK
<1>2. form \in Forms
  BY DEF FormsOf, Forms
<1> QED
  BY <1>1, <1>2 DEF Sent

LEMMA PublishTyped ==
  ASSUME FramesOK, NEW r \in Receivers, NEW t \in Topics, NEW form \in FormsOf(t),
         BrokerPublishes(r, t, form)
  PROVE  FramesOK'
<1> DEFINE f == [topic |-> t, ver |-> frames + 1, form |-> form]
<1>1. f \in Sent /\ f.topic = t /\ f.form = form
  BY PublishedIsSent DEF BrokerPublishes
<1> HIDE DEF f
<1>2. f \in Frame /\ NoFrame \in Frame
  BY <1>1, SentIsFrame DEF NoFrame, Frame, Topics, Forms
<1>3. /\ frames' = frames + 1 /\ frames < MaxFrames
      /\ retained' = IF t \in Retainable
                     THEN [retained EXCEPT ![r][t] = IF form = "empty" THEN NoFrame ELSE f]
                     ELSE retained
      /\ calls' \in {calls, [calls EXCEPT ![r] = Append(@, f)]}
      /\ UNCHANGED <<clientSide, mirror, ingress, stopping, past>>
  BY DEF BrokerPublishes, f
<1>4. calls' \in [Receivers -> Seq(Sent)] /\ calls' \in [Receivers -> Seq(Frame)]
  <2>1. calls \in [Receivers -> Seq(Sent)] /\ calls \in [Receivers -> Seq(Frame)]
    BY DEF FramesOK, RecvTypeOK
  <2>2. Append(calls[r], f) \in Seq(Sent) /\ Append(calls[r], f) \in Seq(Frame)
    BY <1>1, <1>2, <2>1, AppendProperties
  <2>3. CASE calls' = calls
    BY <2>1, <2>3
  <2>4. CASE calls' = [calls EXCEPT ![r] = Append(@, f)]
    BY <2>1, <2>2, <2>4
  <2> QED
    BY <1>3, <2>3, <2>4
<1>5. retained' \in [Receivers -> [Retainable -> Frame]]
  BY <1>2, <1>3 DEF FramesOK, RecvTypeOK
<1>6. \A q \in Receivers, u \in Retainable :
        \/ retained'[q][u] = NoFrame
        \/ retained'[q][u] \in Sent /\ retained'[q][u].topic = u /\ retained'[q][u].form # "empty"
  <2> SUFFICES ASSUME NEW q \in Receivers, NEW u \in Retainable
               PROVE  \/ retained'[q][u] = NoFrame
                      \/ retained'[q][u] \in Sent /\ retained'[q][u].topic = u /\ retained'[q][u].form # "empty"
    OBVIOUS
  <2>1. retained'[q][u] \in {retained[q][u], NoFrame} \/ (retained'[q][u] = f /\ u = t /\ form # "empty")
    BY <1>3 DEF FramesOK, RecvTypeOK
  <2> QED
    BY <1>1, <2>1 DEF FramesOK
<1>7. holes' \subseteq Keys \X {"overtaken", "missed", "full", "browsed"}
  <2>1. \A ts, why : why \in {"missed", "browsed"} =>
          Hole(r, ts, why) \subseteq Keys \X {"overtaken", "missed", "full", "browsed"}
    BY DEF Hole, Keys
  <2> QED
    BY <2>1 DEF BrokerPublishes, FramesOK, RecvTypeOK
<1>8. frames' \in 0 .. MaxFrames
  BY <1>3, ReceiverConstants DEF FramesOK, RecvTypeOK
<1> QED
  BY <1>3, <1>4, <1>5, <1>6, <1>7, <1>8
     DEF FramesOK, RecvTypeOK, clientSide, mirror, ingress

\* A replay can be appended to the callbacks.
LEMMA ReplayTyped ==
  ASSUME FramesOK, NEW r \in Receivers, NEW ts \in SUBSET Topics, NEW s \in Replayed(r, ts),
         calls' = [calls EXCEPT ![r] = @ \o s]
  PROVE  calls' \in [Receivers -> Seq(Sent)] /\ calls' \in [Receivers -> Seq(Frame)]
<1>1. s \in Seq(Sent)
  BY ReplayIsComplete
<1>2. calls \in [Receivers -> Seq(Sent)]
  BY DEF FramesOK
<1>3. calls[r] \o s \in Seq(Sent)
  BY <1>1, <1>2, ConcatProperties
<1>4. calls' \in [Receivers -> Seq(Sent)]
  BY <1>2, <1>3
<1>5. \A q \in Receivers : calls'[q] \in Seq(Frame)
  BY <1>4, SentIsFrame, SeqMonotonic
<1> QED
  BY <1>4, <1>5

LEMMA ConnectTyped ==
  ASSUME FramesOK, NEW r \in Receivers, ConnectNext(r)
  PROVE  FramesOK'
<1>1. CASE ReceiverConnects(r)
  BY <1>1 DEF ReceiverConnects, FramesOK, RecvTypeOK, brokerSide, mirror, ingress
<1>2. CASE SubscribeAll(r)
  <2>1. calls' \in [Receivers -> Seq(Sent)] /\ calls' \in [Receivers -> Seq(Frame)]
    BY <1>2, ReplayTyped DEF SubscribeAll
  <2> QED
    BY <1>2, <2>1 DEF SubscribeAll, FramesOK, RecvTypeOK, brokerSide, mirror, ingress
<1>3. CASE SubscribeFails(r)
  <2>1. /\ calls' \in [Receivers -> Seq(Sent)] /\ calls' \in [Receivers -> Seq(Frame)]
        /\ subs' \in [Receivers -> SUBSET Topics]
        /\ breaks' \in 0 .. MaxBreaks
        /\ partial' \in [Receivers -> BOOLEAN]
    <3>1. CASE UNCHANGED <<subs, calls, breaks, partial>>
      BY <3>1 DEF FramesOK, RecvTypeOK
    <3>2. CASE ~(UNCHANGED <<subs, calls, breaks, partial>>)
      <4>1. PICK done \in {{}, Actives, Topics \ Actives} :
              /\ subs' = [subs EXCEPT ![r] = done]
              /\ \E s \in Replayed(r, done) : calls' = [calls EXCEPT ![r] = @ \o s]
        BY <1>3, <3>2 DEF SubscribeFails
      <4>2. done \in SUBSET Topics
        BY DEF Topics, Retainable
      <4>3. calls' \in [Receivers -> Seq(Sent)] /\ calls' \in [Receivers -> Seq(Frame)]
        BY <4>1, <4>2, ReplayTyped
      <4>4. breaks < MaxBreaks /\ breaks' = breaks + 1 /\ partial' = [partial EXCEPT ![r] = TRUE]
        BY <1>3, <3>2 DEF SubscribeFails
      <4> QED
        BY <4>1, <4>2, <4>3, <4>4, ReceiverConstants DEF FramesOK, RecvTypeOK
    <3> QED
      BY <3>1, <3>2
  <2>2. /\ shown' = [shown EXCEPT ![r] = FALSE]
        /\ onConnect' = [onConnect EXCEPT ![r] = "none"]
        /\ UNCHANGED <<brokerSide, up, browse, mirror, ingress, stopping, past, holes>>
    BY <1>3 DEF SubscribeFails
  <2> QED
    BY <2>1, <2>2 DEF FramesOK, RecvTypeOK, brokerSide, mirror, ingress
<1> QED
  BY <1>1, <1>2, <1>3 DEF ConnectNext

LEMMA DisconnectTyped ==
  ASSUME FramesOK, NEW r \in Receivers,
         \/ ReceiverLost(r)
         \/ \E ts \in {Actives, Topics} : BrowseBegins(r, ts)
         \/ BrowseEnds(r)
  PROVE  FramesOK'
<1>1. CASE ReceiverLost(r)
  BY <1>1, ReceiverConstants DEF ReceiverLost, FramesOK, RecvTypeOK, brokerSide, mirror, ingress
<1>2. CASE \E ts \in {Actives, Topics} : BrowseBegins(r, ts)
  <2>1. PICK ts \in {Actives, Topics} : BrowseBegins(r, ts)
    BY <1>2
  <2>2. ts \in SUBSET Topics
    BY DEF Topics, Retainable
  <2> QED
    BY <2>1, <2>2, ReceiverConstants
       DEF BrowseBegins, FramesOK, RecvTypeOK, brokerSide, mirror, ingress
<1>3. CASE BrowseEnds(r)
  <2>1. subs' \in [Receivers -> SUBSET Topics] /\ partial' \in [Receivers -> BOOLEAN]
    <3>1. subs \in [Receivers -> SUBSET Topics] /\ partial \in [Receivers -> BOOLEAN]
      BY DEF FramesOK, RecvTypeOK
    <3>2. CASE UNCHANGED <<subs, partial>>
      BY <3>1, <3>2
    <3>3. CASE subs' = [subs EXCEPT ![r] = @ \ Actives] /\ partial' = [partial EXCEPT ![r] = TRUE]
      <4>1. subs[r] \ Actives \in SUBSET Topics
        BY <3>1
      <4> QED
        BY <3>1, <3>3, <4>1
    <3> QED
      BY <1>3, <3>2, <3>3 DEF BrowseEnds
  <2> QED
    BY <1>3, <2>1 DEF BrowseEnds, FramesOK, RecvTypeOK, brokerSide, mirror, ingress
<1> QED
  BY <1>1, <1>2, <1>3

\* The steps that touch neither a broker nor a connection.
LEMMA QuietTyped ==
  ASSUME FramesOK,
         \/ \E v \in 1 .. MaxFrames : TimePasses(v)
         \/ Snapshot \/ ConsumeEvent \/ StopIntakeAll \/ DrainIngress \/ StopIntake
         \/ UNCHANGED recvVars
  PROVE  FramesOK'
<1> USE DEF FramesOK, RecvTypeOK, brokerSide, clientSide, mirror, ingress
<1>1. CASE \E v \in 1 .. MaxFrames : TimePasses(v)
  <2>1. PICK v \in 1 .. MaxFrames : TimePasses(v)
    BY <1>1
  <2>2. /\ past' = past \cup {v}
        /\ UNCHANGED <<brokerSide, clientSide, calls, mirror, ingress, stopping, holes>>
    BY <2>1 DEF TimePasses
  <2> QED
    BY <2>2
<1>2. CASE Snapshot
  <2>1. active' \in [Keys -> 0 .. MaxFrames]
    BY <1>2, ReceiverConstants DEF Snapshot
  <2> QED
    BY <1>2, <2>1 DEF Snapshot
<1>3. CASE ConsumeEvent
  <2>1. /\ taken' \in Seq(1 .. MaxFrames)
        /\ inbox' \in Seq(1 .. MaxFrames) /\ Len(inbox') <= QueueSize
    <3>1. inbox \in Seq(1 .. MaxFrames) /\ inbox # <<>> /\ Len(inbox) <= QueueSize
      BY <1>3 DEF ConsumeEvent
    <3>2. /\ Head(inbox) \in 1 .. MaxFrames /\ Tail(inbox) \in Seq(1 .. MaxFrames)
          /\ Len(Tail(inbox)) = Len(inbox) - 1
      BY <3>1, HeadTailProperties
    <3> QED
      BY <1>3, <3>1, <3>2, ReceiverConstants DEF ConsumeEvent
  <2> QED
    BY <1>3, <2>1 DEF ConsumeEvent
<1>4. CASE StopIntakeAll
  BY <1>4 DEF StopIntakeAll
<1>5. CASE DrainIngress
  <2>1. inbox' \in Seq(1 .. MaxFrames) /\ Len(inbox') = 0
    BY <1>5 DEF DrainIngress
  <2> QED
    BY <1>5, <2>1, ReceiverConstants DEF DrainIngress
<1>6. CASE StopIntake
  BY <1>6 DEF StopIntake
<1>7. CASE UNCHANGED recvVars
  BY <1>7 DEF recvVars
<1> QED
  BY <1>1, <1>2, <1>3, <1>4, <1>5, <1>6, <1>7

\* What a callback does to the holes.
LEMMA HandledHoles ==
  ASSUME FramesOK, NEW r \in Receivers, NEW i \in DOMAIN calls[r]
  PROVE  NewHoles(r, i) \subseteq Keys \X {"overtaken", "missed", "full", "browsed"}
<1>1. \A ts, why : why \in {"full", "overtaken"} =>
        Hole(r, ts, why) \subseteq Keys \X {"overtaken", "missed", "full", "browsed"}
  BY DEF Hole, Keys
<1>2. holes \subseteq Keys \X {"overtaken", "missed", "full", "browsed"}
  BY DEF FramesOK, RecvTypeOK
<1> QED
  BY <1>1, <1>2 DEF NewHoles

LEMMA HandleTyped ==
  ASSUME FramesOK, NEW r \in Receivers, NEW i \in DOMAIN calls[r], HandleMessage(r, i)
  PROVE  FramesOK'
<1> DEFINE f == calls[r][i]
<1>1. /\ calls \in [Receivers -> Seq(Sent)]
      /\ i \in 1 .. Len(calls[r]) /\ f \in Sent
  BY DEF FramesOK
<1>2. f.ver \in 1 .. MaxFrames /\ f.topic \in Topics
  BY <1>1 DEF Sent
<1>3. calls' = [calls EXCEPT ![r] = Without(@, i)] /\ holes' = NewHoles(r, i)
  BY DEF HandleMessage
<1>4. calls' \in [Receivers -> Seq(Sent)]
  <2>1. Without(calls[r], i) \in Seq(Sent)
    BY <1>1, WithoutKeepsOrder
  <2> QED
    BY <1>1, <1>3, <2>1
<1>5. calls' \in [Receivers -> Seq(Frame)]
  <2>1. \A q \in Receivers : calls'[q] \in Seq(Frame)
    BY <1>4, SentIsFrame, SeqMonotonic
  <2> QED
    BY <1>4, <2>1
<1>6. holes' \subseteq Keys \X {"overtaken", "missed", "full", "browsed"}
  BY <1>3, HandledHoles
<1>7. UNCHANGED <<brokerSide, clientSide, closed, taken, drained, stopping, past>>
  BY DEF HandleMessage
<1>8. \/ UNCHANGED <<mirror, inbox>>
      \/ f.topic \in Actives /\ HandleActive(r, f)
      \/ HandleInfo(r, f) \/ HandleStatus(r, f) \/ HandleEvent(r, f)
  BY DEF HandleMessage
<1> HIDE DEF f
<1>9. active' \in [Keys -> 0 .. MaxFrames]
  <2>1. active \in [Keys -> 0 .. MaxFrames]
    BY DEF FramesOK, RecvTypeOK
  <2>2. \A v \in 0 .. MaxFrames, k \in Keys : [active EXCEPT ![k] = v] \in [Keys -> 0 .. MaxFrames]
    BY <2>1
  <2>3. f.topic \in Actives => <<r, f.topic>> \in Keys
    BY DEF Keys
  <2>4. f.ver \in 0 .. MaxFrames /\ 0 \in 0 .. MaxFrames
    BY <1>2, ReceiverConstants
  <2>5. CASE f.topic \in Actives /\ HandleActive(r, f)
    BY <2>1, <2>2, <2>3, <2>4, <2>5 DEF HandleActive, DeleteActive, AddOrUpdateActive
  <2>6. CASE UNCHANGED active
    BY <2>1, <2>6
  <2> QED
    BY <1>8, <2>5, <2>6 DEF HandleInfo, HandleStatus, HandleEvent, mirror
<1>10. info' \in [Receivers -> 0 .. MaxFrames] /\ router' \in [Receivers -> 0 .. MaxFrames]
  <2>1. info \in [Receivers -> 0 .. MaxFrames] /\ router \in [Receivers -> 0 .. MaxFrames]
    BY DEF FramesOK, RecvTypeOK
  <2>2. f.ver \in 0 .. MaxFrames
    BY <1>2, ReceiverConstants
  <2> QED
    BY <1>8, <2>1, <2>2 DEF HandleInfo, HandleStatus, HandleEvent, HandleActive, mirror
<1>11. inbox' \in Seq(1 .. MaxFrames) /\ Len(inbox') <= QueueSize
  <2>1. inbox \in Seq(1 .. MaxFrames) /\ Len(inbox) <= QueueSize
    BY DEF FramesOK, RecvTypeOK
  <2>2. inbox' = inbox \/ (Len(inbox) < QueueSize /\ inbox' = Append(inbox, f.ver))
    BY <1>8 DEF HandleInfo, HandleStatus, HandleEvent, HandleActive, Enqueue
  <2>3. CASE Len(inbox) < QueueSize /\ inbox' = Append(inbox, f.ver)
    BY <1>2, <2>1, <2>3, ReceiverConstants
  <2> QED
    BY <2>1, <2>2, <2>3
<1> QED
  BY <1>4, <1>5, <1>6, <1>7, <1>9, <1>10, <1>11
     DEF FramesOK, RecvTypeOK, brokerSide, clientSide

LEMMA FramesStep ==
  ASSUME FramesOK, [RecvNext]_recvVars
  PROVE  FramesOK'
<1>1. ASSUME NEW r \in Receivers, NEW t \in Feeds[r], NEW form \in FormsOf(t), BrokerPublishes(r, t, form)
      PROVE  FramesOK'
  <2>1. t \in Topics
    BY ReceiverConstants
  <2> QED
    BY <1>1, <2>1, PublishTyped
<1>2. ASSUME NEW r \in Receivers, ConnectNext(r) PROVE FramesOK'
  BY <1>2, ConnectTyped
<1>3. ASSUME NEW r \in Receivers, BrowseEnds(r) PROVE FramesOK'
  BY <1>3, DisconnectTyped
<1>4. ASSUME NEW r \in Receivers, HandleNext(r) PROVE FramesOK'
  BY <1>4, HandleTyped DEF HandleNext
<1>5. ASSUME NEW r \in Flaky, ReceiverLost(r) \/ \E ts \in {Actives, Topics} : BrowseBegins(r, ts)
      PROVE  FramesOK'
  BY <1>5, DisconnectTyped, ReceiverConstants
<1> QED
  BY <1>1, <1>2, <1>3, <1>4, <1>5, QuietTyped DEF RecvNext

LEMMA FramesAlways == RecvSpec => []FramesOK
BY InitialFrames, FramesStep, PTL DEF RecvSpec

-----------------------------------------------------------------------------
(* The mirror follows the broker.                                          *)

\* The callbacks of receiver r for topic t that are still to run.
InCalls(r, t) == {i \in DOMAIN calls[r] : calls[r][i].topic = t}

Kept(k) == retained[k[1]][k[2]]
Agrees(f, kept) == kept = (IF f.form = "empty" THEN NoFrame ELSE f)
Shows(k) == IF active[k] \in past THEN 0 ELSE active[k]
Followed(k) == k[2] \in subs[k[1]] \/ Kept(k) = NoFrame
Undisturbed(k) == \A h \in holes : h[1] # k

\* Of a key the receiver follows, the newest callback still to run carries
\* what the broker retains; with none left, the mirror shows it.  A key the
\* broker retains nothing of needs no subscription: no replay would mend it.
FollowsAt(k) ==
  Judgeable(k) /\ Followed(k) /\ Undisturbed(k) =>
    /\ \A i \in InCalls(k[1], k[2]) :
         (\A j \in InCalls(k[1], k[2]) : j <= i) => Agrees(calls[k[1]][i], Kept(k))
    /\ InCalls(k[1], k[2]) = {} => Shows(k) = Expected(k)

MirrorFollows == \A k \in Keys : FollowsAt(k)

LEMMA KeyParts == \A k \in Keys : k[1] \in Receivers /\ k[2] \in Actives /\ k = <<k[1], k[2]>>
BY DEF Keys

\* A step that leaves the callbacks of a key and what is retained of it alone.
LEMMA StillFollows ==
  ASSUME NEW k \in Keys, FollowsAt(k),
         calls'[k[1]] = calls[k[1]], Kept(k)' = Kept(k),
         k[2] \in subs'[k[1]] => k[2] \in subs[k[1]],
         Undisturbed(k)' => Undisturbed(k),
         Shows(k) = Expected(k) => Shows(k)' = Expected(k)'
  PROVE  FollowsAt(k)'
<1>1. InCalls(k[1], k[2])' = InCalls(k[1], k[2])
  BY DEF InCalls
<1>2. Judgeable(k)' => Judgeable(k)
  BY DEF Judgeable, Kept
<1>3. Followed(k)' => Followed(k)
  BY DEF Followed
<1> QED
  BY <1>1, <1>2, <1>3 DEF FollowsAt

\* Frames are delivered: those of the key repeat what is retained, and a new
\* subscription to a retained topic brings one.
LEMMA DeliveryFollows ==
  ASSUME FramesOK, NEW k \in Keys, FollowsAt(k), NEW s \in Seq(Sent),
         calls'[k[1]] = calls[k[1]] \o s, Kept(k)' = Kept(k),
         \A i \in DOMAIN s : s[i].topic = k[2] => s[i] = Kept(k),
         k[2] \in subs'[k[1]] /\ Kept(k) # NoFrame
           => k[2] \in subs[k[1]] \/ \E i \in DOMAIN s : s[i].topic = k[2],
         UNCHANGED <<active, past>>, Undisturbed(k)' => Undisturbed(k)
  PROVE  FollowsAt(k)'
<1> DEFINE r == k[1]
           t == k[2]
           c == calls[r]
<1>1. r \in Receivers /\ t \in Actives /\ t \in Retainable
  BY KeyParts DEF Retainable
<1>2. c \in Seq(Sent)
  BY <1>1 DEF FramesOK
<1>3. /\ Len(c) \in Nat /\ Len(s) \in Nat /\ DOMAIN c = 1 .. Len(c) /\ DOMAIN s = 1 .. Len(s)
      /\ c \o s \in Seq(Sent) /\ Len(c \o s) = Len(c) + Len(s)
      /\ \A i \in 1 .. Len(c) + Len(s) : (c \o s)[i] = IF i <= Len(c) THEN c[i] ELSE s[i - Len(c)]
  BY <1>2, ConcatProperties, LenProperties
<1>4. DOMAIN (c \o s) = 1 .. Len(c) + Len(s)
  BY <1>3
<1>5. InCalls(r, t)' = {i \in 1 .. Len(c) + Len(s) : (c \o s)[i].topic = t}
  BY <1>4 DEF InCalls
<1>6. InCalls(r, t) = {i \in 1 .. Len(c) : c[i].topic = t}
  BY <1>3 DEF InCalls
<1>7. Kept(k) # NoFrame => Kept(k).form # "empty"
  BY <1>1 DEF Kept, FramesOK
<1>8. \A i \in 1 .. Len(s) : s[i] # NoFrame
  BY SentIsSomething
<1> HIDE DEF c
<1> SUFFICES ASSUME Judgeable(k)', Followed(k)', Undisturbed(k)'
             PROVE  /\ \A i \in InCalls(r, t)' :
                         (\A j \in InCalls(r, t)' : j <= i) => Agrees((c \o s)[i], Kept(k))
                    /\ InCalls(r, t)' = {} => Shows(k)' = Expected(k)'
  BY DEF FollowsAt, c
<1>9. Judgeable(k) /\ Undisturbed(k) /\ Shows(k)' = Shows(k) /\ Expected(k)' = Expected(k)
  BY DEF Judgeable, Shows, Expected, Kept
<1>10. CASE \E n \in 1 .. Len(s) : s[n].topic = t
  <2>1. PICK n \in 1 .. Len(s) : s[n].topic = t
    BY <1>10
  <2>2. Len(c) + n \in InCalls(r, t)'
    <3>1. Len(c) + n \in 1 .. Len(c) + Len(s) /\ ~(Len(c) + n <= Len(c)) /\ (Len(c) + n) - Len(c) = n
      BY <1>3
    <3>2. (c \o s)[Len(c) + n] = s[n]
      BY <1>3, <3>1
    <3> QED
      BY <1>5, <2>1, <3>1, <3>2
  <2>3. ASSUME NEW i \in InCalls(r, t)', \A j \in InCalls(r, t)' : j <= i
        PROVE  Agrees((c \o s)[i], Kept(k))
    <3>1. i \in 1 .. Len(c) + Len(s) /\ Len(c) + n <= i /\ (c \o s)[i].topic = t
      BY <1>5, <2>2, <2>3
    <3>2. ~(i <= Len(c)) /\ i - Len(c) \in 1 .. Len(s)
      BY <1>3, <3>1
    <3>3. (c \o s)[i] = s[i - Len(c)]
      BY <1>3, <3>1, <3>2
    <3>4. s[i - Len(c)] = Kept(k)
      BY <1>3, <3>1, <3>2, <3>3
    <3> QED
      BY <1>7, <1>8, <3>2, <3>3, <3>4 DEF Agrees
  <2> QED
    BY <2>2, <2>3
<1>11. CASE \A n \in 1 .. Len(s) : s[n].topic # t
  <2>1. InCalls(r, t)' = InCalls(r, t)
    <3>1. ASSUME NEW i \in 1 .. Len(c) + Len(s), (c \o s)[i].topic = t
          PROVE  i \in 1 .. Len(c) /\ c[i].topic = t
      <4>1. CASE ~(i <= Len(c))
        <5>1. i - Len(c) \in 1 .. Len(s) /\ (c \o s)[i] = s[i - Len(c)]
          BY <1>3, <4>1
        <5> QED
          BY <1>11, <3>1, <5>1
      <4>2. CASE i <= Len(c)
        <5>1. i \in 1 .. Len(c) /\ (c \o s)[i] = c[i]
          BY <1>3, <4>2
        <5> QED
          BY <3>1, <5>1
      <4> QED
        BY <4>1, <4>2
    <3>2. ASSUME NEW i \in 1 .. Len(c), c[i].topic = t
          PROVE  i \in 1 .. Len(c) + Len(s) /\ (c \o s)[i].topic = t
      <4>1. i \in 1 .. Len(c) + Len(s) /\ i <= Len(c)
        BY <1>3
      <4> QED
        BY <1>3, <3>2, <4>1
    <3> QED
      BY <1>5, <1>6, <3>1, <3>2
  <2>2. \A i \in InCalls(r, t) : (c \o s)[i] = c[i]
    <3>1. ASSUME NEW i \in 1 .. Len(c) PROVE (c \o s)[i] = c[i]
      <4>1. i \in 1 .. Len(c) + Len(s) /\ i <= Len(c)
        BY <1>3
      <4> QED
        BY <1>3, <4>1
    <3> QED
      BY <1>6, <3>1
  <2>3. Followed(k)
    BY <1>3, <1>11 DEF Followed
  <2> QED
    BY <1>9, <2>1, <2>2, <2>3 DEF FollowsAt, c
<1> QED
  BY <1>10, <1>11

LEMMA PublishFollows ==
  ASSUME FramesOK, MirrorFollows, NEW r \in Receivers, NEW t \in Topics, NEW form \in FormsOf(t),
         BrokerPublishes(r, t, form)
  PROVE  MirrorFollows'
<1> DEFINE f == [topic |-> t, ver |-> frames + 1, form |-> form]
           new == IF form = "empty" THEN NoFrame ELSE f
<1>1. f \in Sent /\ f.topic = t /\ f.form = form
  BY PublishedIsSent DEF BrokerPublishes
<1>2. /\ retained' = IF t \in Retainable THEN [retained EXCEPT ![r][t] = new] ELSE retained
      /\ UNCHANGED <<subs, active, past>>
  BY DEF BrokerPublishes, clientSide, mirror
<1>3. \/ t \in subs[r] \ browse[r] /\ calls' = [calls EXCEPT ![r] = Append(@, f)] /\ holes' = holes
      \/ /\ t \notin subs[r] \ browse[r]
         /\ calls' = calls
         /\ holes' = holes \cup (IF t \in browse[r] THEN Hole(r, {t}, "browsed")
                                 ELSE IF form = "empty" THEN Hole(r, {t}, "missed") ELSE {})
  BY DEF BrokerPublishes
<1>4. f # NoFrame
  BY <1>1, SentIsSomething
<1> HIDE DEF f
<1>5. \A k \in Keys : Undisturbed(k)' => Undisturbed(k)
  BY <1>3 DEF Undisturbed
<1>6. calls \in [Receivers -> Seq(Sent)] /\ retained \in [Receivers -> [Retainable -> Frame]]
  BY DEF FramesOK, RecvTypeOK
<1> SUFFICES ASSUME NEW k \in Keys PROVE FollowsAt(k)'
  BY DEF MirrorFollows
<1>7. FollowsAt(k) /\ k[1] \in Receivers /\ k[2] \in Actives /\ k[2] \in Retainable /\ k = <<k[1], k[2]>>
  BY KeyParts DEF MirrorFollows, Retainable
<1>8. CASE k # <<r, t>>
  <2>1. Kept(k)' = Kept(k)
    BY <1>2, <1>6, <1>7, <1>8 DEF Kept
  <2>2. Shows(k)' = Shows(k) /\ Expected(k)' = Expected(k)
    BY <1>2, <2>1 DEF Shows, Expected, Kept
  <2>3. CASE calls'[k[1]] = calls[k[1]]
    BY <1>2, <1>5, <1>7, <2>1, <2>2, <2>3, StillFollows
  <2>4. CASE calls'[k[1]] # calls[k[1]]
    <3>1. k[1] = r /\ calls' = [calls EXCEPT ![r] = Append(@, f)]
      BY <1>3, <1>6, <1>7, <2>4
    <3>2. k[2] # t
      BY <1>7, <1>8, <3>1
    <3>3. calls'[k[1]] = calls[k[1]] \o <<f>>
      <4>1. calls'[r] = Append(calls[r], f)
        BY <1>6, <3>1
      <4>2. Append(calls[r], f) = calls[r] \o <<f>>
        BY <1>1, <1>6, AppendIsConcat
      <4> QED
        BY <3>1, <4>1, <4>2
    <3>4. <<f>> \in Seq(Sent) /\ DOMAIN <<f>> = {1} /\ <<f>>[1].topic = t
      BY <1>1
    <3> QED
      BY <1>2, <1>5, <1>7, <2>1, <3>2, <3>3, <3>4, DeliveryFollows
  <2> QED
    BY <2>3, <2>4
<1>9. CASE k = <<r, t>>
  <2>1. k[1] = r /\ k[2] = t /\ t \in Actives /\ t \in Retainable
    BY <1>7, <1>9
  <2>2. Kept(k)' = new
    BY <1>2, <1>6, <2>1 DEF Kept
  <2>3. CASE t \in subs[r] \ browse[r] /\ calls' = [calls EXCEPT ![r] = Append(@, f)]
    <3>1. calls[r] \in Seq(Sent) /\ calls'[r] = Append(calls[r], f)
      BY <1>6, <2>3
    <3>2. /\ DOMAIN calls'[r] = 1 .. Len(calls[r]) + 1 /\ Len(calls[r]) \in Nat
          /\ calls'[r][Len(calls[r]) + 1] = f
      BY <1>1, <3>1, AppendProperties
    <3>3. Len(calls[r]) + 1 \in InCalls(r, t)'
      BY <1>1, <3>2 DEF InCalls
    <3>4. ASSUME NEW i \in InCalls(r, t)', \A j \in InCalls(r, t)' : j <= i
          PROVE  Agrees(calls'[r][i], Kept(k)')
      <4>1. i \in 1 .. Len(calls[r]) + 1 /\ Len(calls[r]) + 1 <= i
        BY <3>2, <3>3, <3>4 DEF InCalls
      <4>2. i = Len(calls[r]) + 1
        BY <3>2, <4>1
      <4> QED
        BY <1>1, <2>2, <3>2, <4>2 DEF Agrees
    <3> QED
      BY <2>1, <3>3, <3>4 DEF FollowsAt
  <2>4. CASE t \in browse[r]
    <3>1. holes' = holes \cup Hole(r, {t}, "browsed")
      BY <1>3, <2>4
    <3>2. <<k, "browsed">> \in holes'
      BY <1>9, <2>1, <3>1 DEF Hole
    <3>3. <<k, "browsed">>[1] = k
      OBVIOUS
    <3> QED
      BY <3>2, <3>3 DEF FollowsAt, Undisturbed
  <2>5. CASE t \notin subs[r] /\ t \notin browse[r] /\ form = "empty"
    <3>1. holes' = holes \cup Hole(r, {t}, "missed")
      BY <1>3, <2>5
    <3>2. <<k, "missed">> \in holes'
      BY <1>9, <2>1, <3>1 DEF Hole
    <3>3. <<k, "missed">>[1] = k
      OBVIOUS
    <3> QED
      BY <3>2, <3>3 DEF FollowsAt, Undisturbed
  <2>6. CASE t \notin subs[r] /\ form # "empty"
    <3>1. ~Followed(k)'
      BY <1>2, <1>4, <2>1, <2>2, <2>6 DEF Followed
    <3> QED
      BY <3>1 DEF FollowsAt
  <2> QED
    BY <1>3, <2>3, <2>4, <2>5, <2>6
<1> QED
  BY <1>8, <1>9

\* What the connection does: a replay brings what is retained.
LEMMA SubscriptionFollows ==
  ASSUME FramesOK, MirrorFollows, NEW r \in Receivers, NEW ts \in SUBSET Topics,
         NEW s \in Replayed(r, ts),
         subs' = [subs EXCEPT ![r] = ts], calls' = [calls EXCEPT ![r] = @ \o s],
         UNCHANGED <<retained, active, past, holes>>
  PROVE  MirrorFollows'
<1>1. /\ s \in Seq(Sent)
      /\ \A i \in DOMAIN s : \E t \in ts \cap Retainable : s[i] = retained[r][t] /\ s[i].topic = t
      /\ \A t \in ts \cap Retainable :
           retained[r][t] # NoFrame => \E i \in DOMAIN s : s[i] = retained[r][t]
  BY ReplayIsComplete
<1>2. calls \in [Receivers -> Seq(Sent)] /\ subs \in [Receivers -> SUBSET Topics]
  BY DEF FramesOK, RecvTypeOK
<1> SUFFICES ASSUME NEW k \in Keys PROVE FollowsAt(k)'
  BY DEF MirrorFollows
<1>3. FollowsAt(k) /\ k[1] \in Receivers /\ k[2] \in Actives /\ k[2] \in Retainable
  BY KeyParts DEF MirrorFollows, Retainable
<1>4. Kept(k)' = Kept(k) /\ (Undisturbed(k)' => Undisturbed(k))
      /\ Shows(k)' = Shows(k) /\ Expected(k)' = Expected(k)
  BY DEF Kept, Undisturbed, Shows, Expected
<1>5. CASE k[1] # r
  BY <1>2, <1>3, <1>4, <1>5, StillFollows
<1>6. CASE k[1] = r
  <2>1. calls'[k[1]] = calls[k[1]] \o s /\ subs'[k[1]] = ts
    BY <1>2, <1>6
  <2>2. \A i \in DOMAIN s : s[i].topic = k[2] => s[i] = Kept(k)
    BY <1>1, <1>6 DEF Kept
  <2>3. k[2] \in ts /\ Kept(k) # NoFrame => \E i \in DOMAIN s : s[i].topic = k[2]
    <3> SUFFICES ASSUME k[2] \in ts, Kept(k) # NoFrame
                 PROVE  \E i \in DOMAIN s : s[i].topic = k[2]
      OBVIOUS
    <3>1. PICK i \in DOMAIN s : s[i] = retained[r][k[2]]
      BY <1>1, <1>3, <1>6 DEF Kept
    <3>2. retained[r][k[2]].topic = k[2]
      BY <1>3, <1>6 DEF FramesOK, Kept
    <3> QED
      BY <3>1, <3>2
  <2> QED
    BY <1>1, <1>3, <1>4, <2>1, <2>2, <2>3, DeliveryFollows
<1> QED
  BY <1>5, <1>6

\* The mirror side of a step that only narrows the subscriptions.
LEMMA NarrowingFollows ==
  ASSUME MirrorFollows, \A r \in Receivers : subs'[r] \subseteq subs[r],
         UNCHANGED <<retained, calls, active, past, holes>>
  PROVE  MirrorFollows'
<1> SUFFICES ASSUME NEW k \in Keys PROVE FollowsAt(k)'
  BY DEF MirrorFollows
<1>1. FollowsAt(k) /\ k[1] \in Receivers
  BY KeyParts DEF MirrorFollows
<1>2. /\ Kept(k)' = Kept(k) /\ (Undisturbed(k)' => Undisturbed(k))
      /\ Shows(k)' = Shows(k) /\ Expected(k)' = Expected(k)
  BY DEF Kept, Undisturbed, Shows, Expected
<1> QED
  BY <1>1, <1>2, StillFollows

LEMMA ConnectionFollows ==
  ASSUME FramesOK, MirrorFollows, NEW r \in Receivers,
         \/ ConnectNext(r) \/ ReceiverLost(r) \/ BrowseEnds(r)
         \/ \E ts \in {Actives, Topics} : BrowseBegins(r, ts)
  PROVE  MirrorFollows'
<1>1. subs \in [Receivers -> SUBSET Topics]
  BY DEF FramesOK, RecvTypeOK
<1>2. CASE ReceiverConnects(r)
  BY <1>2, NarrowingFollows DEF ReceiverConnects, brokerSide, mirror
<1>3. CASE SubscribeAll(r)
  <2>1. Topics \in SUBSET Topics
    OBVIOUS
  <2> QED
    BY <1>3, <2>1, SubscriptionFollows DEF SubscribeAll, brokerSide, mirror
<1>4. CASE SubscribeFails(r)
  <2>1. UNCHANGED <<retained, active, past, holes>>
    BY <1>4 DEF SubscribeFails, brokerSide, mirror
  <2>2. CASE UNCHANGED <<subs, calls>>
    BY <2>1, <2>2, NarrowingFollows
  <2>3. CASE ~(UNCHANGED <<subs, calls>>)
    <3>1. PICK done \in {{}, Actives, Topics \ Actives} :
            /\ subs' = [subs EXCEPT ![r] = done]
            /\ \E s \in Replayed(r, done) : calls' = [calls EXCEPT ![r] = @ \o s]
      BY <1>4, <2>3 DEF SubscribeFails
    <3>2. done \in SUBSET Topics
      BY DEF Topics, Retainable
    <3> QED
      BY <2>1, <3>1, <3>2, SubscriptionFollows
  <2> QED
    BY <2>2, <2>3
<1>5. CASE ReceiverLost(r)
  <2>1. \A q \in Receivers : subs'[q] \subseteq subs[q]
    BY <1>1, <1>5 DEF ReceiverLost
  <2> QED
    BY <1>5, <2>1, NarrowingFollows DEF ReceiverLost, brokerSide, mirror
<1>6. CASE BrowseEnds(r)
  <2>1. \A q \in Receivers : subs'[q] \subseteq subs[q]
    BY <1>1, <1>6 DEF BrowseEnds
  <2> QED
    BY <1>6, <2>1, NarrowingFollows DEF BrowseEnds, brokerSide, mirror
<1>7. CASE \E ts \in {Actives, Topics} : BrowseBegins(r, ts)
  <2>1. UNCHANGED <<subs, retained, calls, active, past, holes>>
    BY <1>7 DEF BrowseBegins, brokerSide, mirror
  <2> QED
    BY <2>1, NarrowingFollows
<1> QED
  BY <1>2, <1>3, <1>4, <1>5, <1>6, <1>7 DEF ConnectNext

\* Callback i of receiver r is no longer waiting.
Taken(r, i) == calls' = [calls EXCEPT ![r] = Without(@, i)]

\* When callback i has run, the others of a topic keep their order.
LEMMA OthersRemain ==
  ASSUME FramesOK, NEW r \in Receivers, NEW i \in DOMAIN calls[r], NEW t,
         Taken(r, i)
  PROVE  /\ \A p \in InCalls(r, t) \ {i} : (IF p < i THEN p ELSE p - 1) \in InCalls(r, t)'
         /\ \A j \in InCalls(r, t)' :
              /\ (IF j < i THEN j ELSE j + 1) \in InCalls(r, t) \ {i}
              /\ IF j < i THEN calls'[r][j] = calls[r][j] ELSE calls'[r][j] = calls[r][j + 1]
<1> DEFINE c == calls[r]
           w == Without(c, i)
<1>1. calls \in [Receivers -> Seq(Sent)]
  BY DEF FramesOK
<1>2. c \in Seq(Sent) /\ DOMAIN c = 1 .. Len(c) /\ Len(c) \in Nat /\ i \in 1 .. Len(c)
  BY <1>1
<1>3. /\ w \in Seq(Sent) /\ Len(w) = Len(c) - 1
      /\ \A j \in 1 .. Len(c) - 1 : w[j] = c[IF j < i THEN j ELSE j + 1]
  BY <1>2, WithoutKeepsOrder
<1>4. calls'[r] = w /\ DOMAIN w = 1 .. Len(c) - 1
  BY <1>1, <1>3 DEF Taken
<1>5. InCalls(r, t) = {p \in 1 .. Len(c) : c[p].topic = t}
  BY <1>2 DEF InCalls
<1> HIDE DEF w
<1>6. InCalls(r, t)' = {j \in 1 .. Len(c) - 1 : w[j].topic = t}
  BY <1>4 DEF InCalls
<1> HIDE DEF c
<1>7. ASSUME NEW p \in InCalls(r, t) \ {i}
      PROVE  (IF p < i THEN p ELSE p - 1) \in InCalls(r, t)'
  <2>1. p \in 1 .. Len(c) /\ c[p].topic = t /\ p # i
    BY <1>5
  <2>2. CASE p < i
    <3>1. p \in 1 .. Len(c) - 1
      BY <1>2, <2>1, <2>2
    <3> QED
      BY <1>3, <1>6, <2>1, <2>2, <3>1
  <2>3. CASE ~(p < i)
    <3>1. p - 1 \in 1 .. Len(c) - 1 /\ ~(p - 1 < i) /\ (p - 1) + 1 = p
      BY <1>2, <2>1, <2>3
    <3>2. w[p - 1] = c[p]
      BY <1>3, <3>1
    <3> QED
      BY <1>6, <2>1, <2>3, <3>1, <3>2
  <2> QED
    BY <2>2, <2>3
<1>8. ASSUME NEW j \in InCalls(r, t)'
      PROVE  /\ (IF j < i THEN j ELSE j + 1) \in InCalls(r, t) \ {i}
             /\ w[j] = c[IF j < i THEN j ELSE j + 1]
  <2>1. j \in 1 .. Len(c) - 1 /\ w[j].topic = t
    BY <1>6
  <2>2. w[j] = c[IF j < i THEN j ELSE j + 1]
    BY <1>3, <2>1
  <2>3. CASE j < i
    <3>1. j \in 1 .. Len(c) /\ j # i
      BY <1>2, <2>1, <2>3
    <3> QED
      BY <1>5, <2>1, <2>2, <2>3, <3>1
  <2>4. CASE ~(j < i)
    <3>1. j + 1 \in 1 .. Len(c) /\ j + 1 # i
      BY <1>2, <2>1, <2>4
    <3> QED
      BY <1>5, <2>1, <2>2, <2>4, <3>1
  <2> QED
    BY <2>3, <2>4
<1> QED
  BY <1>4, <1>7, <1>8 DEF c

\* If the callback that ran was not the newest of the topic, the newest stays
\* the newest.
LEMMA NewestRemains ==
  ASSUME FramesOK, NEW r \in Receivers, NEW i \in DOMAIN calls[r], NEW t,
         Taken(r, i),
         i \notin InCalls(r, t) \/ \E m \in InCalls(r, t) : m > i,
         NEW j \in InCalls(r, t)', \A q \in InCalls(r, t)' : q <= j
  PROVE  \E m \in InCalls(r, t) :
           (\A p \in InCalls(r, t) : p <= m) /\ calls'[r][j] = calls[r][m]
<1> DEFINE m == IF j < i THEN j ELSE j + 1
<1>1. /\ \A p \in InCalls(r, t) \ {i} : (IF p < i THEN p ELSE p - 1) \in InCalls(r, t)'
      /\ m \in InCalls(r, t) \ {i}
      /\ calls'[r][j] = calls[r][m]
  <2>1. /\ \A p \in InCalls(r, t) \ {i} : (IF p < i THEN p ELSE p - 1) \in InCalls(r, t)'
        /\ \A q \in InCalls(r, t)' :
             /\ (IF q < i THEN q ELSE q + 1) \in InCalls(r, t) \ {i}
             /\ calls'[r][q] = calls[r][IF q < i THEN q ELSE q + 1]
    <3>1. ASSUME NEW p \in InCalls(r, t) \ {i}
          PROVE  (IF p < i THEN p ELSE p - 1) \in InCalls(r, t)'
      BY OthersRemain
    <3>2. ASSUME NEW q \in InCalls(r, t)'
          PROVE  /\ (IF q < i THEN q ELSE q + 1) \in InCalls(r, t) \ {i}
                 /\ calls'[r][q] = calls[r][IF q < i THEN q ELSE q + 1]
      <4>1. (IF q < i THEN q ELSE q + 1) \in InCalls(r, t) \ {i}
        BY OthersRemain
      <4>2. IF q < i THEN calls'[r][q] = calls[r][q] ELSE calls'[r][q] = calls[r][q + 1]
        BY OthersRemain
      <4> QED
        BY <4>1, <4>2
    <3> QED
      BY <3>1, <3>2
  <2> QED
    BY <2>1
<1>2. /\ \A p \in InCalls(r, t) : p \in Nat
      /\ i \in Nat
  <2>1. calls[r] \in Seq(Sent)
    BY DEF FramesOK
  <2>2. DOMAIN calls[r] = 1 .. Len(calls[r])
    BY <2>1, LenProperties
  <2>3. \A p \in DOMAIN calls[r] : p \in Nat
    BY <2>2
  <2> QED
    BY <2>3 DEF InCalls
<1>3. j \in Nat
  <2>1. calls'[r] = Without(calls[r], i)
    BY DEF FramesOK, Taken
  <2>2. calls[r] \in Seq(Sent) /\ i \in 1 .. Len(calls[r])
    BY DEF FramesOK
  <2>3. Without(calls[r], i) \in Seq(Sent)
    BY <2>2, WithoutKeepsOrder
  <2>4. DOMAIN Without(calls[r], i) = 1 .. Len(Without(calls[r], i))
    BY <2>3, LenProperties
  <2> QED
    BY <2>1, <2>4 DEF InCalls
<1>4. ASSUME NEW p \in InCalls(r, t) \ {i} PROVE p <= m
  <2>1. (IF p < i THEN p ELSE p - 1) <= j
    BY <1>1
  <2>2. p \in Nat /\ p # i
    BY <1>2
  <2> QED
    BY <1>2, <1>3, <2>1, <2>2
<1>5. ASSUME i \in InCalls(r, t) PROVE i <= m
  <2>1. PICK p \in InCalls(r, t) : p > i
    BY <1>5
  <2>2. p \in Nat /\ p <= m
    BY <1>2, <1>4, <2>1
  <2>3. m \in Nat
    BY <1>3
  <2> QED
    BY <1>2, <2>1, <2>2, <2>3
<1> QED
  BY <1>1, <1>4, <1>5

\* A callback changes the mirror of its own key only.
LEMMA HandledKey ==
  ASSUME FramesOK, NEW r \in Receivers, NEW i \in DOMAIN calls[r], HandleMessage(r, i),
         NEW k \in Keys, k # <<r, calls[r][i].topic>>
  PROVE  active'[k] = active[k] /\ (Undisturbed(k)' => Undisturbed(k))
<1> DEFINE f == calls[r][i]
<1>1. active \in [Keys -> 0 .. MaxFrames]
  BY DEF FramesOK, RecvTypeOK
<1>2. active'[k] = active[k]
  <2>1. \/ UNCHANGED active
        \/ \E v : active' = [active EXCEPT ![<<r, f.topic>>] = v]
    BY DEF HandleMessage, HandleActive, HandleInfo, HandleStatus, HandleEvent, DeleteActive,
           AddOrUpdateActive, mirror
  <2> QED
    BY <1>1, <2>1
<1>3. holes' = NewHoles(r, i)
  BY DEF HandleMessage
<1>4. \A h \in holes : h[1] = k => h \in NewHoles(r, i)
  BY DEF NewHoles
<1> QED
  BY <1>2, <1>3, <1>4 DEF Undisturbed

\* What a callback does to its own key.
LEMMA HandledShows ==
  ASSUME FramesOK, NEW r \in Receivers, NEW i \in DOMAIN calls[r], HandleMessage(r, i),
         NEW k \in Keys, k = <<r, calls[r][i].topic>>,
         Agrees(calls[r][i], Kept(k)), Judgeable(k), Undisturbed(k)'
  PROVE  Shows(k)' = Expected(k)'
<1> DEFINE f == calls[r][i]
<1>1. k[1] = r /\ k[2] = f.topic /\ f.topic \in Actives
  BY KeyParts
<1>2. f \in Sent
  BY DEF FramesOK
<1>3. f.form \in {"doc", "empty", "ended"} /\ Kept(k) = (IF f.form = "empty" THEN NoFrame ELSE f)
  <2>1. Kept(k) = (IF f.form = "empty" THEN NoFrame ELSE f)
    BY DEF Agrees
  <2>2. Kept(k) = NoFrame \/ Kept(k).form \in {"doc", "ended"}
    BY DEF Judgeable, Kept
  <2>3. f # NoFrame
    BY <1>2, SentIsSomething
  <2> QED
    BY <2>1, <2>2, <2>3
<1>4. f.topic # "alien" /\ f.topic \notin {"info", "status", "events", "generic"}
  BY <1>1, ReceiverConstants
<1>5. HandleActive(r, f) /\ UNCHANGED <<retained, past>> /\ holes' = NewHoles(r, i)
  BY <1>1, <1>3, <1>4 DEF HandleMessage, brokerSide
<1>6. ~(Stores(f) /\ TurnedAway(r, f.topic))
  <2> SUFFICES ASSUME Stores(f) /\ TurnedAway(r, f.topic) PROVE FALSE
    OBVIOUS
  <2>1. <<k, "full">> \in NewHoles(r, i)
    BY <1>1, <1>3 DEF NewHoles, Hole
  <2>2. <<k, "full">>[1] = k
    OBVIOUS
  <2> QED
    BY <1>5, <2>1, <2>2 DEF Undisturbed
<1>7. active \in [Keys -> 0 .. MaxFrames]
  BY DEF FramesOK, RecvTypeOK
<1> HIDE DEF f
<1>8. active'[k] = IF Stores(f) THEN f.ver ELSE 0
  <2>1. CASE Stores(f)
    <3>1. ValidActive(f)
      BY <2>1 DEF Stores, ValidActive
    <3>2. AddOrUpdateActive(r, f.topic, f.ver)
      BY <1>5, <2>1, <3>1 DEF HandleActive
    <3> QED
      BY <1>1, <1>6, <1>7, <2>1, <3>2 DEF AddOrUpdateActive, f
  <2>2. CASE ~Stores(f)
    <3>1. ValidActive(f)
      BY <1>3 DEF ValidActive
    <3>2. DeleteActive(r, f.topic)
      BY <1>5, <2>2, <3>1 DEF HandleActive
    <3> QED
      BY <1>1, <1>7, <2>2, <3>2 DEF DeleteActive, f
  <2> QED
    BY <2>1, <2>2
<1>9. Expected(k)' = IF Stores(f) THEN f.ver ELSE 0
  <2>1. Expected(k)' = IF Kept(k).form = "doc" /\ Kept(k).ver \notin past THEN Kept(k).ver ELSE 0
    BY <1>5 DEF Expected, Kept
  <2>2. CASE f.form = "empty"
    BY <1>3, <2>1, <2>2 DEF NoFrame, Stores
  <2>3. CASE f.form # "empty"
    BY <1>3, <2>1, <2>3 DEF Stores
  <2> QED
    BY <2>2, <2>3
<1> QED
  BY <1>5, <1>8, <1>9 DEF Shows, Stores

\* A callback of another topic, or an older one, leaves the newest callback of
\* a key what it was.
LEMMA StillNewest ==
  ASSUME FramesOK, NEW r \in Receivers, NEW i \in DOMAIN calls[r], Taken(r, i),
         NEW k \in Keys, k[1] = r, FollowsAt(k), Judgeable(k), Followed(k), Undisturbed(k),
         Kept(k)' = Kept(k),
         i \notin InCalls(r, k[2]) \/ \E m \in InCalls(r, k[2]) : m > i
  PROVE  \A j \in InCalls(k[1], k[2])' :
           (\A q \in InCalls(k[1], k[2])' : q <= j) => Agrees(calls'[k[1]][j], Kept(k)')
<1> DEFINE t == k[2]
<1>1. \A j \in InCalls(r, t) : (\A q \in InCalls(r, t) : q <= j) => Agrees(calls[r][j], Kept(k))
  BY DEF FollowsAt
<1> HIDE DEF t
<1> SUFFICES ASSUME NEW j \in InCalls(r, t)', \A q \in InCalls(r, t)' : q <= j
             PROVE  Agrees(calls'[r][j], Kept(k))
  BY DEF t
<1>2. i \notin InCalls(r, t) \/ \E m \in InCalls(r, t) : m > i
  BY DEF t
<1>3. PICK m \in InCalls(r, t) :
        (\A p \in InCalls(r, t) : p <= m) /\ calls'[r][j] = calls[r][m]
  BY <1>2, NewestRemains
<1> QED
  BY <1>1, <1>3

LEMMA HandleFollows ==
  ASSUME FramesOK, MirrorFollows, NEW r \in Receivers, NEW i \in DOMAIN calls[r], HandleMessage(r, i)
  PROVE  MirrorFollows'
<1> DEFINE f == calls[r][i]
<1>1. /\ Taken(r, i) /\ UNCHANGED <<retained, subs, past>> /\ holes' = NewHoles(r, i)
  BY DEF HandleMessage, Taken, brokerSide, clientSide
<1>2. /\ calls \in [Receivers -> Seq(Sent)] /\ calls[r] \in Seq(Sent)
      /\ f \in Sent /\ i \in Nat /\ f # NoFrame
  <2>1. calls \in [Receivers -> Seq(Sent)] /\ calls[r] \in Seq(Sent)
    BY DEF FramesOK
  <2>2. DOMAIN calls[r] = 1 .. Len(calls[r]) /\ f \in Sent
    BY <2>1
  <2> QED
    BY <2>1, <2>2, SentIsSomething
<1> HIDE DEF f
<1> SUFFICES ASSUME NEW k \in Keys, Judgeable(k)', Followed(k)', Undisturbed(k)'
             PROVE  /\ \A j \in InCalls(k[1], k[2])' :
                         (\A q \in InCalls(k[1], k[2])' : q <= j)
                           => Agrees(calls'[k[1]][j], Kept(k)')
                    /\ InCalls(k[1], k[2])' = {} => Shows(k)' = Expected(k)'
  BY DEF MirrorFollows, FollowsAt
<1>3. /\ FollowsAt(k) /\ k[1] \in Receivers /\ k[2] \in Actives /\ k = <<k[1], k[2]>>
      /\ Kept(k)' = Kept(k) /\ Judgeable(k) /\ Followed(k) /\ Expected(k)' = Expected(k)
  BY <1>1, KeyParts DEF MirrorFollows, Kept, Judgeable, Followed, Expected
<1>4. CASE k[1] # r
  <2>1. calls'[k[1]] = calls[k[1]]
    BY <1>1, <1>2, <1>3, <1>4 DEF Taken
  <2>2. active'[k] = active[k] /\ Undisturbed(k)
    <3>1. k # <<r, calls[r][i].topic>>
      BY <1>4
    <3> QED
      BY <3>1, HandledKey
  <2>3. Shows(k)' = Shows(k)
    BY <1>1, <2>2 DEF Shows
  <2>4. FollowsAt(k)'
    BY <1>1, <1>3, <2>1, <2>2, <2>3, StillFollows
  <2> QED
    BY <2>4 DEF FollowsAt
<1>5. CASE k[1] = r /\ k[2] # f.topic
  <2>1. i \notin InCalls(r, k[2])
    BY <1>5 DEF InCalls, f
  <2>2. active'[k] = active[k] /\ Undisturbed(k)
    <3>1. k # <<r, calls[r][i].topic>>
      BY <1>5 DEF f
    <3> QED
      BY <3>1, HandledKey
  <2>3. Shows(k)' = Shows(k)
    BY <1>1, <2>2 DEF Shows
  <2>4. ASSUME InCalls(k[1], k[2])' = {} PROVE InCalls(k[1], k[2]) = {}
    <3>1. \A p \in InCalls(r, k[2]) \ {i} : (IF p < i THEN p ELSE p - 1) \in InCalls(r, k[2])'
      BY <1>1, OthersRemain
    <3> QED
      BY <1>5, <2>1, <2>4, <3>1
  <2>5. InCalls(k[1], k[2])' = {} => Shows(k)' = Expected(k)'
    BY <1>3, <2>2, <2>3, <2>4 DEF FollowsAt
  <2> QED
    BY <1>1, <1>3, <1>5, <2>1, <2>2, <2>5, StillNewest
<1>6. CASE k = <<r, f.topic>>
  <2> DEFINE mine == InCalls(r, k[2])
  <2>1. k[1] = r /\ k[2] = f.topic /\ f.topic \in Actives
    BY <1>3, <1>6
  <2>2. i \in mine /\ \A p \in mine : p \in Nat
    <3>1. DOMAIN calls[r] = 1 .. Len(calls[r])
      BY <1>2, LenProperties
    <3>2. \A p \in DOMAIN calls[r] : p \in Nat
      BY <3>1
    <3> QED
      BY <2>1, <3>2 DEF InCalls, f
  <2>3. \A j \in mine : (\A q \in mine : q <= j) /\ Undisturbed(k) => Agrees(calls[r][j], Kept(k))
    BY <1>3, <2>1 DEF FollowsAt
  <2>4. \A p \in mine \ {i} : InCalls(r, k[2])' # {}
    BY <1>1, OthersRemain
  <2>5. CASE (\E m \in mine : m > i) /\ Undisturbed(k)
    <3>1. InCalls(k[1], k[2])' # {}
      BY <2>1, <2>2, <2>4, <2>5
    <3>2. \E m \in InCalls(r, k[2]) : m > i
      BY <2>1, <2>5
    <3> QED
      BY <1>1, <1>3, <2>1, <2>5, <3>1, <3>2, StillNewest
  <2>6. CASE f.form = "big"
    <3>1. Undisturbed(k)
      BY <1>1, <2>6 DEF NewHoles, Undisturbed, f
    <3>2. \E m \in mine : m > i
      <4> SUFFICES ASSUME \A m \in mine : ~(m > i) PROVE FALSE
        OBVIOUS
      <4>1. \A m \in mine : m <= i
        BY <1>2, <2>2
      <4>2. Agrees(f, Kept(k))
        BY <2>2, <2>3, <3>1, <4>1 DEF f
      <4> QED
        BY <1>2, <1>3, <2>6, <4>2 DEF Agrees, Judgeable, Kept
    <3> QED
      BY <2>5, <3>1, <3>2
  <2>7. CASE f.form # "big"
    <3> DEFINE others == {j \in DOMAIN calls[r] \ {i} : calls[r][j].topic = f.topic}
               settled == others = {} /\ Agrees(f, Kept(k))
    <3>1. others = mine \ {i}
      BY <2>1 DEF InCalls
    <3>2. settled <=> others = {} /\ retained[r][f.topic] = (IF f.form = "empty" THEN NoFrame ELSE f)
      BY <2>1 DEF Agrees, Kept
    <3>3. NewHoles(r, i) =
            (holes \ (IF settled THEN {h \in holes : h[1] = <<r, f.topic>>} ELSE {}))
              \cup (IF Stores(f) /\ TurnedAway(r, f.topic) THEN Hole(r, {f.topic}, "full") ELSE {})
              \cup (IF \E j \in others : j < i THEN Hole(r, {f.topic}, "overtaken") ELSE {})
      BY <2>1, <2>7, <3>2 DEF NewHoles, f
    <3> HIDE DEF others, settled
    <3>4. ~(\E j \in others : j < i)
      <4> SUFFICES ASSUME \E j \in others : j < i PROVE FALSE
        OBVIOUS
      <4>1. <<k, "overtaken">> \in NewHoles(r, i)
        BY <1>6, <2>1, <3>3 DEF Hole
      <4>2. <<k, "overtaken">>[1] = k
        OBVIOUS
      <4> QED
        BY <1>1, <4>1, <4>2 DEF Undisturbed
    <3>5. ~settled => Undisturbed(k)
      BY <1>1, <3>3 DEF Undisturbed
    <3>6. CASE others # {}
      <4>1. \E m \in mine : m > i
        <5>1. PICK m \in mine : m # i
          BY <3>1, <3>6
        <5>2. ~(m < i)
          BY <3>1, <3>4, <5>1
        <5> QED
          BY <1>2, <2>2, <5>1, <5>2
      <4>2. ~settled
        BY <3>6 DEF settled
      <4> QED
        BY <2>5, <3>5, <4>1, <4>2
    <3>7. CASE others = {}
      <4>1. InCalls(k[1], k[2])' = {}
        <5>1. \A j \in InCalls(r, k[2])' : (IF j < i THEN j ELSE j + 1) \in mine \ {i}
          BY <1>1, OthersRemain
        <5> QED
          BY <2>1, <3>1, <3>7, <5>1
      <4>2. Agrees(f, Kept(k))
        <5> SUFFICES ASSUME ~Agrees(f, Kept(k)) PROVE FALSE
          OBVIOUS
        <5>1. Undisturbed(k)
          BY <3>5 DEF settled
        <5>2. \A q \in mine : q <= i
          BY <1>2, <3>1, <3>7
        <5> QED
          BY <2>2, <2>3, <5>1, <5>2 DEF f
      <4>3. Shows(k)' = Expected(k)'
        BY <1>3, <1>6, <4>2, HandledShows DEF f
      <4> QED
        BY <4>1, <4>3
    <3> QED
      BY <3>6, <3>7
  <2> QED
    BY <2>6, <2>7
<1> QED
  BY <1>3, <1>4, <1>5, <1>6

-----------------------------------------------------------------------------
(* The rest of the steps, and the theorems.                                *)

\* Time and a reader change what is shown of a key only as they change what
\* the broker retains that still counts.
LEMMA ReadingFollows ==
  ASSUME FramesOK, MirrorFollows, Snapshot \/ \E v \in 1 .. MaxFrames : TimePasses(v)
  PROVE  MirrorFollows'
<1>1. /\ active \in [Keys -> 0 .. MaxFrames] /\ past \subseteq 1 .. MaxFrames /\ 0 \notin past
      /\ retained \in [Receivers -> [Retainable -> Frame]]
  BY DEF FramesOK, RecvTypeOK
<1>2. UNCHANGED <<retained, subs, calls, holes>>
  BY DEF Snapshot, TimePasses, brokerSide, clientSide
<1> SUFFICES ASSUME NEW k \in Keys PROVE FollowsAt(k)'
  BY DEF MirrorFollows
<1>3. FollowsAt(k) /\ k[1] \in Receivers /\ k[2] \in Retainable /\ Kept(k)' = Kept(k)
      /\ (Undisturbed(k)' => Undisturbed(k))
  BY <1>2, KeyParts DEF MirrorFollows, Kept, Undisturbed, Retainable
<1>4. Shows(k) = Expected(k) => Shows(k)' = Expected(k)'
  <2>1. CASE Snapshot
    <3>1. past' = past /\ active'[k] = (IF active[k] \in past THEN 0 ELSE active[k])
      BY <2>1 DEF Snapshot
    <3>2. Shows(k)' = Shows(k)
      BY <1>1, <3>1 DEF Shows
    <3>3. Expected(k)' = Expected(k)
      BY <1>2, <3>1 DEF Expected
    <3> QED
      BY <3>2, <3>3
  <2>2. CASE \E v \in 1 .. MaxFrames : TimePasses(v)
    <3>1. PICK v \in 1 .. MaxFrames : past' = past \cup {v} /\ active' = active
      BY <2>2 DEF TimePasses, mirror
    <3>2. Shows(k)' = (IF Shows(k) = v THEN 0 ELSE Shows(k))
      <4>1. Shows(k) = IF active[k] \in past THEN 0 ELSE active[k]
        BY DEF Shows
      <4>2. Shows(k)' = IF active[k] \in past' THEN 0 ELSE active[k]
        BY <3>1 DEF Shows
      <4> QED
        BY <3>1, <4>1, <4>2
    <3>3. Expected(k)' = (IF Expected(k) = v THEN 0 ELSE Expected(k))
      <4> DEFINE f == retained[k[1]][k[2]]
      <4>1. Expected(k) = IF f.form = "doc" /\ f.ver \notin past THEN f.ver ELSE 0
        BY DEF Expected
      <4>2. Expected(k)' = IF f.form = "doc" /\ f.ver \notin past' THEN f.ver ELSE 0
        BY <1>2 DEF Expected
      <4> HIDE DEF f
      <4> QED
        BY <3>1, <4>1, <4>2
    <3> QED
      BY <3>2, <3>3
  <2> QED
    BY <2>1, <2>2
<1> QED
  BY <1>2, <1>3, <1>4, StillFollows

LEMMA MirrorStep == FramesOK /\ MirrorFollows /\ [RecvNext]_recvVars => MirrorFollows'
<1> SUFFICES ASSUME FramesOK, MirrorFollows, [RecvNext]_recvVars PROVE MirrorFollows'
  OBVIOUS
<1>1. ASSUME NEW r \in Receivers, NEW t \in Feeds[r], NEW form \in FormsOf(t), BrokerPublishes(r, t, form)
      PROVE  MirrorFollows'
  <2>1. t \in Topics
    BY ReceiverConstants
  <2> QED
    BY <1>1, <2>1, PublishFollows
<1>2. ASSUME NEW r \in Receivers, ConnectNext(r) \/ BrowseEnds(r) PROVE MirrorFollows'
  BY <1>2, ConnectionFollows
<1>3. ASSUME NEW r \in Receivers, HandleNext(r) PROVE MirrorFollows'
  BY <1>3, HandleFollows DEF HandleNext
<1>4. ASSUME NEW r \in Flaky, ReceiverLost(r) \/ \E ts \in {Actives, Topics} : BrowseBegins(r, ts)
      PROVE  MirrorFollows'
  <2>1. r \in Receivers
    BY ReceiverConstants
  <2> QED
    BY <1>4, <2>1, ConnectionFollows
<1>5. CASE Snapshot \/ \E v \in 1 .. MaxFrames : TimePasses(v)
  BY <1>5, ReadingFollows
<1>6. CASE ConsumeEvent \/ DrainIngress \/ StopIntake
  BY <1>6, NarrowingFollows DEF ConsumeEvent, DrainIngress, StopIntake, brokerSide, clientSide, mirror
<1>7. CASE StopIntakeAll
  BY <1>7, NarrowingFollows DEF StopIntakeAll, brokerSide, mirror
<1>8. CASE UNCHANGED recvVars
  BY <1>8, NarrowingFollows DEF recvVars, brokerSide, clientSide, mirror
<1> QED
  BY <1>1, <1>2, <1>3, <1>4, <1>5, <1>6, <1>7, <1>8 DEF RecvNext

LEMMA InitialMirror == RecvInit => MirrorFollows
<1> SUFFICES ASSUME RecvInit, NEW k \in Keys PROVE FollowsAt(k)
  BY DEF MirrorFollows
<1>1. k[1] \in Receivers /\ k[2] \in Retainable
  BY KeyParts DEF Retainable
<1>2. InCalls(k[1], k[2]) = {}
  BY <1>1 DEF RecvInit, InCalls
<1>3. Shows(k) = 0 /\ Expected(k) = 0
  BY <1>1 DEF RecvInit, Shows, Expected, NoFrame
<1> QED
  BY <1>2, <1>3 DEF FollowsAt

\* With no callback left to run, the mirror of a receiver shows of every
\* followed and undisturbed key exactly what its broker retains
\* (mqttreceiver/ingestor.go, dispatch/state), however its frames, connections,
\* browses and callbacks came about.
THEOREM MirrorIsExact == RecvSpec => []MirrorExact
<1>1. FramesOK /\ MirrorFollows => MirrorExact
  <2> SUFFICES ASSUME MirrorFollows, NEW k \in Keys, Settled(k[1], k[2]), Judgeable(k),
                      \A h \in holes : h[1] # k
               PROVE  (IF active[k] \in past THEN 0 ELSE active[k]) = Expected(k)
    BY DEF MirrorExact
  <2>1. InCalls(k[1], k[2]) = {}
    BY DEF Settled, InCalls
  <2>2. Followed(k) /\ Undisturbed(k) /\ FollowsAt(k)
    BY DEF Settled, Followed, Undisturbed, MirrorFollows
  <2> QED
    BY <2>1, <2>2 DEF FollowsAt, Shows
<1> QED
  BY <1>1, FramesAlways, InitialMirror, MirrorStep, PTL DEF RecvSpec
=============================================================================
