--------------------------- MODULE EmitQueueProofs ---------------------------
(***************************************************************************)
(* The queue of Emit: it tells the truth about every event and shutdown    *)
(* strands none, for any number of sources and any queue capacity.         *)
(***************************************************************************)
EXTENDS EmitQueue, TLAPS

-----------------------------------------------------------------------------
(* What the queue operations do to the set of queued sources.              *)

LEMMA AppendQueued ==
  ASSUME QueueTypeOK, NEW s \in Sources, queue' = Append(queue, s)
  PROVE  /\ queue' \in Seq(Sources)
         /\ \A t \in Sources : Queued(t)' <=> Queued(t) \/ t = s
         /\ ~Queued(s) /\ (\A i, j \in DOMAIN queue : queue[i] = queue[j] => i = j)
              => \A i, j \in DOMAIN queue' : queue'[i] = queue'[j] => i = j
<1>1. queue \in Seq(Sources) /\ queue' \in Seq(Sources) /\ Len(queue') = Len(queue) + 1
  BY DEF QueueTypeOK
<1>2. DOMAIN queue = 1 .. Len(queue) /\ DOMAIN queue' = 1 .. (Len(queue) + 1) /\ Len(queue) \in Nat
  BY <1>1
<1>3. queue'[Len(queue) + 1] = s /\ \A i \in 1 .. Len(queue) : queue'[i] = queue[i]
  BY <1>1
<1>4. \A t \in Sources : Queued(t)' <=> Queued(t) \/ t = s
  BY <1>2, <1>3 DEF Queued
<1>5. ASSUME ~Queued(s), \A i, j \in DOMAIN queue : queue[i] = queue[j] => i = j,
             NEW i \in DOMAIN queue', NEW j \in DOMAIN queue', queue'[i] = queue'[j]
      PROVE  i = j
  BY <1>2, <1>3, <1>5 DEF Queued
<1> QED
  BY <1>1, <1>4, <1>5

LEMMA TailQueued ==
  ASSUME QueueTypeOK, queue # <<>>, queue' = Tail(queue),
         \A i, j \in DOMAIN queue : queue[i] = queue[j] => i = j
  PROVE  /\ queue' \in Seq(Sources)
         /\ Head(queue) \in Sources
         /\ Queued(Head(queue))
         /\ \A t \in Sources : Queued(t)' <=> Queued(t) /\ t # Head(queue)
         /\ \A i, j \in DOMAIN queue' : queue'[i] = queue'[j] => i = j
<1>1. queue \in Seq(Sources) /\ Len(queue) \in Nat /\ Len(queue) # 0
  BY DEF QueueTypeOK
<1>2. queue' \in Seq(Sources) /\ Len(queue') = Len(queue) - 1 /\ Head(queue) = queue[1]
  BY <1>1
<1>3. DOMAIN queue = 1 .. Len(queue) /\ DOMAIN queue' = 1 .. (Len(queue) - 1)
  BY <1>1, <1>2
<1>4. \A i \in 1 .. (Len(queue) - 1) : queue'[i] = queue[i + 1]
  BY <1>1
<1>5. 1 \in DOMAIN queue /\ queue[1] \in Sources
  BY <1>1, <1>3
<1>6. ASSUME NEW t \in Sources
      PROVE  Queued(t)' <=> Queued(t) /\ t # Head(queue)
  <2>1. ASSUME Queued(t)' PROVE Queued(t) /\ t # Head(queue)
    <3>1. PICK i \in 1 .. (Len(queue) - 1) : queue[i + 1] = t
      BY <2>1, <1>3, <1>4 DEF Queued
    <3>2. i + 1 \in DOMAIN queue /\ i + 1 # 1
      BY <1>1, <1>3
    <3> QED
      BY <3>1, <3>2, <1>2, <1>5 DEF Queued
  <2>2. ASSUME Queued(t), t # Head(queue) PROVE Queued(t)'
    <3>1. PICK i \in 1 .. Len(queue) : queue[i] = t
      BY <2>2, <1>3 DEF Queued
    <3>2. i # 1 /\ i - 1 \in 1 .. (Len(queue) - 1) /\ (i - 1) + 1 = i
      BY <3>1, <2>2, <1>1, <1>2
    <3>3. queue'[i - 1] = t
      BY <3>1, <3>2, <1>4
    <3> QED
      BY <3>2, <3>3, <1>3 DEF Queued
  <2> QED
    BY <2>1, <2>2
<1>7. ASSUME NEW i \in DOMAIN queue', NEW j \in DOMAIN queue', queue'[i] = queue'[j]
      PROVE  i = j
  <2>1. i + 1 \in DOMAIN queue /\ j + 1 \in DOMAIN queue /\ queue[i + 1] = queue[j + 1]
    BY <1>1, <1>3, <1>4, <1>7
  <2>2. i + 1 = j + 1
    BY <2>1
  <2> QED
    BY <2>2, <1>1, <1>3
<1> QED
  BY <1>2, <1>5, <1>6, <1>7 DEF Queued

-----------------------------------------------------------------------------
(* One step per group of actions.                                          *)

\* Steps of a caller that leave the queue alone.
LEMMA CallerStep ==
  ASSUME QueueInv, NEW s \in Sources,
         \/ EmitBegin(s) \/ EmitCancelled(s) \/ Rejected(s) \/ Admitted(s)
         \/ SendGivesUp(s) \/ Completed(s)
  PROVE  QueueInv'
<1> USE DEF Return
<1>1. UNCHANGED <<phase, accepting, queue, worker, current>>
  BY DEF EmitBegin, EmitCancelled, Rejected, Admitted, SendGivesUp, Completed
<1>2. \A t \in Sources : Queued(t)' <=> Queued(t)
  BY <1>1 DEF Queued
<1>3. QueueTypeOK'
  <2>1. caller' \in [Sources -> CallerStates] /\ holder' \in Sources \cup {Free}
    BY DEF QueueInv, QueueTypeOK, CallerStates, EmitBegin, EmitCancelled, Rejected,
       Admitted, SendGivesUp, Completed
  <2>2. done' \in [Sources -> Results] /\ answer' \in [Sources -> Results]
    BY DEF QueueInv, QueueTypeOK, Results, EmitBegin, EmitCancelled, Rejected,
       Admitted, SendGivesUp, Completed
  <2>3. persisted' \in [Sources -> BOOLEAN]
    BY Zenon DEF QueueInv, QueueTypeOK, EmitBegin, EmitCancelled, Rejected,
       Admitted, SendGivesUp, Completed
  <2>4. emits' \in [Sources -> Nat]
    BY DEF QueueInv, QueueTypeOK, EmitBegin, EmitCancelled, Rejected,
       Admitted, SendGivesUp, Completed
  <2> QED
    BY <1>1, <2>1, <2>2, <2>3, <2>4 DEF QueueInv, QueueTypeOK
<1>4. LockDiscipline'
  BY <1>1, QueueConstants DEF QueueInv, QueueTypeOK, LockDiscipline, ControlCancelled, DrainStates,
     EmitBegin, EmitCancelled, Rejected, Admitted, SendGivesUp, Completed
<1>5. OnePlace'
  BY <1>1, <1>2 DEF QueueInv, QueueTypeOK, OnePlace, EmitBegin, EmitCancelled, Rejected,
     Admitted, SendGivesUp, Completed
<1>6. OutcomeKept'
  BY <1>1 DEF QueueInv, QueueTypeOK, OutcomeKept, Results, EmitBegin, EmitCancelled, Rejected,
     Admitted, SendGivesUp, Completed
<1> QED
  BY <1>3, <1>4, <1>5, <1>6 DEF QueueInv

LEMMA SendStep ==
  ASSUME QueueInv, NEW s \in Sources, Send(s)
  PROVE  QueueInv'
<1>1. /\ queue' = Append(queue, s) /\ holder' = Free /\ caller[s] = "sending"
      /\ caller' = [caller EXCEPT ![s] = "waiting"]
      /\ UNCHANGED <<phase, accepting, worker, current, done, persisted, answer, emits>>
  BY DEF Send
<1>2. done[s] = "none" /\ holder = s /\ ~Queued(s) /\ current # s
  BY <1>1 DEF QueueInv, LockDiscipline, OnePlace, OutcomeKept
<1>3. QueueTypeOK'
  BY <1>1, AppendQueued DEF QueueInv, QueueTypeOK, CallerStates
<1>4. LockDiscipline'
  BY <1>1, <1>2, QueueConstants DEF QueueInv, QueueTypeOK, LockDiscipline, ControlCancelled
<1>5. OnePlace'
  BY <1>1, <1>2, AppendQueued DEF QueueInv, QueueTypeOK, OnePlace
<1>6. OutcomeKept'
  BY <1>1, <1>2 DEF QueueInv, QueueTypeOK, OutcomeKept
<1> QED
  BY <1>3, <1>4, <1>5, <1>6 DEF QueueInv

LEMMA TakeStep ==
  ASSUME QueueInv, Take
  PROVE  QueueInv'
<1>1. /\ queue # <<>> /\ queue' = Tail(queue) /\ current' = Head(queue)
      /\ worker \in {"loop", "draining"}
      /\ worker' = IF worker = "loop" THEN "process" ELSE "drainProcess"
      /\ UNCHANGED <<phase, accepting, holder, caller, done, persisted, answer, emits>>
  BY DEF Take
<1>2. current = Free
  BY <1>1 DEF QueueInv, LockDiscipline
<1>3. /\ queue' \in Seq(Sources)
      /\ Head(queue) \in Sources /\ Queued(Head(queue))
      /\ \A t \in Sources : Queued(t)' <=> Queued(t) /\ t # Head(queue)
      /\ \A i, j \in DOMAIN queue' : queue'[i] = queue'[j] => i = j
  BY <1>1, TailQueued DEF QueueInv, OnePlace
<1>4. QueueTypeOK'
  BY <1>1, <1>3 DEF QueueInv, QueueTypeOK, WorkerStates
<1>5. LockDiscipline'
  BY <1>1, <1>2, <1>3, QueueConstants DEF QueueInv, LockDiscipline, ControlCancelled, DrainStates
<1>6. OnePlace'
  BY <1>1, <1>2, <1>3, QueueConstants DEF QueueInv, OnePlace
<1>7. OutcomeKept'
  BY <1>1 DEF QueueInv, OutcomeKept
<1> QED
  BY <1>4, <1>5, <1>6, <1>7 DEF QueueInv

LEMMA ProcessStep ==
  ASSUME QueueInv, NEW ok \in BOOLEAN, Process(ok)
  PROVE  QueueInv'
<1>1. /\ worker \in {"process", "drainProcess"}
      /\ done' = [done EXCEPT ![current] = IF ok THEN "nil" ELSE "error"]
      /\ persisted' = [persisted EXCEPT ![current] = ok]
      /\ current' = Free
      /\ worker' = IF worker = "process" THEN "loop" ELSE "recheck"
      /\ UNCHANGED <<phase, accepting, holder, queue, caller, answer, emits>>
  BY DEF Process
<1>2. current \in Sources /\ caller[current] = "waiting"
  BY <1>1 DEF QueueInv, QueueTypeOK, LockDiscipline, OnePlace
<1>3. \A t \in Sources : Queued(t)' <=> Queued(t)
  BY <1>1 DEF Queued
<1>4. QueueTypeOK'
  <2>1. persisted' \in [Sources -> BOOLEAN]
    BY <1>1, <1>2, Zenon DEF QueueInv, QueueTypeOK
  <2>2. done' \in [Sources -> Results]
    BY <1>1, <1>2 DEF QueueInv, QueueTypeOK, Results
  <2> QED
    BY <1>1, <2>1, <2>2 DEF QueueInv, QueueTypeOK, WorkerStates
<1>5. LockDiscipline'
  BY <1>1 DEF QueueInv, LockDiscipline, ControlCancelled, DrainStates
<1>6. OnePlace'
  BY <1>1, <1>2, <1>3, QueueConstants DEF QueueInv, QueueTypeOK, OnePlace
<1>7. OutcomeKept'
  BY <1>1, <1>2 DEF QueueInv, QueueTypeOK, OutcomeKept
<1> QED
  BY <1>4, <1>5, <1>6, <1>7 DEF QueueInv

LEMMA DrainStep ==
  ASSUME QueueInv, BeginDrain \/ CheckEmpty \/ DrainTimeout
  PROVE  QueueInv'
<1>1. UNCHANGED <<phase, accepting, holder, queue, caller, current, done, persisted, answer, emits>>
  BY DEF BeginDrain, CheckEmpty, DrainTimeout
<1>2. \A t \in Sources : Queued(t)' <=> Queued(t)
  BY <1>1 DEF Queued
<1>3. QueueTypeOK' /\ LockDiscipline'
  BY <1>1 DEF QueueInv, QueueTypeOK, LockDiscipline, ControlCancelled, WorkerStates, DrainStates,
     BeginDrain, CheckEmpty, DrainTimeout
<1>4. OnePlace' /\ OutcomeKept'
  BY <1>1, <1>2 DEF QueueInv, OnePlace, OutcomeKept
<1> QED
  BY <1>3, <1>4 DEF QueueInv

LEMMA SweepStep ==
  ASSUME QueueInv, Sweep
  PROVE  QueueInv'
<1>1. /\ worker = "sweep" /\ holder = Free
      /\ done' = [s \in Sources |-> IF Queued(s) THEN "error" ELSE done[s]]
      /\ queue' = <<>> /\ worker' = "exited"
      /\ UNCHANGED <<phase, accepting, holder, caller, current, persisted, answer, emits>>
  BY DEF Sweep
<1>2. current = Free
  BY <1>1 DEF QueueInv, LockDiscipline
<1>3. DOMAIN queue' = {} /\ \A t \in Sources : ~Queued(t)'
  BY <1>1 DEF Queued
<1>4. QueueTypeOK'
  BY <1>1 DEF QueueInv, QueueTypeOK, WorkerStates, Results
<1>5. LockDiscipline'
  BY <1>1 DEF QueueInv, LockDiscipline, ControlCancelled, DrainStates
<1>6. OnePlace'
  BY <1>1, <1>2, <1>3, QueueConstants DEF QueueInv, OnePlace
<1>7. OutcomeKept'
  BY <1>1 DEF QueueInv, OnePlace, OutcomeKept
<1> QED
  BY <1>4, <1>5, <1>6, <1>7 DEF QueueInv

LEMMA RunStep ==
  ASSUME QueueInv, StopAccepting \/ CancelIngest \/ RunReturns \/ UNCHANGED vars
  PROVE  QueueInv'
<1>1. UNCHANGED <<holder, queue, caller, worker, current, done, persisted, answer, emits>>
  BY DEF StopAccepting, CancelIngest, RunReturns, vars
<1>2. \A t \in Sources : Queued(t)' <=> Queued(t)
  BY <1>1 DEF Queued
<1>3. QueueTypeOK'
  <2>1. phase' \in Phases
    BY DEF QueueInv, QueueTypeOK, Phases, StopAccepting, CancelIngest, RunReturns, vars
  <2>2. accepting' \in BOOLEAN
    BY Zenon DEF QueueInv, QueueTypeOK, StopAccepting, CancelIngest, RunReturns, vars
  <2> QED
    BY <1>1, <2>1, <2>2 DEF QueueInv, QueueTypeOK
<1>5. LockDiscipline'
  <2>1. CASE StopAccepting
    BY <1>1, <2>1 DEF StopAccepting, QueueInv, LockDiscipline, ControlCancelled, DrainStates
  <2>2. CASE CancelIngest
    BY <1>1, <2>2 DEF CancelIngest, QueueInv, LockDiscipline, ControlCancelled, DrainStates
  <2>3. CASE RunReturns
    BY <1>1, <2>3 DEF RunReturns, QueueInv, LockDiscipline, ControlCancelled, DrainStates
  <2>4. CASE UNCHANGED vars
    BY <1>1, <2>4 DEF vars, QueueInv, LockDiscipline, ControlCancelled
  <2> QED
    BY <2>1, <2>2, <2>3, <2>4
<1>4. OnePlace' /\ OutcomeKept'
  BY <1>1, <1>2 DEF QueueInv, OnePlace, OutcomeKept
<1> QED
  BY <1>3, <1>4, <1>5 DEF QueueInv

LEMMA QueueInvInit == Init => QueueInv
<1> SUFFICES ASSUME Init PROVE QueueInv
  OBVIOUS
<1>1. QueueTypeOK
  BY DEF Init, QueueTypeOK, Phases, CallerStates, WorkerStates, Results
<1>2. DOMAIN queue = {} /\ \A t \in Sources : ~Queued(t)
  BY DEF Init, Queued
<1> QED
  BY <1>1, <1>2, QueueConstants DEF Init, QueueInv, LockDiscipline, OnePlace, OutcomeKept,
     DrainStates

LEMMA QueueInvAlways == Spec => []QueueInv
<1>1. ASSUME QueueInv, [Next]_vars
      PROVE  QueueInv'
  BY <1>1, CallerStep, SendStep, TakeStep, ProcessStep, DrainStep, SweepStep, RunStep
     DEF Next, CallerNext, WorkerNext
<1> QED
  BY <1>1, QueueInvInit, PTL DEF Spec

-----------------------------------------------------------------------------
(* The theorems.                                                           *)

\* Emit returns nil only for an event that is in the store, and an error only
\* for one that is not and that nobody will persist later.
THEOREM EmitIsTruthful == Spec => []AnswerIsTruth
<1>1. QueueInv => AnswerIsTruth
  BY DEF QueueInv, OnePlace, OutcomeKept, AnswerIsTruth
<1> QED
  BY <1>1, QueueInvAlways, PTL

\* When the ingest worker is gone no event is left without a completion.
THEOREM ShutdownStrandsNothing == Spec => []NothingStranded
<1>1. QueueInv => NothingStranded
  <2> SUFFICES ASSUME QueueInv, worker = "exited"
               PROVE  /\ queue = <<>>
                      /\ \A s \in Sources :
                           /\ caller[s] # "sending"
                           /\ caller[s] = "waiting" => done[s] # "none"
    BY DEF NothingStranded
  <2>1. queue = <<>> /\ holder = Free /\ current = Free
    BY DEF QueueInv, LockDiscipline
  <2>2. \A s \in Sources : ~Queued(s) /\ current # s /\ holder # s
    BY <2>1, QueueConstants DEF Queued
  <2> QED
    BY <2>1, <2>2 DEF QueueInv, LockDiscipline, OnePlace
<1> QED
  BY <1>1, QueueInvAlways, PTL
=============================================================================
