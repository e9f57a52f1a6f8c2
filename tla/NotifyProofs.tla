---------------------------- MODULE NotifyProofs ----------------------------
(* The ledger makes submissions at most once and a plugin that hangs is    *)
(* never invoked again: for any groups, actions, transitions, capacities,  *)
(* retries and number of restarts.                                         *)
EXTENDS Notify, TLAPS

\* A request is backed by its ledger row, or by an excuse of the ledger: the
\* one in the engine's hands as well as the ones it has submitted.
Backed(x) == (IF x \in ledger THEN 1 ELSE 0) + excuses[x]

ClaimsBacked ==
  \A x \in Job : accepted[x] + (IF claimed = x THEN 1 ELSE 0) <= Backed(x)

\* An instance is disabled exactly when it has left a call behind, and then
\* its worker is not in a call.
DisabledOnHang ==
  \A a \in ActionIds :
    /\ abandoned[a] \in {0, 1}
    /\ disabled[a] <=> abandoned[a] = 1
    /\ disabled[a] => worker[a] \notin {"execute", "sleep"}

NotifyInv == NotifyTypeOK /\ ClaimsBacked /\ DisabledOnHang

-----------------------------------------------------------------------------
(* Sequences.                                                              *)

LEMMA AppendType ==
  ASSUME NEW S, NEW s \in Seq(S), NEW e \in S
  PROVE  Append(s, e) \in Seq(S)
OBVIOUS

LEMMA TailType ==
  ASSUME NEW S, NEW s \in Seq(S), s # <<>>
  PROVE  Head(s) \in S /\ Tail(s) \in Seq(S)
OBVIOUS

LEMMA EmptyType == ASSUME NEW S PROVE <<>> \in Seq(S)
OBVIOUS

-----------------------------------------------------------------------------
(* The web UI and the pruning.                                             *)

\* A forgotten row is turned into an excuse.
LEMMA ForgetBacked ==
  ASSUME NotifyInv, NEW rows \in SUBSET ledger, Forget(rows), UNCHANGED <<accepted, claimed>>
  PROVE  ClaimsBacked' /\ ledger' \in SUBSET Job /\ excuses' \in [Job -> Nat]
<1>1. ledger \in SUBSET Job /\ excuses \in [Job -> Nat] /\ accepted \in [Job -> Nat]
  BY DEF NotifyInv, NotifyTypeOK
<1>2. /\ ledger' = ledger \ rows
      /\ excuses' = [x \in Job |-> IF x \in rows THEN excuses[x] + 1 ELSE excuses[x]]
  BY DEF Forget
<1>3. \A x \in Job : Backed(x)' = Backed(x)
  <2> TAKE x \in Job
  <2>1. CASE x \in rows
    BY <2>1, <1>1, <1>2 DEF Backed
  <2>2. CASE x \notin rows
    BY <2>2, <1>1, <1>2 DEF Backed
  <2> QED
    BY <2>1, <2>2
<1>4. ClaimsBacked'
  BY <1>3 DEF NotifyInv, ClaimsBacked
<1>5. excuses' \in [Job -> Nat]
  BY <1>1, <1>2
<1> QED
  BY <1>1, <1>2, <1>4, <1>5

LEMMA StoreStep ==
  ASSUME NotifyInv, StoreNext
  PROVE  NotifyInv'
<1>1. UNCHANGED <<engineVars, instanceVars, process, bounds, accepted>>
  BY DEF StoreNext, SetGroupRouting, DeleteGroup, PruneActionFires
<1>2. DisabledOnHang'
  BY <1>1 DEF instanceVars, NotifyInv, DisabledOnHang
<1>3. ASSUME NEW g \in Groups, NEW cells \in SUBSET Cell, SetGroupRouting(g, cells)
      PROVE  rules' \in [Groups -> SUBSET Cell] /\ deleted' \in SUBSET Groups /\ ledger' \in SUBSET Job
             /\ excuses' \in [Job -> Nat] /\ ClaimsBacked'
  BY <1>1, <1>3 DEF SetGroupRouting, engineVars, NotifyInv, NotifyTypeOK, ClaimsBacked, Backed
<1>4. ASSUME NEW g \in Groups, DeleteGroup(g)
      PROVE  rules' \in [Groups -> SUBSET Cell] /\ deleted' \in SUBSET Groups /\ ledger' \in SUBSET Job
             /\ excuses' \in [Job -> Nat] /\ ClaimsBacked'
  <2>1. RowsOf(g) \in SUBSET ledger /\ Forget(RowsOf(g)) /\ UNCHANGED <<accepted, claimed>>
    BY <1>1, <1>4 DEF DeleteGroup, RowsOf, engineVars
  <2>2. rules' \in [Groups -> SUBSET Cell] /\ deleted' \in SUBSET Groups
    BY <1>4 DEF DeleteGroup, NotifyInv, NotifyTypeOK
  <2> QED
    BY <2>1, <2>2, ForgetBacked
<1>5. ASSUME NEW rows \in SUBSET ledger, PruneActionFires(rows)
      PROVE  rules' \in [Groups -> SUBSET Cell] /\ deleted' \in SUBSET Groups /\ ledger' \in SUBSET Job
             /\ excuses' \in [Job -> Nat] /\ ClaimsBacked'
  <2>1. Forget(rows) /\ UNCHANGED <<rules, deleted, accepted, claimed>>
    BY <1>1, <1>5 DEF PruneActionFires, engineVars
  <2> QED
    BY <2>1, ForgetBacked DEF NotifyInv, NotifyTypeOK
<1>6. rules' \in [Groups -> SUBSET Cell] /\ deleted' \in SUBSET Groups /\ ledger' \in SUBSET Job
      /\ excuses' \in [Job -> Nat] /\ ClaimsBacked'
  BY <1>3, <1>4, <1>5 DEF StoreNext
<1>7. NotifyTypeOK'
  BY <1>1, <1>6 DEF NotifyInv, NotifyTypeOK, engineVars, instanceVars, bounds
<1> QED
  BY <1>2, <1>6, <1>7 DEF NotifyInv

-----------------------------------------------------------------------------
(* The engine: a claim moves a request from the ledger into its hands, and *)
(* Submit out of them.                                                     *)

LEMMA EngineStep ==
  ASSUME NotifyInv, EngineNext \/ \E t \in Transitions : Enqueue(t)
  PROVE  NotifyInv'
<1> DEFINE Quiet == UNCHANGED <<ledger, claimed, accepted, excuses>>
           Rest == UNCHANGED <<rules, deleted, exits, process>>
<1>1. DisabledOnHang'
  <2>1. UNCHANGED <<worker, disabled, abandoned>>
    BY DEF EngineNext, Refresh, HandleTransition, ClaimNew, ClaimDuplicate, ClaimFails, Submit,
       EngineStops, Enqueue, instanceVars
  <2> QED
    BY <2>1 DEF NotifyInv, DisabledOnHang
<1>2. Quiet => ClaimsBacked'
  BY DEF NotifyInv, ClaimsBacked, Backed
<1>3. CASE Refresh
  BY <1>1, <1>2, <1>3 DEF Refresh, NotifyInv, NotifyTypeOK, ledgerVars, instanceVars, bounds
<1>4. CASE HandleTransition
  <2>1. inbox' \in Seq(Transitions) /\ todo' \in SUBSET Job
    BY <1>4, TailType DEF HandleTransition, Requests, NotifyInv, NotifyTypeOK
  <2> QED
    BY <1>1, <1>2, <1>4, <2>1 DEF HandleTransition, NotifyInv, NotifyTypeOK, ledgerVars, instanceVars, bounds
<1>5. ASSUME NEW x \in todo, ClaimNew(x)
      PROVE  NotifyInv'
  <2>1. /\ x \in Job /\ ledger \in SUBSET Job /\ x # NoJob
        /\ accepted \in [Job -> Nat] /\ excuses \in [Job -> Nat]
    BY <1>5, NoJobIsNoJob DEF NotifyInv, NotifyTypeOK
  <2>2. /\ ledger' = ledger \cup {x} /\ claimed' = x /\ x \notin ledger /\ claimed = NoJob
        /\ UNCHANGED <<accepted, excuses>>
    BY <1>5 DEF ClaimNew
  <2>3. ClaimsBacked'
    <3> SUFFICES ASSUME NEW y \in Job
                 PROVE  accepted[y] + (IF x = y THEN 1 ELSE 0)
                          <= (IF y \in ledger \cup {x} THEN 1 ELSE 0) + excuses[y]
      BY <2>2 DEF ClaimsBacked, Backed
    <3>1. accepted[y] <= (IF y \in ledger THEN 1 ELSE 0) + excuses[y]
      BY <2>1, <2>2, NoJobIsNoJob DEF NotifyInv, ClaimsBacked, Backed
    <3> QED
      BY <2>1, <2>2, <3>1
  <2>4. NotifyTypeOK'
    BY <1>5, <2>1, <2>2 DEF ClaimNew, NotifyInv, NotifyTypeOK, instanceVars, bounds
  <2> QED
    BY <1>1, <2>3, <2>4 DEF NotifyInv
<1>6. ASSUME NEW x \in todo, ClaimDuplicate(x)
      PROVE  NotifyInv'
  BY <1>1, <1>2, <1>6 DEF ClaimDuplicate, NotifyInv, NotifyTypeOK, ledgerVars, instanceVars, bounds
<1>7. ASSUME NEW x \in todo, ClaimFails(x)
      PROVE  NotifyInv'
  <2>1. /\ x \in Job /\ x # NoJob
        /\ accepted \in [Job -> Nat] /\ excuses \in [Job -> Nat]
    BY <1>7, NoJobIsNoJob DEF NotifyInv, NotifyTypeOK
  <2>2. /\ excuses' = [excuses EXCEPT ![x] = @ + 1] /\ claimed' = x /\ claimed = NoJob
        /\ UNCHANGED <<accepted, ledger>>
    BY <1>7 DEF ClaimFails, ledgerVars
  <2>3. excuses' \in [Job -> Nat] /\ excuses'[x] = excuses[x] + 1
        /\ \A y \in Job \ {x} : excuses'[y] = excuses[y]
    BY <2>1, <2>2
  <2>4. ClaimsBacked'
    <3> SUFFICES ASSUME NEW y \in Job
                 PROVE  accepted[y] + (IF x = y THEN 1 ELSE 0)
                          <= (IF y \in ledger THEN 1 ELSE 0) + excuses'[y]
      BY <2>2 DEF ClaimsBacked, Backed
    <3>1. accepted[y] <= (IF y \in ledger THEN 1 ELSE 0) + excuses[y]
      BY <2>1, <2>2, NoJobIsNoJob DEF NotifyInv, ClaimsBacked, Backed
    <3> QED
      BY <2>1, <2>3, <3>1
  <2>5. NotifyTypeOK'
    BY <1>7, <2>1, <2>2, <2>3 DEF ClaimFails, NotifyInv, NotifyTypeOK, ledgerVars, instanceVars, bounds
  <2> QED
    BY <1>1, <2>4, <2>5 DEF NotifyInv
<1>8. CASE Submit
  <2>1. /\ claimed \in Job /\ claimed[2] \in ActionIds /\ claimed' = NoJob
        /\ accepted \in [Job -> Nat] /\ excuses \in [Job -> Nat] /\ queue \in [ActionIds -> Seq(Job)]
        /\ UNCHANGED <<ledger, excuses>>
    BY <1>8 DEF Submit, NotifyInv, NotifyTypeOK, Job, ledgerVars
  <2>2. \/ /\ queue' = [queue EXCEPT ![claimed[2]] = Append(@, claimed)]
           /\ accepted' = [accepted EXCEPT ![claimed] = @ + 1]
        \/ UNCHANGED <<queue, accepted>>
    BY <1>8 DEF Submit
  <2>3. queue' \in [ActionIds -> Seq(Job)]
    <3>1. Append(queue[claimed[2]], claimed) \in Seq(Job)
      BY <2>1, AppendType
    <3> QED
      BY <2>1, <2>2, <3>1
  <2>4. accepted' \in [Job -> Nat] /\ \A y \in Job : accepted'[y] <= accepted[y] + (IF claimed = y THEN 1 ELSE 0)
    <3>1. CASE accepted' = accepted
      BY <2>1, <3>1
    <3>2. CASE accepted' = [accepted EXCEPT ![claimed] = @ + 1]
      <4>1. accepted' = [accepted EXCEPT ![claimed] = accepted[claimed] + 1] /\ accepted[claimed] + 1 \in Nat
        BY <2>1, <3>2
      <4>2. accepted'[claimed] = accepted[claimed] + 1 /\ \A y \in Job \ {claimed} : accepted'[y] = accepted[y]
        BY <2>1, <4>1
      <4> QED
        BY <2>1, <4>1, <4>2
    <3> QED
      BY <2>2, <3>1, <3>2
  <2>5. ClaimsBacked'
    <3> SUFFICES ASSUME NEW y \in Job
                 PROVE  accepted'[y] + 0 <= (IF y \in ledger THEN 1 ELSE 0) + excuses[y]
      BY <2>1, NoJobIsNoJob DEF ClaimsBacked, Backed
    <3>1. accepted[y] + (IF claimed = y THEN 1 ELSE 0) <= (IF y \in ledger THEN 1 ELSE 0) + excuses[y]
      BY DEF NotifyInv, ClaimsBacked, Backed
    <3> QED
      BY <2>1, <2>4, <3>1
  <2>6. NotifyTypeOK'
    BY <1>8, <2>1, <2>3, <2>4 DEF Submit, NotifyInv, NotifyTypeOK, ledgerVars, bounds
  <2> QED
    BY <1>1, <2>5, <2>6 DEF NotifyInv
<1>9. CASE EngineStops
  BY <1>1, <1>2, <1>9 DEF EngineStops, NotifyInv, NotifyTypeOK, ledgerVars, instanceVars, bounds
<1>10. ASSUME NEW t \in Transitions, Enqueue(t)
       PROVE  NotifyInv'
  <2>1. inbox' \in Seq(Transitions)
    BY <1>10, AppendType DEF Enqueue, NotifyInv, NotifyTypeOK
  <2>2. arrivals' \in Nat
    BY <1>10 DEF Enqueue, NotifyInv, NotifyTypeOK
  <2> QED
    BY <1>1, <1>2, <1>10, <2>1, <2>2 DEF Enqueue, NotifyInv, NotifyTypeOK, ledgerVars, instanceVars
<1> QED
  BY <1>3, <1>4, <1>5, <1>6, <1>7, <1>8, <1>9, <1>10 DEF EngineNext

-----------------------------------------------------------------------------
(* The instances.                                                          *)

\* A worker returns to its loop with nothing in its hands.
LEMMA BackToLoopType ==
  ASSUME NotifyInv, NEW a \in ActionIds, BackToLoop(a)
  PROVE  /\ worker' \in [ActionIds -> WorkerStates]
         /\ worker'[a] = "loop" /\ \A b \in ActionIds \ {a} : worker'[b] = worker[b]
         /\ job' \in [ActionIds -> Job \cup {NoJob}]
         /\ tries' \in [ActionIds -> Nat]
BY DEF BackToLoop, NotifyInv, NotifyTypeOK, WorkerStates

LEMMA InstanceStep ==
  ASSUME NotifyInv, NEW a \in ActionIds, InstanceNext(a)
  PROVE  NotifyInv'
<1>1. UNCHANGED <<ledgerVars, engineVars, process, bounds, accepted, excuses>>
  BY DEF InstanceNext, TakeRequest, ExecuteOk, ExecuteFails, RetryAgain, ExecuteHangs, CloseInstance
<1>2. ClaimsBacked'
  BY <1>1 DEF NotifyInv, ClaimsBacked, Backed, ledgerVars, engineVars
<1> DEFINE Types ==
      /\ queue' \in [ActionIds -> Seq(Job)]
      /\ worker' \in [ActionIds -> WorkerStates]
      /\ job' \in [ActionIds -> Job \cup {NoJob}]
      /\ tries' \in [ActionIds -> Nat]
      /\ disabled' \in [ActionIds -> BOOLEAN]
      /\ abandoned' \in [ActionIds -> Nat]
<1>3. /\ queue \in [ActionIds -> Seq(Job)]
      /\ worker \in [ActionIds -> WorkerStates]
      /\ job \in [ActionIds -> Job \cup {NoJob}]
      /\ tries \in [ActionIds -> Nat]
      /\ disabled \in [ActionIds -> BOOLEAN]
      /\ abandoned \in [ActionIds -> Nat]
  BY DEF NotifyInv, NotifyTypeOK
<1>4. CASE TakeRequest(a)
  <2>1. queue[a] # <<>> /\ Head(queue[a]) \in Job /\ Tail(queue[a]) \in Seq(Job)
    BY <1>3, <1>4, TailType DEF TakeRequest
  <2>2. queue' \in [ActionIds -> Seq(Job)] /\ UNCHANGED <<disabled, abandoned>>
    BY <1>3, <1>4, <2>1 DEF TakeRequest
  <2>3. ASSUME disabled[a]
        PROVE  Types /\ DisabledOnHang'
    <3>1. UNCHANGED <<worker, job, tries>>
      BY <1>4, <2>3 DEF TakeRequest
    <3> QED
      BY <1>3, <2>2, <3>1 DEF NotifyInv, DisabledOnHang
  <2>4. ASSUME ~disabled[a]
        PROVE  Types /\ DisabledOnHang'
    <3>1. /\ worker' = [worker EXCEPT ![a] = "execute"]
          /\ job' = [job EXCEPT ![a] = Head(queue[a])]
          /\ tries' = [tries EXCEPT ![a] = 0]
      BY <1>4, <2>4 DEF TakeRequest
    <3>2. worker' \in [ActionIds -> WorkerStates] /\ job' \in [ActionIds -> Job \cup {NoJob}]
      BY <1>3, <2>1, <3>1 DEF WorkerStates
    <3>3. tries' \in [ActionIds -> Nat]
      BY <1>3, <3>1
    <3>4. \A b \in ActionIds \ {a} : worker'[b] = worker[b]
      BY <1>3, <3>1
    <3>5. DisabledOnHang'
      BY <2>2, <2>4, <3>4 DEF NotifyInv, DisabledOnHang
    <3> QED
      BY <1>3, <2>2, <3>2, <3>3, <3>5
  <2>5. Types /\ DisabledOnHang'
    BY <2>3, <2>4
  <2> QED
    BY <1>1, <1>2, <2>5 DEF NotifyInv, NotifyTypeOK, ledgerVars, engineVars, bounds
<1>5. CASE ExecuteOk(a) \/ ExecuteFails(a) \/ RetryAgain(a) \/ CloseInstance(a)
  <2>1. UNCHANGED <<queue, disabled, abandoned>> /\ ~(worker[a] \in {"off", "closed"})
    BY <1>5 DEF ExecuteOk, ExecuteFails, RetryAgain, CloseInstance
  <2>2. \A b \in ActionIds \ {a} : worker'[b] = worker[b]
    BY <1>3, <1>5 DEF ExecuteOk, ExecuteFails, RetryAgain, CloseInstance, BackToLoop
  <2>3. worker[a] \in {"execute", "sleep"} \/ worker'[a] \notin {"execute", "sleep"}
    BY <1>3, <1>5 DEF ExecuteOk, ExecuteFails, RetryAgain, CloseInstance
  <2>4. DisabledOnHang'
    BY <2>1, <2>2, <2>3 DEF NotifyInv, DisabledOnHang
  <2>5. worker' \in [ActionIds -> WorkerStates]
    BY <1>3, <1>5 DEF ExecuteOk, ExecuteFails, RetryAgain, CloseInstance, BackToLoop, WorkerStates
  <2>6. job' \in [ActionIds -> Job \cup {NoJob}] /\ tries' \in [ActionIds -> Nat]
    <3>1. CASE ExecuteOk(a)
      BY <3>1, BackToLoopType DEF ExecuteOk
    <3>2. CASE ExecuteFails(a)
      <4>1. CASE tries[a] < Retries /\ tries' = [tries EXCEPT ![a] = @ + 1] /\ UNCHANGED job
        BY <4>1, <1>3
      <4>2. CASE BackToLoop(a)
        BY <4>2, BackToLoopType
      <4> QED
        BY <3>2, <4>1, <4>2 DEF ExecuteFails
    <3>3. CASE RetryAgain(a) \/ CloseInstance(a)
      BY <3>3, <1>3 DEF RetryAgain, CloseInstance
    <3> QED
      BY <1>5, <3>1, <3>2, <3>3
  <2> QED
    BY <1>1, <1>2, <1>3, <2>1, <2>4, <2>5, <2>6
       DEF NotifyInv, NotifyTypeOK, ledgerVars, engineVars, bounds
<1>6. CASE ExecuteHangs(a)
  <2>1. /\ worker[a] = "execute" /\ BackToLoop(a) /\ queue' = queue
        /\ disabled' = [disabled EXCEPT ![a] = TRUE]
        /\ abandoned' = [abandoned EXCEPT ![a] = @ + 1]
    BY <1>6 DEF ExecuteHangs
  <2>2. ~disabled[a] /\ abandoned[a] = 0
    BY <1>3, <2>1 DEF NotifyInv, DisabledOnHang
  <2>3. abandoned' \in [ActionIds -> Nat] /\ abandoned'[a] = 1
        /\ \A b \in ActionIds \ {a} : abandoned'[b] = abandoned[b]
    BY <1>3, <2>1, <2>2
  <2>4. disabled' \in [ActionIds -> BOOLEAN]
    BY <1>3, <2>1
  <2>5. disabled'[a] /\ \A b \in ActionIds \ {a} : disabled'[b] = disabled[b]
    BY <1>3, <2>1
  <2>6. DisabledOnHang'
    BY <2>1, <2>3, <2>5, BackToLoopType DEF NotifyInv, DisabledOnHang
  <2> QED
    BY <1>1, <1>2, <1>3, <2>1, <2>3, <2>4, <2>6, BackToLoopType
       DEF NotifyInv, NotifyTypeOK, ledgerVars, engineVars, bounds
<1> QED
  BY <1>4, <1>5, <1>6 DEF InstanceNext

-----------------------------------------------------------------------------
(* The process.                                                            *)

LEMMA ProcessStep ==
  ASSUME NotifyInv, Start \/ Signal \/ Exit \/ UNCHANGED vars
  PROVE  NotifyInv'
<1>1. CASE Start
  <2>1. worker' = [a \in ActionIds |-> "loop"]
    BY <1>1 DEF Start
  <2>2. worker' \in [ActionIds -> WorkerStates] /\ \A a \in ActionIds : worker'[a] = "loop"
    BY <2>1 DEF WorkerStates
  <2>3. UNCHANGED <<ledger, claimed, accepted, excuses, disabled, abandoned>>
    BY <1>1 DEF Start, ledgerVars
  <2>4. DisabledOnHang' /\ ClaimsBacked'
    BY <2>2, <2>3 DEF NotifyInv, DisabledOnHang, ClaimsBacked, Backed
  <2>5. NotifyTypeOK'
    BY <1>1, <2>2 DEF Start, NotifyInv, NotifyTypeOK, ledgerVars, bounds
  <2> QED
    BY <2>4, <2>5 DEF NotifyInv
<1>2. CASE Signal
  BY <1>2 DEF Signal, NotifyInv, NotifyTypeOK, DisabledOnHang, ClaimsBacked, Backed, ledgerVars,
     engineVars, instanceVars, bounds
<1>3. CASE Exit
  <2>1. UNCHANGED <<ledger, accepted, excuses>> /\ claimed' = NoJob
    BY <1>3 DEF Exit, ledgerVars
  <2>2. ClaimsBacked'
    <3> SUFFICES ASSUME NEW x \in Job
                 PROVE  accepted[x] + 0 <= (IF x \in ledger THEN 1 ELSE 0) + excuses[x]
      BY <2>1, NoJobIsNoJob DEF ClaimsBacked, Backed
    <3>1. accepted[x] + (IF claimed = x THEN 1 ELSE 0) <= (IF x \in ledger THEN 1 ELSE 0) + excuses[x]
      BY DEF NotifyInv, ClaimsBacked, Backed
    <3>2. accepted[x] \in Nat /\ excuses[x] \in Nat
      BY DEF NotifyInv, NotifyTypeOK
    <3> QED
      BY <3>1, <3>2
  <2>3. /\ worker' = [a \in ActionIds |-> "off"] /\ queue' = [a \in ActionIds |-> <<>>]
        /\ job' = [a \in ActionIds |-> NoJob] /\ tries' = [a \in ActionIds |-> 0]
        /\ disabled' = [a \in ActionIds |-> FALSE] /\ abandoned' = [a \in ActionIds |-> 0]
    BY <1>3 DEF Exit
  <2>4. DisabledOnHang'
    BY <2>3 DEF DisabledOnHang
  <2>5. /\ queue' \in [ActionIds -> Seq(Job)] /\ worker' \in [ActionIds -> WorkerStates]
        /\ job' \in [ActionIds -> Job \cup {NoJob}]
    BY <2>3, EmptyType DEF WorkerStates
  <2>6. tries' \in [ActionIds -> Nat] /\ abandoned' \in [ActionIds -> Nat]
    BY <2>3
  <2>7. disabled' \in [ActionIds -> BOOLEAN]
    BY <2>3
  <2>8. inbox' \in Seq(Transitions)
    BY <1>3, EmptyType DEF Exit
  <2>9. NotifyTypeOK'
    BY <1>3, <2>1, <2>5, <2>6, <2>7, <2>8 DEF Exit, NotifyInv, NotifyTypeOK, ledgerVars
  <2> QED
    BY <2>2, <2>4, <2>9 DEF NotifyInv
<1>4. CASE UNCHANGED vars
  BY <1>4 DEF vars, NotifyInv, NotifyTypeOK, DisabledOnHang, ClaimsBacked, Backed, ledgerVars,
     engineVars, instanceVars, bounds
<1> QED
  BY <1>1, <1>2, <1>3, <1>4

LEMMA NotifyInvInit == Init => NotifyInv
<1> SUFFICES ASSUME Init PROVE NotifyInv
  OBVIOUS
<1>1. DisabledOnHang
  BY DEF Init, DisabledOnHang
<1>2. ClaimsBacked
  BY NoJobIsNoJob DEF Init, ClaimsBacked, Backed
<1>3. /\ inbox \in Seq(Transitions) /\ queue \in [ActionIds -> Seq(Job)]
  BY EmptyType DEF Init
<1>4. disabled \in [ActionIds -> BOOLEAN]
  BY DEF Init
<1>5. NotifyTypeOK
  BY <1>3, <1>4 DEF Init, NotifyTypeOK, WorkerStates
<1> QED
  BY <1>1, <1>2, <1>5 DEF NotifyInv

LEMMA NotifyInvAlways == Spec => []NotifyInv
<1>1. NotifyInv /\ [Next]_vars => NotifyInv'
  BY StoreStep, EngineStep, InstanceStep, ProcessStep DEF Next
<1> QED
  BY <1>1, NotifyInvInit, PTL DEF Spec

-----------------------------------------------------------------------------
(* The theorem.                                                            *)

\* A transition that arrives again is not submitted again without an excuse of
\* the ledger, through crashes, pruning and rule changes; and an instance
\* whose plugin ignored its deadline makes no further call.
THEOREM NotificationsAreSafe == Spec => []NotifySafe
<1>1. NotifyInv => NotifySafe
  <2> SUFFICES ASSUME NotifyInv PROVE AtMostOnce /\ HungStaysOff
    BY DEF NotifySafe
  <2>1. AtMostOnce
    <3> SUFFICES ASSUME NEW x \in Job PROVE accepted[x] <= 1 + excuses[x]
      BY DEF AtMostOnce
    <3>1. accepted[x] + (IF claimed = x THEN 1 ELSE 0) <= (IF x \in ledger THEN 1 ELSE 0) + excuses[x]
      BY DEF NotifyInv, ClaimsBacked, Backed
    <3>2. accepted[x] \in Nat /\ excuses[x] \in Nat
      BY DEF NotifyInv, NotifyTypeOK
    <3> QED
      BY <3>1, <3>2
  <2>2. HungStaysOff
    BY DEF NotifyInv, DisabledOnHang, HungStaysOff
  <2> QED
    BY <2>1, <2>2
<1> QED
  BY <1>1, NotifyInvAlways, PTL
=============================================================================
